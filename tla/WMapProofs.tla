----------------------------- MODULE WMapProofs ------------------------------
(***************************************************************************)
(* Proofs about p4's memory mappings, for any number of processes and any  *)
(* sizes of the memory, the window and the file.                           *)
(*                                                                         *)
(* First each operator of WMap, loops included, is described by what it    *)
(* changes (NewMapping, Unmapped, Remapped, Loaded, Forked, Execed,        *)
(* Departed, Exited, Reaped); Steps puts them together, and from there on  *)
(* only these descriptions are used.  Memory, that no page has two users,  *)
(* is inductive by itself; Vacant, Info, Refs and Saved need it, and each  *)
(* other.                                                                  *)
(***************************************************************************)
EXTENDS WMap, FiniteSetTheorems, SequenceTheorems, WellFoundedInduction, TLAPS

-----------------------------------------------------------------------------
(* Loops *)

\* A set of naturals has a least element.
LEMMA Least ==
  ASSUME NEW T \in SUBSET Nat, T # {}
  PROVE  \E x \in T : \A y \in T : x <= y
<1>1. PICK R : R = {ss \in Nat \X Nat : ss[1] < ss[2]}
  OBVIOUS
<1>2. IsWellFoundedOn(R, Nat)
  BY <1>1, NatLessThanWellFounded DEF OpToRel
<1>3. PICK x \in T : \A y \in T : ~(<<y, x>> \in R)
  BY <1>2, WFMin
<1>4. ASSUME NEW y \in T PROVE x <= y
  <2>1. x \in Nat /\ y \in Nat
    OBVIOUS
  <2>2. ~(y < x)
    BY <1>1, <1>3, <2>1
  <2> QED
    BY <2>1, <2>2
<1> QED
  BY <1>4

\* Induction over the rounds of a loop: G is the set of rounds where something holds.
LEMMA Induction ==
  ASSUME NEW n \in Nat, NEW G, 0 \in G, \A k \in 0 .. n - 1 : k \in G => k + 1 \in G
  PROVE  \A k \in 0 .. n : k \in G
<1>1. PICK B : B = {k \in 0 .. n : k \notin G}
  OBVIOUS
<1> SUFFICES ASSUME B # {} PROVE FALSE
  BY <1>1
<1>2. PICK x \in B : \A y \in B : x <= y
  <2>1. B \in SUBSET Nat
    BY <1>1
  <2> QED
    BY <2>1, Least
<1>3. x \in Nat /\ x <= n /\ x # 0
  BY <1>1, <1>2
<1>4. x - 1 \in 0 .. n /\ x - 1 < x /\ x - 1 \in 0 .. n - 1 /\ x - 1 + 1 = x
  BY <1>3
<1>5. x - 1 \in G
  BY <1>1, <1>2, <1>3, <1>4
<1> QED
  BY <1>1, <1>4, <1>5

\* F is the course of a loop with step function R.
Course(F, n, S, start, R) ==
  /\ F \in [0 .. n -> S] /\ F[0] = start
  /\ \A k \in 0 .. n - 1 : F[k + 1] = R[<<F[k], k>>]

\* A step function on a set of states can be iterated.
LEMMA Iterate ==
  ASSUME NEW n \in Nat, NEW S, NEW start \in S, NEW R \in [S \X (0 .. n - 1) -> S]
  PROVE  \E F : Course(F, n, S, start, R)
<1>1. PICK G : G = {l \in 0 .. n : \E F : Course(F, l, S, start, R)}
  OBVIOUS
<1>2. 0 \in G
  <2>1. PICK F : F = [k \in 0 .. 0 |-> start]
    OBVIOUS
  <2>2. Course(F, 0, S, start, R)
    BY <2>1 DEF Course
  <2> QED
    BY <1>1, <2>2
<1>3. ASSUME NEW l \in 0 .. n - 1, l \in G PROVE l + 1 \in G
  <2>1. PICK F : Course(F, l, S, start, R)
    BY <1>1, <1>3
  <2>2. F \in [0 .. l -> S] /\ F[0] = start /\ \A k \in 0 .. l - 1 : F[k + 1] = R[<<F[k], k>>]
    BY <2>1 DEF Course
  <2>3. PICK x \in S : x = R[<<F[l], l>>]
    <3>1. <<F[l], l>> \in S \X (0 .. n - 1)
      BY <2>2
    <3> QED
      BY <3>1
  <2>4. PICK H : H = [k \in 0 .. l + 1 |-> IF k = l + 1 THEN x ELSE F[k]]
    OBVIOUS
  <2>5. H \in [0 .. l + 1 -> S] /\ H[0] = start
    BY <2>2, <2>4
  <2>6. ASSUME NEW k \in 0 .. l PROVE H[k + 1] = R[<<H[k], k>>]
    <3>1. H[k] = F[k]
      BY <2>4
    <3>2. CASE k = l
      <4>1. H[l + 1] = x /\ H[l] = F[l]
        BY <2>4
      <4>2. x = R[<<H[l], l>>]
        BY <2>3, <4>1
      <4>3. H[l + 1] = R[<<H[l], l>>]
        BY <4>1, <4>2
      <4> QED
        BY <3>2, <4>3
    <3>3. CASE k # l
      <4>1. H[k + 1] = F[k + 1] /\ k \in 0 .. l - 1
        BY <2>4, <3>3
      <4> QED
        BY <2>2, <3>1, <4>1
    <3> QED
      BY <3>2, <3>3
  <2>7. Course(H, l + 1, S, start, R)
    BY <2>5, <2>6 DEF Course
  <2>8. l + 1 \in 0 .. n
    OBVIOUS
  <2> QED
    BY <1>1, <2>7, <2>8
<1>4. n \in G
  <2>1. \A k \in 0 .. n : k \in G
    BY <1>2, <1>3, Induction
  <2> QED
    BY <2>1
<1> QED
  BY <1>1, <1>4

-----------------------------------------------------------------------------
(* Lists of entries *)

\* Removing an entry of a list.
LEMMA RemoveAtIs ==
  ASSUME NEW S, NEW q \in Seq(S), NEW i \in 1 .. Len(q), NEW t, t = RemoveAt(q, i)
  PROVE  /\ t \in Seq(S) /\ Len(t) = Len(q) - 1
         /\ \A j \in 1 .. Len(q) - 1 : t[j] = IF j < i THEN q[j] ELSE q[j + 1]
<1>1. Len(q) \in Nat /\ \A j \in 1 .. Len(q) : q[j] \in S
  OBVIOUS
<1>2. PICK n \in Nat : n = Len(q)
  BY <1>1
<1>3. PICK a : a = SubSeq(q, 1, i - 1)
  OBVIOUS
<1>4. PICK b : b = SubSeq(q, i + 1, n)
  OBVIOUS
<1>5. a \in Seq(S) /\ Len(a) = i - 1 /\ \A j \in 1 .. i - 1 : a[j] = q[j]
  <2>1. \A j \in 1 .. i - 1 : q[j] \in S
    BY <1>1, <1>2
  <2> QED
    BY <1>2, <1>3, <2>1, SubSeqProperties
<1>6. b \in Seq(S) /\ Len(b) = n - i /\ \A j \in 1 .. n - i : b[j] = q[i + j]
  <2>1. \A j \in i + 1 .. n : q[j] \in S
    BY <1>1, <1>2
  <2> QED
    BY <1>2, <1>4, <2>1, SubSeqProperties
<1>7. t = a \o b
  BY <1>2, <1>3, <1>4 DEF RemoveAt
<1>8. /\ t \in Seq(S) /\ Len(t) = Len(a) + Len(b)
      /\ \A j \in 1 .. Len(a) + Len(b) : t[j] = IF j <= Len(a) THEN a[j] ELSE b[j - Len(a)]
  <2>1. a \in Seq(S) /\ b \in Seq(S)
    BY <1>5, <1>6
  <2> QED
    BY <1>7, <2>1, ConcatProperties
<1>9. Len(t) = n - 1
  BY <1>2, <1>5, <1>6, <1>8
<1>10. ASSUME NEW j \in 1 .. n - 1 PROVE t[j] = IF j < i THEN q[j] ELSE q[j + 1]
  <2>1. t[j] = IF j <= i - 1 THEN a[j] ELSE b[j - (i - 1)]
    BY <1>2, <1>5, <1>6, <1>8
  <2>2. CASE j < i
    BY <1>5, <2>1, <2>2
  <2>3. CASE ~(j < i)
    <3>1. PICK k \in 1 .. n - i : k = j - (i - 1)
      BY <1>2, <2>3
    <3>2. t[j] = b[k] /\ b[k] = q[i + k] /\ i + k = j + 1
      BY <1>2, <1>6, <2>1, <2>3, <3>1
    <3> QED
      BY <2>3, <3>2
  <2> QED
    BY <2>2, <2>3
<1> QED
  BY <1>2, <1>8, <1>9, <1>10

\* A new entry in front of a list.
LEMMA Prepended ==
  ASSUME NEW S, NEW q \in Seq(S), NEW x \in S, NEW t, t = <<x>> \o q
  PROVE  /\ t \in Seq(S) /\ Len(t) = Len(q) + 1 /\ t[1] = x
         /\ \A j \in 1 .. Len(q) : t[j + 1] = q[j]
<1>1. <<x>> \in Seq(S) /\ Len(<<x>>) = 1 /\ <<x>>[1] = x
  OBVIOUS
<1>2. PICK n \in Nat : n = Len(q)
  OBVIOUS
<1>3. /\ t \in Seq(S) /\ Len(t) = 1 + n
      /\ \A i \in 1 .. 1 + n : t[i] = IF i <= 1 THEN <<x>>[i] ELSE q[i - 1]
  BY <1>1, <1>2, ConcatProperties
<1>4. t[1] = x
  BY <1>1, <1>2, <1>3
<1>5. ASSUME NEW j \in 1 .. n PROVE t[j + 1] = q[j]
  <2>1. j + 1 \in 1 .. 1 + n /\ ~(j + 1 <= 1) /\ j + 1 - 1 = j
    BY <1>2
  <2> QED
    BY <1>3, <2>1
<1> QED
  BY <1>2, <1>3, <1>4, <1>5

\* A list without its first entry.
LEMMA TailIs ==
  ASSUME NEW S, NEW q \in Seq(S), q # << >>, NEW t, t = Tail(q)
  PROVE  /\ t \in Seq(S) /\ Len(t) = Len(q) - 1 /\ 1 \in 1 .. Len(q) /\ Head(q) = q[1]
         /\ \A j \in 1 .. Len(q) - 1 : t[j] = q[j + 1]
BY HeadTailProperties, LenProperties

-----------------------------------------------------------------------------
(* The invariant *)

\* Types of the machine's parts.
Data == {0, 1, Prog}
States == {"UNUSED", "EMBRYO", "RUNNABLE", "EXITING", "ZOMBIE", "STUCK"}
PteRecs == {NoPte} \cup [page : Pages, w : BOOLEAN]
EntryRecs == [page : Pages, addr : 0 .. W - 1, length : Lengths, shared : BOOLEAN,
              file : BOOLEAN, mapping_process : Nat, loaded : Nat]
Lists == Seq(EntryRecs)
ProcRecs == [state : States, parent : Nat, image : {0} \cup Pages, mmaps : Lists,
             pte : [Virtual -> PteRecs], fd : BOOLEAN]
FileRecs == [ref : Int, off : Nat, size : 0 .. MAXFILE, page : [FilePages -> Data]]
Machines == [proc : [Procs -> ProcRecs], free : SUBSET Pages, data : [Pages -> Data],
             file : FileRecs, halted : BOOLEAN]

\* Process record r uses page g.
Has(r, g) == \/ r.image = g
             \/ \E v \in Virtual : r.pte[v].page = g
             \/ \E i \in 1 .. Len(r.mmaps) : r.mmaps[i].page = g

\* No page is used twice in record r.
PtesOnce(r) == \A v, w \in Virtual : r.pte[v].page = r.pte[w].page => r.pte[v].page = 0 \/ v = w
EntriesOnce(r) == \A i, j \in 1 .. Len(r.mmaps) : r.mmaps[i].page = r.mmaps[j].page => i = j
KindsApart(r) ==
  /\ \A v \in Virtual, i \in 1 .. Len(r.mmaps) : r.pte[v].page # r.mmaps[i].page
  /\ \A v \in Virtual : r.image # 0 => r.pte[v].page # r.image
  /\ \A i \in 1 .. Len(r.mmaps) : r.mmaps[i].page # r.image
Neat(r) == PtesOnce(r) /\ EntriesOnce(r) /\ KindsApart(r)

\* Page g is neither used nor free: kalloc has returned it.
Loose(s, g) == g \in Pages /\ g \notin s.free /\ \A q \in Procs : ~Has(s.proc[q], g)

\* No page is used twice, or used and free.
Apart(s) ==
  /\ \A q \in Procs : Neat(s.proc[q])
  /\ \A q \in Procs, g \in Pages : Has(s.proc[q], g) => g \notin s.free
  /\ \A q, o \in Procs, g \in Pages : Has(s.proc[q], g) /\ Has(s.proc[o], g) => q = o
Sound(s) == s \in Machines /\ Apart(s)

-----------------------------------------------------------------------------
(* Types *)

\* The sizes.
LEMMA Sizes ==
  /\ W \in Nat /\ SZ \in Nat /\ NPAGES \in Nat /\ MAXFILE \in Nat /\ MaxLength \in Nat
  /\ MaxLength >= 1 /\ MAXFILE >= 1 /\ NPAGES >= 2
  /\ Pages \subseteq Nat /\ Virtual \subseteq Nat /\ Procs \subseteq Nat
  /\ \A g \in Pages : g # 0
BY WMapAssumption DEF Pages, Virtual

\* The minimum of a set of naturals.
LEMMA MinIs ==
  ASSUME NEW T \in SUBSET Nat, T # {}
  PROVE  Min(T) \in T /\ \A x \in T : Min(T) <= x
BY Least DEF Min

\* An entry of a page table is empty, or has a page.
LEMMA PteIs ==
  ASSUME NEW x \in PteRecs
  PROVE  /\ x.page \in {0} \cup Pages /\ x.w \in BOOLEAN
         /\ x = NoPte <=> x.page = 0
         /\ x.w => x.page \in Pages
<1>1. CASE x = NoPte
  BY <1>1, Sizes DEF NoPte
<1>2. CASE x \in [page : Pages, w : BOOLEAN]
  BY <1>2, Sizes DEF NoPte
<1> QED
  BY <1>1, <1>2 DEF PteRecs

\* An empty page table.
LEMMA NoPtes ==
  Unused.pte \in [Virtual -> PteRecs] /\ \A v \in Virtual : Unused.pte[v] = NoPte
BY DEF Unused, PteRecs

LEMMA MachineIs ==
  ASSUME NEW s \in Machines
  PROVE  /\ s.proc \in [Procs -> ProcRecs] /\ s.free \in SUBSET Pages /\ s.data \in [Pages -> Data]
         /\ s.file \in FileRecs /\ s.halted \in BOOLEAN
BY DEF Machines

LEMMA ProcIs ==
  ASSUME NEW r \in ProcRecs
  PROVE  /\ r.state \in States /\ r.parent \in Nat /\ r.image \in {0} \cup Pages
         /\ r.mmaps \in Lists /\ r.mmaps \in Seq(EntryRecs)
         /\ r.pte \in [Virtual -> PteRecs] /\ r.fd \in BOOLEAN
         /\ Len(r.mmaps) \in Nat /\ \A i \in 1 .. Len(r.mmaps) : r.mmaps[i] \in EntryRecs
<1>1. /\ r.state \in States /\ r.parent \in Nat /\ r.image \in {0} \cup Pages
      /\ r.mmaps \in Lists /\ r.pte \in [Virtual -> PteRecs] /\ r.fd \in BOOLEAN
  BY DEF ProcRecs
<1> QED
  BY <1>1 DEF Lists

LEMMA EntryIs ==
  ASSUME NEW e \in EntryRecs
  PROVE  /\ e.page \in Pages /\ e.addr \in 0 .. W - 1 /\ e.length \in Lengths
         /\ e.shared \in BOOLEAN /\ e.file \in BOOLEAN /\ e.mapping_process \in Nat
         /\ e.loaded \in Nat /\ e.addr \in Nat /\ e.length \in Nat /\ e.length >= 1
         /\ \A k \in 0 .. e.length - 1 : e.addr + k \in Virtual
<1>1. /\ e.page \in Pages /\ e.addr \in 0 .. W - 1 /\ e.length \in Lengths
      /\ e.shared \in BOOLEAN /\ e.file \in BOOLEAN /\ e.mapping_process \in Nat
      /\ e.loaded \in Nat
  BY DEF EntryRecs
<1>2. e.addr \in Nat /\ e.length \in Nat /\ e.length >= 1 /\ e.length <= MaxLength /\ e.addr <= W - 1
  BY <1>1, Sizes DEF Lengths
<1>3. ASSUME NEW k \in 0 .. e.length - 1 PROVE e.addr + k \in Virtual
  BY <1>2, Sizes DEF Virtual
<1> QED
  BY <1>1, <1>2, <1>3

-----------------------------------------------------------------------------
(* The use of pages *)

\* Only record p changes, to one that uses what p used, or loose pages.
LEMMA Edited ==
  ASSUME NEW s, Sound(s), NEW t \in Machines, NEW p \in Procs, NEW r, t.proc[p] = r,
         \A q \in Procs \ {p} : t.proc[q] = s.proc[q], t.free = s.free, Neat(r),
         \A h \in Pages : Has(r, h) => Has(s.proc[p], h) \/ Loose(s, h)
  PROVE  /\ Sound(t)
         /\ \A h \in Pages : /\ h \notin s.free /\ ~Has(r, h)
                             /\ Has(s.proc[p], h) \/ Loose(s, h)
                             => Loose(t, h)
<1>1. /\ \A q \in Procs : Neat(s.proc[q])
      /\ \A q \in Procs, g \in Pages : Has(s.proc[q], g) => g \notin s.free
      /\ \A q, o \in Procs, g \in Pages : Has(s.proc[q], g) /\ Has(s.proc[o], g) => q = o
  BY DEF Sound, Apart
<1>2. \A q \in Procs : Neat(t.proc[q])
  BY <1>1
<1>3. \A h \in Pages : Has(r, h) => h \notin s.free
  BY <1>1 DEF Loose
<1>4. \A q \in Procs, g \in Pages : Has(t.proc[q], g) => g \notin t.free
  BY <1>1, <1>3
<1>5. \A q \in Procs \ {p}, g \in Pages : ~(Has(r, g) /\ Has(s.proc[q], g))
  BY <1>1 DEF Loose
<1>6. ASSUME NEW q \in Procs, NEW o \in Procs, NEW g \in Pages, Has(t.proc[q], g), Has(t.proc[o], g)
      PROVE  q = o
  <2>1. CASE q = p /\ o # p
    BY <1>5, <1>6, <2>1
  <2>2. CASE q # p /\ o = p
    BY <1>5, <1>6, <2>2
  <2>3. CASE q # p /\ o # p
    BY <1>1, <1>6, <2>3
  <2> QED
    BY <2>1, <2>2, <2>3
<1>7. Sound(t)
  BY <1>2, <1>4, <1>6 DEF Sound, Apart
<1>8. ASSUME NEW h \in Pages, h \notin s.free, ~Has(r, h), Has(s.proc[p], h) \/ Loose(s, h)
      PROVE  Loose(t, h)
  <2>1. ASSUME NEW q \in Procs PROVE ~Has(t.proc[q], h)
    <3>1. CASE q = p
      BY <1>8, <3>1
    <3>2. CASE q # p
      BY <1>1, <1>8, <3>2 DEF Loose
    <3> QED
      BY <3>1, <3>2
  <2> QED
    BY <1>8, <2>1 DEF Loose
<1> QED
  BY <1>7, <1>8

\* Records r and z with the same pages in the same places.
Alike(r, z) == /\ z.image = r.image
               /\ \A v \in Virtual : z.pte[v].page = r.pte[v].page
               /\ Len(z.mmaps) = Len(r.mmaps)
               /\ \A i \in 1 .. Len(r.mmaps) : z.mmaps[i].page = r.mmaps[i].page

LEMMA AlikeUse ==
  ASSUME NEW r, NEW z, Neat(r), Alike(r, z)
  PROVE  Neat(z) /\ \A g : Has(z, g) <=> Has(r, g)
<1>1. PtesOnce(z)
  BY DEF Neat, PtesOnce, Alike
<1>2. EntriesOnce(z)
  BY DEF Neat, EntriesOnce, Alike
<1>3. KindsApart(z)
  BY DEF Neat, KindsApart, Alike
<1> QED
  BY <1>1, <1>2, <1>3 DEF Neat, Has, Alike

\* Nothing that Sound is about changes.
LEMMA SameUse ==
  ASSUME NEW s, Sound(s), NEW t \in Machines, t.free = s.free,
         \A q \in Procs : /\ t.proc[q].image = s.proc[q].image /\ t.proc[q].pte = s.proc[q].pte
                          /\ t.proc[q].mmaps = s.proc[q].mmaps
  PROVE  Sound(t) /\ \A h : Loose(s, h) => Loose(t, h)
<1>1. \A q \in Procs : \A g : Has(t.proc[q], g) <=> Has(s.proc[q], g)
  BY DEF Has
<1>3. ASSUME NEW q \in Procs PROVE Neat(t.proc[q])
  <2>1. Neat(s.proc[q])
    BY DEF Sound, Apart
  <2>2. Alike(s.proc[q], t.proc[q])
    BY DEF Alike
  <2> QED
    BY <2>1, <2>2, AlikeUse
<1>4. /\ \A q \in Procs, g \in Pages : Has(t.proc[q], g) => g \notin t.free
      /\ \A q, o \in Procs, g \in Pages : Has(t.proc[q], g) /\ Has(t.proc[o], g) => q = o
  BY <1>1 DEF Sound, Apart
<1> QED
  BY <1>1, <1>3, <1>4 DEF Sound, Apart, Loose

\* kalloc returns a loose page.
LEMMA Alloc ==
  ASSUME NEW s, Sound(s), ~Full(s), NEW t, t = kalloc(s), NEW g, g = NewPage(s)
  PROVE  /\ Sound(t) /\ g \in s.free /\ Loose(t, g) /\ t.proc = s.proc /\ t.free = s.free \ {g}
         /\ t.data = s.data /\ t.file = s.file /\ t.halted = s.halted
<1>1. s \in Machines /\ s.free \in SUBSET Pages
  BY MachineIs DEF Sound
<1>2. g \in s.free
  <2>1. s.free \in SUBSET Nat /\ s.free # {}
    BY <1>1, Sizes DEF Full
  <2> QED
    BY <2>1, MinIs DEF NewPage
<1>3. PICK y \in SUBSET Pages : y = s.free \ {g}
  BY <1>1
<1>4. t = [s EXCEPT !.free = y]
  BY <1>3 DEF kalloc, NewPage
<1>5. t \in Machines /\ t.free = y /\ t.proc = s.proc /\ t.data = s.data /\ t.file = s.file
      /\ t.halted = s.halted
  BY <1>1, <1>4 DEF Machines
<1>6. Apart(t)
  BY <1>3, <1>5 DEF Apart, Sound
<1>7. Loose(t, g)
  BY <1>1, <1>2, <1>3, <1>5 DEF Apart, Sound, Loose
<1> QED
  BY <1>2, <1>3, <1>5, <1>6, <1>7 DEF Sound

\* kfree of a loose page.
LEMMA Release ==
  ASSUME NEW s, Sound(s), NEW g, Loose(s, g), NEW t, t = kfree(s, g)
  PROVE  /\ Sound(t) /\ t.proc = s.proc /\ t.free = s.free \cup {g}
         /\ \A h \in Pages \ {g} : t.data[h] = s.data[h]
         /\ t.file = s.file /\ t.halted = s.halted
<1>1. s \in Machines /\ s.free \in SUBSET Pages /\ g \in Pages /\ s.data \in [Pages -> Data]
  BY MachineIs DEF Sound, Loose
<1>2. PICK y \in SUBSET Pages : y = s.free \cup {g}
  BY <1>1
<1>3. PICK d \in [Pages -> Data] : d = [s.data EXCEPT ![g] = 0]
  BY <1>1 DEF Data
<1>4. t = [s EXCEPT !.free = y, !.data = d]
  BY <1>2, <1>3 DEF kfree
<1>5. t \in Machines /\ t.free = y /\ t.proc = s.proc /\ t.data = d /\ t.file = s.file
      /\ t.halted = s.halted
  BY <1>1, <1>4 DEF Machines
<1>6. Apart(t)
  BY <1>2, <1>5 DEF Apart, Sound, Loose
<1>7. \A h \in Pages \ {g} : d[h] = s.data[h]
  BY <1>1, <1>3
<1> QED
  BY <1>2, <1>5, <1>6, <1>7 DEF Sound

\* A page is put into a page table.
LEMMA PteAdded ==
  ASSUME NEW r \in ProcRecs, Neat(r), NEW g \in Pages, ~Has(r, g), NEW v \in Virtual,
         NEW z, z.image = r.image, z.pte[v].page = g,
         \A w \in Virtual \ {v} : z.pte[w].page = r.pte[w].page,
         Len(z.mmaps) = Len(r.mmaps),
         \A i \in 1 .. Len(r.mmaps) : z.mmaps[i].page = r.mmaps[i].page
  PROVE  Neat(z) /\ \A h : Has(z, h) => Has(r, h) \/ h = g
<1>1. PtesOnce(z)
  BY DEF Neat, PtesOnce, Has
<1>2. EntriesOnce(z)
  BY DEF Neat, EntriesOnce
<1>3. KindsApart(z)
  BY Sizes DEF Neat, KindsApart, Has
<1> QED
  BY <1>1, <1>2, <1>3 DEF Neat, Has

\* Pages are taken out of a page table.
LEMMA PtesCleared ==
  ASSUME NEW r \in ProcRecs, Neat(r), NEW z, z.image = r.image,
         \A w \in Virtual : z.pte[w].page \in {0, r.pte[w].page},
         Len(z.mmaps) = Len(r.mmaps),
         \A i \in 1 .. Len(r.mmaps) : z.mmaps[i].page = r.mmaps[i].page
  PROVE  /\ Neat(z) /\ \A h \in Pages : Has(z, h) => Has(r, h)
         /\ \A v \in Virtual : z.pte[v].page = 0 /\ r.pte[v].page # 0 => ~Has(z, r.pte[v].page)
<1>0. /\ \A w \in Virtual : r.pte[w] \in PteRecs
      /\ \A i \in 1 .. Len(r.mmaps) : r.mmaps[i].page \in Pages
  BY ProcIs, EntryIs
<1>1. PtesOnce(z)
  BY DEF Neat, PtesOnce
<1>2. EntriesOnce(z)
  BY DEF Neat, EntriesOnce
<1>3. KindsApart(z)
  BY <1>0, Sizes DEF Neat, KindsApart
<1>4. ASSUME NEW h \in Pages, Has(z, h) PROVE Has(r, h)
  BY <1>4, Sizes DEF Has
<1>5. ASSUME NEW v \in Virtual, z.pte[v].page = 0, r.pte[v].page # 0 PROVE ~Has(z, r.pte[v].page)
  BY <1>0, <1>5 DEF Has, Neat, KindsApart, PtesOnce
<1> QED
  BY <1>1, <1>2, <1>3, <1>4, <1>5 DEF Neat

\* An entry is put in front of a list.
LEMMA EntryAdded ==
  ASSUME NEW r \in ProcRecs, Neat(r), NEW e \in EntryRecs, ~Has(r, e.page),
         NEW z, z.image = r.image, \A w \in Virtual : z.pte[w].page = r.pte[w].page,
         z.mmaps = <<e>> \o r.mmaps
  PROVE  Neat(z) /\ \A h : Has(z, h) => Has(r, h) \/ h = e.page
<1>1. /\ Len(z.mmaps) = Len(r.mmaps) + 1 /\ z.mmaps[1] = e /\ Len(r.mmaps) \in Nat
      /\ \A j \in 1 .. Len(r.mmaps) : z.mmaps[j + 1] = r.mmaps[j]
  BY Prepended, ProcIs
<1>2. \A i \in 1 .. Len(z.mmaps) : i = 1 \/ (i - 1 \in 1 .. Len(r.mmaps) /\ z.mmaps[i] = r.mmaps[i - 1])
  <2> SUFFICES ASSUME NEW i \in 1 .. Len(z.mmaps), i # 1
               PROVE  i - 1 \in 1 .. Len(r.mmaps) /\ z.mmaps[i] = r.mmaps[i - 1]
    OBVIOUS
  <2>1. i - 1 \in 1 .. Len(r.mmaps) /\ i - 1 + 1 = i
    BY <1>1
  <2> QED
    BY <1>1, <2>1
<1>3. PtesOnce(z)
  BY DEF Neat, PtesOnce
<1>4. ASSUME NEW i \in 1 .. Len(z.mmaps), NEW j \in 1 .. Len(z.mmaps),
             z.mmaps[i].page = z.mmaps[j].page, i # j
      PROVE  FALSE
  <2>1. CASE i = 1 \/ j = 1
    BY <1>1, <1>2, <1>4, <2>1 DEF Has
  <2>2. CASE i # 1 /\ j # 1
    <3>0. PICK a \in 1 .. Len(r.mmaps), b \in 1 .. Len(r.mmaps) :
            a = i - 1 /\ b = j - 1 /\ z.mmaps[i] = r.mmaps[a] /\ z.mmaps[j] = r.mmaps[b]
      BY <1>2, <2>2
    <3>1. a = b
      BY <1>4, <3>0 DEF Neat, EntriesOnce
    <3> QED
      BY <1>1, <1>4, <3>0, <3>1
  <2> QED
    BY <2>1, <2>2
<1>5. KindsApart(z)
  BY <1>1, <1>2, EntryIs, Sizes DEF Neat, KindsApart, Has
<1>6. ASSUME NEW h, Has(z, h) PROVE Has(r, h) \/ h = e.page
  BY <1>1, <1>2, <1>6 DEF Has
<1> QED
  BY <1>3, <1>4, <1>5, <1>6 DEF Neat, EntriesOnce

\* An entry is taken off a list.
LEMMA EntryRemoved ==
  ASSUME NEW r \in ProcRecs, Neat(r), NEW i \in 1 .. Len(r.mmaps),
         NEW z, z.image = r.image, \A w \in Virtual : z.pte[w].page = r.pte[w].page,
         Len(z.mmaps) = Len(r.mmaps) - 1,
         \A j \in 1 .. Len(r.mmaps) - 1 : z.mmaps[j] = IF j < i THEN r.mmaps[j] ELSE r.mmaps[j + 1]
  PROVE  /\ Neat(z) /\ ~Has(z, r.mmaps[i].page)
         /\ \A h : Has(z, h) => Has(r, h)
<1>1. Len(r.mmaps) \in Nat /\ i \in Nat /\ r.mmaps[i].page \in Pages
  BY ProcIs, EntryIs
<1>2. ASSUME NEW j \in 1 .. Len(z.mmaps)
      PROVE  \E k \in 1 .. Len(r.mmaps) : k # i /\ z.mmaps[j] = r.mmaps[k]
  BY <1>1
<1>3. PtesOnce(z)
  BY DEF Neat, PtesOnce
<1>4. ASSUME NEW j \in 1 .. Len(z.mmaps), NEW k \in 1 .. Len(z.mmaps),
             z.mmaps[j].page = z.mmaps[k].page
      PROVE  j = k
  <2>1. PICK a \in 1 .. Len(r.mmaps) : z.mmaps[j] = r.mmaps[a] /\ a = IF j < i THEN j ELSE j + 1
    BY <1>1
  <2>2. PICK b \in 1 .. Len(r.mmaps) : z.mmaps[k] = r.mmaps[b] /\ b = IF k < i THEN k ELSE k + 1
    BY <1>1
  <2>3. a = b
    BY SMTT(60), <1>4, <2>1, <2>2 DEF Neat, EntriesOnce
  <2> QED
    BY <1>1, <2>1, <2>2, <2>3
<1>5. KindsApart(z)
  <2>1. KindsApart(r)
    BY DEF Neat
  <2>2. ASSUME NEW j \in 1 .. Len(z.mmaps)
        PROVE  z.mmaps[j].page # r.image /\ \A v \in Virtual : r.pte[v].page # z.mmaps[j].page
    <3>1. PICK k \in 1 .. Len(r.mmaps) : z.mmaps[j] = r.mmaps[k]
      BY <1>2
    <3> QED
      BY <2>1, <3>1 DEF KindsApart
  <2>3. \A v \in Virtual : r.image # 0 => r.pte[v].page # r.image
    BY <2>1 DEF KindsApart
  <2> QED
    BY <2>2, <2>3 DEF KindsApart
<1>6. ~Has(z, r.mmaps[i].page)
  <2>1. KindsApart(r) /\ EntriesOnce(r)
    BY DEF Neat
  <2>2. z.image # r.mmaps[i].page /\ \A v \in Virtual : z.pte[v].page # r.mmaps[i].page
    BY <2>1 DEF KindsApart
  <2>3. ASSUME NEW j \in 1 .. Len(z.mmaps) PROVE z.mmaps[j].page # r.mmaps[i].page
    <3>1. PICK k \in 1 .. Len(r.mmaps) : k # i /\ z.mmaps[j] = r.mmaps[k]
      BY <1>2
    <3> QED
      BY <2>1, <3>1 DEF EntriesOnce
  <2> QED
    BY <2>2, <2>3 DEF Has
<1>7. ASSUME NEW h, Has(z, h) PROVE Has(r, h)
  BY <1>2, <1>7 DEF Has
<1> QED
  BY <1>3, <1>4, <1>5, <1>6, <1>7 DEF Neat, EntriesOnce

\* A process gets another image, or none.
LEMMA ImageSet ==
  ASSUME NEW r \in ProcRecs, Neat(r), NEW g \in {0} \cup Pages, g # 0 => ~Has(r, g),
         NEW z, z.image = g, z.pte = r.pte, z.mmaps = r.mmaps
  PROVE  /\ Neat(z) /\ (r.image # 0 => ~Has(z, r.image))
         /\ \A h \in Pages : Has(z, h) => Has(r, h) \/ h = g
<1>1. PtesOnce(z)
  BY DEF Neat, PtesOnce
<1>2. EntriesOnce(z)
  BY DEF Neat, EntriesOnce
<1>3. /\ \A i \in 1 .. Len(r.mmaps) : r.mmaps[i].page \in Pages
  BY ProcIs, EntryIs
<1>4. KindsApart(z)
  BY <1>3, Sizes DEF Neat, KindsApart, Has
<1> QED
  BY <1>1, <1>2, <1>4 DEF Neat, Has, KindsApart

-----------------------------------------------------------------------------
(* Fields of a process *)

\* Only the record of p differs.
Others(s, t, p) == \A q \in Procs \ {p} : t.proc[q] = s.proc[q]
SameRest(s, t) == t.free = s.free /\ t.data = s.data /\ t.file = s.file /\ t.halted = s.halted

\* Records that differ in their mappings only.
Core(r, z) == z.state = r.state /\ z.parent = r.parent /\ z.image = r.image /\ z.fd = r.fd

\* Another value of a field.
WithState(s, p, x) == [s EXCEPT !.proc[p].state = x]
WithImage(s, p, x) == [s EXCEPT !.proc[p].image = x]
WithMmaps(s, p, x) == [s EXCEPT !.proc[p].mmaps = x]
WithPte(s, p, x) == [s EXCEPT !.proc[p].pte = x]

LEMMA StateSet ==
  ASSUME NEW s \in Machines, NEW p \in Procs, NEW x \in States, NEW t,
         t = WithState(s, p, x)
  PROVE  /\ t \in Machines /\ t.proc[p].state = x
         /\ t.proc[p].parent = s.proc[p].parent /\ t.proc[p].image = s.proc[p].image /\ t.proc[p].mmaps = s.proc[p].mmaps
         /\ t.proc[p].pte = s.proc[p].pte /\ t.proc[p].fd = s.proc[p].fd
         /\ Others(s, t, p) /\ SameRest(s, t)
<1>1. s.proc[p] \in ProcRecs
  BY MachineIs
<1>2. PICK r : r = [s.proc[p] EXCEPT !.state = x]
  OBVIOUS
<1>3. /\ r \in ProcRecs /\ r.state = x
      /\ r.parent = s.proc[p].parent /\ r.image = s.proc[p].image /\ r.mmaps = s.proc[p].mmaps /\ r.pte = s.proc[p].pte /\ r.fd = s.proc[p].fd
  BY <1>1, <1>2 DEF ProcRecs
<1>4. PICK y : y = [s.proc EXCEPT ![p] = r]
  OBVIOUS
<1>5. y \in [Procs -> ProcRecs] /\ y[p] = r /\ \A q \in Procs \ {p} : y[q] = s.proc[q]
  BY <1>3, <1>4, MachineIs
<1>6. t = [s EXCEPT !.proc = y]
  BY <1>2, <1>4 DEF WithState
<1>7. /\ t \in Machines /\ t.proc = y /\ t.free = s.free /\ t.data = s.data
      /\ t.file = s.file /\ t.halted = s.halted
  <2>1. y \in [Procs -> ProcRecs]
    BY <1>5
  <2> QED
    BY <1>6, <2>1 DEF Machines
<1> QED
  BY <1>3, <1>5, <1>7 DEF Others, SameRest

LEMMA ImageIs ==
  ASSUME NEW s \in Machines, NEW p \in Procs, NEW x \in {0} \cup Pages, NEW t,
         t = WithImage(s, p, x)
  PROVE  /\ t \in Machines /\ t.proc[p].image = x
         /\ t.proc[p].state = s.proc[p].state /\ t.proc[p].parent = s.proc[p].parent /\ t.proc[p].mmaps = s.proc[p].mmaps
         /\ t.proc[p].pte = s.proc[p].pte /\ t.proc[p].fd = s.proc[p].fd
         /\ Others(s, t, p) /\ SameRest(s, t)
<1>1. s.proc[p] \in ProcRecs
  BY MachineIs
<1>2. PICK r : r = [s.proc[p] EXCEPT !.image = x]
  OBVIOUS
<1>3. /\ r \in ProcRecs /\ r.image = x
      /\ r.state = s.proc[p].state /\ r.parent = s.proc[p].parent /\ r.mmaps = s.proc[p].mmaps /\ r.pte = s.proc[p].pte /\ r.fd = s.proc[p].fd
  BY <1>1, <1>2 DEF ProcRecs
<1>4. PICK y : y = [s.proc EXCEPT ![p] = r]
  OBVIOUS
<1>5. y \in [Procs -> ProcRecs] /\ y[p] = r /\ \A q \in Procs \ {p} : y[q] = s.proc[q]
  BY <1>3, <1>4, MachineIs
<1>6. t = [s EXCEPT !.proc = y]
  BY <1>2, <1>4 DEF WithImage
<1>7. /\ t \in Machines /\ t.proc = y /\ t.free = s.free /\ t.data = s.data
      /\ t.file = s.file /\ t.halted = s.halted
  <2>1. y \in [Procs -> ProcRecs]
    BY <1>5
  <2> QED
    BY <1>6, <2>1 DEF Machines
<1> QED
  BY <1>3, <1>5, <1>7 DEF Others, SameRest

LEMMA MmapsSet ==
  ASSUME NEW s \in Machines, NEW p \in Procs, NEW x \in Lists, NEW t,
         t = WithMmaps(s, p, x)
  PROVE  /\ t \in Machines /\ t.proc[p].mmaps = x
         /\ t.proc[p].state = s.proc[p].state /\ t.proc[p].parent = s.proc[p].parent /\ t.proc[p].image = s.proc[p].image
         /\ t.proc[p].pte = s.proc[p].pte /\ t.proc[p].fd = s.proc[p].fd
         /\ Others(s, t, p) /\ SameRest(s, t)
<1>1. s.proc[p] \in ProcRecs
  BY MachineIs
<1>2. PICK r : r = [s.proc[p] EXCEPT !.mmaps = x]
  OBVIOUS
<1>3. /\ r \in ProcRecs /\ r.mmaps = x
      /\ r.state = s.proc[p].state /\ r.parent = s.proc[p].parent /\ r.image = s.proc[p].image /\ r.pte = s.proc[p].pte /\ r.fd = s.proc[p].fd
  BY <1>1, <1>2 DEF ProcRecs
<1>4. PICK y : y = [s.proc EXCEPT ![p] = r]
  OBVIOUS
<1>5. y \in [Procs -> ProcRecs] /\ y[p] = r /\ \A q \in Procs \ {p} : y[q] = s.proc[q]
  BY <1>3, <1>4, MachineIs
<1>6. t = [s EXCEPT !.proc = y]
  BY <1>2, <1>4 DEF WithMmaps
<1>7. /\ t \in Machines /\ t.proc = y /\ t.free = s.free /\ t.data = s.data
      /\ t.file = s.file /\ t.halted = s.halted
  <2>1. y \in [Procs -> ProcRecs]
    BY <1>5
  <2> QED
    BY <1>6, <2>1 DEF Machines
<1> QED
  BY <1>3, <1>5, <1>7 DEF Others, SameRest

LEMMA PteSet ==
  ASSUME NEW s \in Machines, NEW p \in Procs, NEW x \in [Virtual -> PteRecs], NEW t,
         t = WithPte(s, p, x)
  PROVE  /\ t \in Machines /\ t.proc[p].pte = x
         /\ t.proc[p].state = s.proc[p].state /\ t.proc[p].parent = s.proc[p].parent /\ t.proc[p].image = s.proc[p].image
         /\ t.proc[p].mmaps = s.proc[p].mmaps /\ t.proc[p].fd = s.proc[p].fd
         /\ Others(s, t, p) /\ SameRest(s, t)
<1>1. s.proc[p] \in ProcRecs
  BY MachineIs
<1>2. PICK r : r = [s.proc[p] EXCEPT !.pte = x]
  OBVIOUS
<1>3. /\ r \in ProcRecs /\ r.pte = x
      /\ r.state = s.proc[p].state /\ r.parent = s.proc[p].parent /\ r.image = s.proc[p].image /\ r.mmaps = s.proc[p].mmaps /\ r.fd = s.proc[p].fd
  BY <1>1, <1>2 DEF ProcRecs
<1>4. PICK y : y = [s.proc EXCEPT ![p] = r]
  OBVIOUS
<1>5. y \in [Procs -> ProcRecs] /\ y[p] = r /\ \A q \in Procs \ {p} : y[q] = s.proc[q]
  BY <1>3, <1>4, MachineIs
<1>6. t = [s EXCEPT !.proc = y]
  BY <1>2, <1>4 DEF WithPte
<1>7. /\ t \in Machines /\ t.proc = y /\ t.free = s.free /\ t.data = s.data
      /\ t.file = s.file /\ t.halted = s.halted
  <2>1. y \in [Procs -> ProcRecs]
    BY <1>5
  <2> QED
    BY <1>6, <2>1 DEF Machines
<1> QED
  BY <1>3, <1>5, <1>7 DEF Others, SameRest

\* kill.
LEMMA Kill ==
  ASSUME NEW s, Sound(s), NEW p \in Procs, NEW t, t = kill(s, p)
  PROVE  /\ Sound(t) /\ t.proc[p].state = "EXITING" /\ t.proc[p].mmaps = s.proc[p].mmaps
         /\ t.proc[p].image = s.proc[p].image
         /\ t.proc[p].pte = s.proc[p].pte /\ t.proc[p].fd = s.proc[p].fd
         /\ Others(s, t, p) /\ SameRest(s, t)
<1>1. s \in Machines /\ "EXITING" \in States /\ t = WithState(s, p, "EXITING")
  BY DEF Sound, States, kill, WithState
<1>2. /\ t \in Machines /\ t.proc[p].state = "EXITING"
      /\ t.proc[p].parent = s.proc[p].parent /\ t.proc[p].image = s.proc[p].image /\ t.proc[p].mmaps = s.proc[p].mmaps
      /\ t.proc[p].pte = s.proc[p].pte /\ t.proc[p].fd = s.proc[p].fd
      /\ Others(s, t, p) /\ SameRest(s, t)
  BY <1>1, StateSet
<1>3. Sound(t)
  BY <1>2, SameUse DEF Others, SameRest
<1> QED
  BY <1>2, <1>3

-----------------------------------------------------------------------------
(* The file *)

\* Only the file differs, or the machine has halted.
SameMem(s, t) == t \in Machines /\ t.proc = s.proc /\ t.free = s.free /\ t.data = s.data

LEMMA MemSound ==
  ASSUME NEW s, Sound(s), NEW t, SameMem(s, t)
  PROVE  Sound(t) /\ \A g : Loose(s, g) => Loose(t, g)
BY SameUse DEF SameMem

LEMMA FileIs ==
  ASSUME NEW s \in Machines
  PROVE  /\ s.file.ref \in Int /\ s.file.off \in Nat /\ s.file.size \in 0 .. MAXFILE
         /\ s.file.page \in [FilePages -> Data] /\ s.file.size \in Nat
BY Sizes DEF Machines, FileRecs

\* panic.
LEMMA Panic ==
  ASSUME NEW s \in Machines, NEW t, t = panic(s)
  PROVE  SameMem(s, t) /\ t.file = s.file /\ t.halted
<1>1. t = [s EXCEPT !.halted = TRUE] /\ TRUE \in BOOLEAN
  BY DEF panic
<1> QED
  BY <1>1 DEF Machines, SameMem

\* Another file record.
LEMMA FileSet ==
  ASSUME NEW s \in Machines, NEW x \in FileRecs, NEW t, t = [s EXCEPT !.file = x]
  PROVE  SameMem(s, t) /\ t.file = x /\ t.halted = s.halted
BY DEF Machines, SameMem

LEMMA Dup ==
  ASSUME NEW s \in Machines, NEW t, t = filedup(s), ~t.halted
  PROVE  /\ SameMem(s, t) /\ t.halted = s.halted /\ t.file.ref = s.file.ref + 1
         /\ t.file.page = s.file.page /\ t.file.size = s.file.size
<1>1. s.file \in FileRecs /\ s.file.ref \in Int
  BY MachineIs, FileIs
<1>2. PICK n \in Int : n = s.file.ref + 1
  BY <1>1
<1>3. PICK x : x = [s.file EXCEPT !.ref = n]
  OBVIOUS
<1>4. x \in FileRecs /\ x.ref = n /\ x.page = s.file.page /\ x.size = s.file.size
  BY <1>1, <1>3 DEF FileRecs
<1>5. t = [s EXCEPT !.file = x]
  <2>1. ~(s.file.ref < 1)
    BY Panic DEF filedup
  <2> QED
    BY <1>2, <1>3, <2>1 DEF filedup
<1> QED
  BY <1>2, <1>4, <1>5, FileSet

LEMMA Close ==
  ASSUME NEW s \in Machines, NEW t, t = fileclose(s)
  PROVE  /\ SameMem(s, t) /\ t.file.page = s.file.page /\ t.file.size = s.file.size
         /\ \/ t.halted /\ t.file.ref = s.file.ref
            \/ t.halted = s.halted /\ s.file.ref >= 1 /\ t.file.ref = s.file.ref - 1
<1>1. s.file \in FileRecs /\ s.file.ref \in Int
  BY MachineIs, FileIs
<1>2. CASE s.file.ref < 1
  BY <1>2, Panic DEF fileclose
<1>3. CASE ~(s.file.ref < 1)
  <2>2. PICK n \in Int : n = s.file.ref - 1
    BY <1>1
  <2>3. PICK x : x = [s.file EXCEPT !.ref = n]
    OBVIOUS
  <2>4. x \in FileRecs /\ x.ref = n /\ x.page = s.file.page /\ x.size = s.file.size
    BY <1>1, <2>3 DEF FileRecs
  <2>5. t = [s EXCEPT !.file = x]
    BY <1>3, <2>2, <2>3 DEF fileclose
  <2>6. s.file.ref >= 1
    BY <1>1, <1>3
  <2> QED
    BY <2>2, <2>4, <2>5, <2>6, FileSet
<1> QED
  BY <1>2, <1>3

\* Another offset.
LEMMA Seek ==
  ASSUME NEW s \in Machines, NEW k \in Nat, NEW t, t = [s EXCEPT !.file.off = k]
  PROVE  /\ SameMem(s, t) /\ t.halted = s.halted /\ t.file.ref = s.file.ref /\ t.file.off = k
         /\ t.file.page = s.file.page /\ t.file.size = s.file.size
<1>1. s.file \in FileRecs
  BY MachineIs
<1>3. PICK x : x = [s.file EXCEPT !.off = k]
  OBVIOUS
<1>4. x \in FileRecs /\ x.ref = s.file.ref /\ x.page = s.file.page /\ x.size = s.file.size /\ x.off = k
  BY <1>1, <1>3 DEF FileRecs
<1>5. t = [s EXCEPT !.file = x]
  BY <1>3
<1>6. SameMem(s, t) /\ t.file = x /\ t.halted = s.halted
  <2>1. x \in FileRecs
    BY <1>4
  <2> QED
    BY ZenonT(90), <1>5, <2>1, FileSet
<1> QED
  BY <1>4, <1>6

\* filewrite: page k of the file becomes x, unless k is behind a gap or the file is full
\* or may not be written.
FileWrote(s, t, k, x) ==
  \/ t.halted
  \/ /\ t.halted = s.halted
     /\ \/ ~writable
        \/ k <= s.file.size /\ k < MAXFILE /\ t.file.page = [s.file.page EXCEPT ![k] = x]
           /\ t.file.size = IF k = s.file.size THEN k + 1 ELSE s.file.size
        \/ ~(k <= s.file.size /\ k < MAXFILE)
           /\ t.file.page = s.file.page /\ t.file.size = s.file.size

Wrote(s, t, k, x) == SameMem(s, t) /\ t.file.ref = s.file.ref /\ FileWrote(s, t, k, x)

LEMMA Written ==
  ASSUME NEW s \in Machines, NEW x \in Data, NEW t, t = filewrite(s, x)
  PROVE  Wrote(s, t, s.file.off, x)
<1>1. /\ s.file \in FileRecs /\ s.file.ref \in Int /\ s.file.off \in Nat /\ s.file.size \in 0 .. MAXFILE
      /\ s.file.page \in [FilePages -> Data] /\ s.file.size \in Nat /\ MAXFILE \in Nat
  BY MachineIs, FileIs, Sizes
<1>2. PICK k \in Nat : k = s.file.off
  BY <1>1
<1>0. CASE ~writable
  <2>1. t = s
    BY <1>0 DEF filewrite
  <2> QED
    BY <1>0, <2>1 DEF Wrote, FileWrote, SameMem
<1>3. CASE writable /\ s.file.ref < 1
  BY <1>3, Panic DEF filewrite, Wrote, FileWrote
<1>4. CASE writable /\ ~(s.file.ref < 1) /\ (k > s.file.size \/ k >= MAXFILE)
  <2>1. t = s
    BY <1>2, <1>4 DEF filewrite
  <2>2. ~(k <= s.file.size /\ k < MAXFILE)
    BY <1>1, <1>4
  <2> QED
    BY <1>2, <2>1, <2>2 DEF Wrote, FileWrote, SameMem
<1>5. CASE writable /\ ~(s.file.ref < 1) /\ ~(k > s.file.size \/ k >= MAXFILE)
  <2>1. k <= s.file.size /\ k < MAXFILE /\ k \in FilePages /\ k + 1 \in Nat
    BY <1>1, <1>5 DEF FilePages
  <2>2. PICK n \in 0 .. MAXFILE : n = IF k = s.file.size THEN k + 1 ELSE s.file.size
    BY <1>1, <2>1
  <2>3. PICK y \in [FilePages -> Data] : y = [s.file.page EXCEPT ![k] = x]
    BY <1>1
  <2>4. PICK z : z = [s.file EXCEPT !.page = y, !.off = k + 1, !.size = n]
    OBVIOUS
  <2>5. z \in FileRecs /\ z.ref = s.file.ref /\ z.page = y /\ z.size = n
    BY <1>1, <2>1, <2>4 DEF FileRecs
  <2>6. t = [s EXCEPT !.file = z]
    BY <1>2, <1>5, <2>2, <2>3, <2>4 DEF filewrite
  <2>7. SameMem(s, t) /\ t.file = z /\ t.halted = s.halted
    BY <2>5, <2>6, FileSet
  <2> QED
    BY <1>2, <2>1, <2>2, <2>3, <2>5, <2>7 DEF Wrote, FileWrote
<1> QED
  BY <1>0, <1>3, <1>4, <1>5, WMapAssumption

\* What is written through an entry; where it has no file, nothing.
LEMMA WroteBack ==
  ASSUME NEW s \in Machines, NEW e \in EntryRecs, NEW i \in Nat, NEW x \in Data,
         NEW lucky, NEW t, t = WriteBack(s, e, i, x, lucky)
  PROVE  /\ SameMem(s, t) /\ t.file.ref = s.file.ref /\ (s.halted => t.halted)
         /\ e.file => Wrote(s, t, i, x)
         /\ ~e.file => t.halted \/ t = s
<1>1. CASE e.file
  <2>1. PICK u : u = [s EXCEPT !.file.off = i]
    OBVIOUS
  <2>2. /\ SameMem(s, u) /\ u.halted = s.halted /\ u.file.ref = s.file.ref /\ u.file.off = i
        /\ u.file.page = s.file.page /\ u.file.size = s.file.size
    BY <2>1, Seek
  <2>3. t = filewrite(u, x) /\ u \in Machines
    BY <1>1, <2>1, <2>2 DEF WriteBack, SameMem
  <2>4. Wrote(u, t, u.file.off, x)
    BY <2>3, Written
  <2>5. Wrote(s, t, i, x)
    BY <2>2, <2>4 DEF Wrote, FileWrote, SameMem
  <2> QED
    BY <1>1, <2>5 DEF Wrote, FileWrote
<1>2. CASE ~e.file
  <2>1. t = s \/ t = panic(s)
    BY <1>2 DEF WriteBack
  <2> QED
    BY <1>2, <2>1, Panic DEF SameMem
<1> QED
  BY <1>1, <1>2

-----------------------------------------------------------------------------
(* Page tables *)

\* A page table that lacks pages of the one before.
LEMMA Cleared ==
  ASSUME NEW s, Sound(s), NEW p \in Procs, NEW y \in [Virtual -> PteRecs],
         \A v \in Virtual : y[v] = NoPte \/ y[v].page = s.proc[p].pte[v].page,
         NEW t, t = WithPte(s, p, y)
  PROVE  /\ Sound(t)
         /\ \A v \in Virtual : y[v] = NoPte /\ s.proc[p].pte[v] # NoPte
                               => Loose(t, s.proc[p].pte[v].page)
<1>0. s \in Machines /\ s.proc[p] \in ProcRecs /\ Neat(s.proc[p])
  BY MachineIs DEF Sound, Apart
<1>1. /\ t \in Machines /\ t.proc[p].pte = y
      /\ t.proc[p].state = s.proc[p].state /\ t.proc[p].parent = s.proc[p].parent
      /\ t.proc[p].image = s.proc[p].image /\ t.proc[p].mmaps = s.proc[p].mmaps
      /\ t.proc[p].fd = s.proc[p].fd
      /\ Others(s, t, p) /\ SameRest(s, t)
  BY <1>0, PteSet
<1>2. PICK r \in ProcRecs : r = s.proc[p]
  BY <1>0
<1>3. PICK z : z = t.proc[p]
  OBVIOUS
<1>4. /\ z.image = r.image /\ z.pte = y /\ z.mmaps = r.mmaps
      /\ \A w \in Virtual : z.pte[w].page \in {0, r.pte[w].page}
  <2>1. NoPte.page = 0
    BY DEF NoPte
  <2> QED
    BY <1>1, <1>2, <1>3, <2>1
<1>5. /\ Neat(z) /\ \A h \in Pages : Has(z, h) => Has(r, h)
      /\ \A v \in Virtual : z.pte[v].page = 0 /\ r.pte[v].page # 0 => ~Has(z, r.pte[v].page)
  BY <1>0, <1>2, <1>4, PtesCleared
<1>6. /\ Sound(t)
      /\ \A h \in Pages : /\ h \notin s.free /\ ~Has(z, h)
                          /\ Has(s.proc[p], h) \/ Loose(s, h)
                          => Loose(t, h)
  BY <1>1, <1>2, <1>3, <1>5, Edited DEF Others, SameRest
<1>7. ASSUME NEW v \in Virtual, y[v] = NoPte, s.proc[p].pte[v] # NoPte
      PROVE  Loose(t, s.proc[p].pte[v].page)
  <2>1. PICK h : h = r.pte[v].page
    OBVIOUS
  <2>2. h \in Pages /\ z.pte[v].page = 0 /\ h # 0
    BY <1>0, <1>2, <1>4, <1>7, <2>1, PteIs, ProcIs, Sizes
  <2>3. ~Has(z, h) /\ Has(s.proc[p], h)
    <3>1. ~Has(z, h)
      BY <1>5, <2>1, <2>2
    <3>2. Has(r, h)
      BY <2>1 DEF Has
    <3> QED
      BY <1>2, <3>1, <3>2
  <2>4. h \notin s.free
    BY <2>2, <2>3 DEF Sound, Apart
  <2> QED
    BY <1>2, <1>6, <2>1, <2>2, <2>3, <2>4
<1> QED
  BY <1>6, <1>7

\* DropPage.
LEMMA Dropped ==
  ASSUME NEW s, Sound(s), NEW p \in Procs, NEW v \in Virtual, s.proc[p].pte[v] # NoPte,
         NEW t, t = DropPage(s, p, v)
  PROVE  /\ Sound(t) /\ t.proc[p].pte = [s.proc[p].pte EXCEPT ![v] = NoPte]
         /\ Core(s.proc[p], t.proc[p]) /\ t.proc[p].mmaps = s.proc[p].mmaps
         /\ Others(s, t, p) /\ t.file = s.file /\ t.halted = s.halted
         /\ \A h \in Pages : h # s.proc[p].pte[v].page => t.data[h] = s.data[h]
<1>0. s \in Machines /\ s.proc[p] \in ProcRecs /\ s.proc[p].pte \in [Virtual -> PteRecs]
  BY MachineIs, ProcIs DEF Sound
<1>1. PICK g : g = s.proc[p].pte[v].page
  OBVIOUS
<1>2. g \in Pages
  BY <1>0, <1>1, PteIs
<1>3. PICK y : y = [s.proc[p].pte EXCEPT ![v] = NoPte]
  OBVIOUS
<1>4. y \in [Virtual -> PteRecs] /\ y[v] = NoPte /\ \A w \in Virtual : y[w] = NoPte \/ y[w] = s.proc[p].pte[w]
  BY <1>0, <1>3 DEF PteRecs
<1>5. PICK c : c = WithPte(s, p, y)
  OBVIOUS
<1>6. Sound(c) /\ Loose(c, g)
  <2>1. \A w \in Virtual : y[w] = NoPte \/ y[w].page = s.proc[p].pte[w].page
    BY <1>4
  <2>2. y \in [Virtual -> PteRecs]
    BY <1>4
  <2> QED
    BY <1>1, <1>4, <1>5, <2>1, <2>2, Cleared
<1>7. /\ c \in Machines /\ c.proc[p].pte = y
      /\ c.proc[p].state = s.proc[p].state /\ c.proc[p].parent = s.proc[p].parent
      /\ c.proc[p].image = s.proc[p].image /\ c.proc[p].mmaps = s.proc[p].mmaps
      /\ c.proc[p].fd = s.proc[p].fd
      /\ Others(s, c, p) /\ SameRest(s, c)
  <2>2. y \in [Virtual -> PteRecs]
    BY <1>4
  <2> QED
    BY <1>0, <1>5, <2>2, PteSet
<1>8. PICK u : u = kfree(c, g)
  OBVIOUS
<1>9. /\ Sound(u) /\ u.proc = c.proc /\ u.free = c.free \cup {g}
      /\ \A h \in Pages \ {g} : u.data[h] = c.data[h]
      /\ u.file = c.file /\ u.halted = c.halted
  BY <1>6, <1>8, Release
<1>10. t = u
  <2>1. PICK z : z = kfree(s, g)
    OBVIOUS
  <2>2. z = [s EXCEPT !.free = s.free \cup {g}, !.data = [s.data EXCEPT ![g] = 0]]
    BY <2>1 DEF kfree
  <2>3. t = [z EXCEPT !.proc[p].pte[v] = NoPte]
    BY <1>1, <2>1 DEF DropPage, ClearPte
  <2>4. z.proc = s.proc
    BY <1>0, <2>2 DEF Machines
  <2>5. t = [z EXCEPT !.proc[p].pte = y]
    BY <1>3, <2>3, <2>4
  <2>6. u = [c EXCEPT !.free = c.free \cup {g}, !.data = [c.data EXCEPT ![g] = 0]]
    BY <1>8 DEF kfree
  <2>7. u = [c EXCEPT !.free = s.free \cup {g}, !.data = [s.data EXCEPT ![g] = 0]]
    BY <1>7, <2>6 DEF SameRest
  <2> QED
    BY <1>0, <1>5, <2>2, <2>5, <2>7 DEF Machines, WithPte
<1> QED
  BY <1>1, <1>3, <1>7, <1>9, <1>10 DEF Others, SameRest, Core

\* Loose pages become free.
LEMMA AllReleased ==
  ASSUME NEW s, Sound(s), NEW G \in SUBSET Pages, \A g \in G : Loose(s, g),
         NEW t \in Machines, t.proc = s.proc, t.free = s.free \cup G
  PROVE  Sound(t) /\ \A h : Loose(s, h) /\ h \notin G => Loose(t, h)
<1>1. \A q \in Procs, g \in Pages : Has(t.proc[q], g) => g \notin t.free
  BY DEF Sound, Apart, Loose
<1>2. Apart(t)
  BY <1>1 DEF Sound, Apart
<1> QED
  BY <1>2 DEF Sound, Loose

\* deallocuvm.
LEMMA Dealloc ==
  ASSUME NEW s, Sound(s), NEW p \in Procs, NEW t, t = deallocuvm(s, p)
  PROVE  /\ Sound(t) /\ t.proc[p].pte = Unused.pte /\ t.proc[p].mmaps = s.proc[p].mmaps
         /\ Core(s.proc[p], t.proc[p]) /\ Others(s, t, p)
         /\ t.file = s.file /\ t.halted = s.halted
         /\ \A h : Loose(s, h) => Loose(t, h)
         /\ \A h \in Pages : t.data[h] = s.data[h] \/ \E v \in Virtual : s.proc[p].pte[v].page = h
<1>0. /\ s \in Machines /\ s.proc[p] \in ProcRecs /\ s.proc[p].pte \in [Virtual -> PteRecs]
      /\ s.free \in SUBSET Pages /\ s.data \in [Pages -> Data]
  BY MachineIs, ProcIs DEF Sound
<1>1. PICK y : y = Unused.pte
  OBVIOUS
<1>2. y \in [Virtual -> PteRecs] /\ \A v \in Virtual : y[v] = NoPte
  BY <1>1, NoPtes
<1>3. PICK c : c = WithPte(s, p, y)
  OBVIOUS
<1>4. Sound(c) /\ \A v \in Virtual : s.proc[p].pte[v] # NoPte => Loose(c, s.proc[p].pte[v].page)
  <2>1. \A w \in Virtual : y[w] = NoPte \/ y[w].page = s.proc[p].pte[w].page
    BY <1>2
  <2>2. y \in [Virtual -> PteRecs]
    BY <1>2
  <2> QED
    BY <1>2, <1>3, <2>1, <2>2, Cleared
<1>5. /\ c \in Machines /\ c.proc[p].pte = y
      /\ c.proc[p].state = s.proc[p].state /\ c.proc[p].parent = s.proc[p].parent
      /\ c.proc[p].image = s.proc[p].image /\ c.proc[p].mmaps = s.proc[p].mmaps
      /\ c.proc[p].fd = s.proc[p].fd
      /\ Others(s, c, p) /\ SameRest(s, c)
  <2>2. y \in [Virtual -> PteRecs]
    BY <1>2
  <2> QED
    BY <1>0, <1>3, <2>2, PteSet
<1>6. PICK G : G = {s.proc[p].pte[v].page : v \in Virtual} \ {0}
  OBVIOUS
<1>7. G \in SUBSET Pages
  BY <1>0, <1>6, PteIs
<1>8. \A g \in G : Loose(c, g)
  <2> SUFFICES ASSUME NEW v \in Virtual, s.proc[p].pte[v].page # 0
               PROVE  Loose(c, s.proc[p].pte[v].page)
    BY <1>6
  <2>1. s.proc[p].pte[v] # NoPte
    BY DEF NoPte
  <2> QED
    BY <1>4, <2>1
<1>9. PICK d \in [Pages -> Data] : d = [g \in Pages |-> IF g \in G THEN 0 ELSE s.data[g]]
  BY <1>0 DEF Data
<1>10. PICK f \in SUBSET Pages : f = s.free \cup G
  BY <1>0, <1>7
<1>11. t = [c EXCEPT !.free = f, !.data = d]
  <2>1. t = [s EXCEPT !.free = f, !.proc[p].pte = y, !.data = d]
    BY <1>1, <1>6, <1>9, <1>10 DEF deallocuvm
  <2> QED
    BY <1>0, <1>3, <2>1 DEF WithPte, Machines
<1>12. t \in Machines /\ t.proc = c.proc /\ t.free = f /\ t.data = d /\ t.file = c.file /\ t.halted = c.halted
  BY <1>5, <1>11 DEF Machines
<1>13. t.free = c.free \cup G /\ t \in Machines
  BY <1>5, <1>10, <1>12 DEF SameRest
<1>14. Sound(t) /\ \A h : Loose(c, h) /\ h \notin G => Loose(t, h)
  BY <1>4, <1>7, <1>8, <1>12, <1>13, AllReleased
<1>15. ASSUME NEW h, Loose(s, h) PROVE Loose(t, h)
  <2>1. h \in Pages /\ ~Has(s.proc[p], h) /\ h \notin s.free /\ \A q \in Procs : ~Has(s.proc[q], h)
    BY <1>15 DEF Loose
  <2>2. h \notin G
    BY <1>6, <2>1 DEF Has
  <2>3. ~Has(c.proc[p], h)
    BY <1>2, <1>5, <2>1, Sizes DEF Has, NoPte
  <2>4. Loose(c, h)
    BY <1>5, <2>1, <2>3 DEF Loose, Others, SameRest
  <2> QED
    BY <1>14, <2>2, <2>4
<1>16. \A h \in Pages : t.data[h] = s.data[h] \/ \E v \in Virtual : s.proc[p].pte[v].page = h
  BY <1>6, <1>9, <1>12
<1> QED
  BY <1>1, <1>5, <1>12, <1>14, <1>15, <1>16 DEF Core, Others, SameRest

-----------------------------------------------------------------------------
(* The page fault handler *)

\* Files with the same references and contents.
SameFile(s, t) == t.file.ref = s.file.ref /\ t.file.size = s.file.size /\ t.file.page = s.file.page

\* Lists that differ in the number of loaded pages of entry i.
Bumped(ms, ns, i) ==
  /\ Len(ns) = Len(ms)
  /\ \A j \in 1 .. Len(ms) : /\ ns[j].page = ms[j].page /\ ns[j].addr = ms[j].addr
                             /\ ns[j].length = ms[j].length /\ ns[j].shared = ms[j].shared
                             /\ ns[j].file = ms[j].file
                             /\ ns[j].mapping_process = ms[j].mapping_process
                             /\ ns[j].loaded = IF j = i THEN ms[j].loaded + 1 ELSE ms[j].loaded

\* The process is killed.
Killed(s, t, p) ==
  /\ Sound(t) /\ t.proc[p].state = "EXITING" /\ t.proc[p].mmaps = s.proc[p].mmaps
  /\ t.proc[p].image = s.proc[p].image /\ t.proc[p].pte = s.proc[p].pte
  /\ t.proc[p].fd = s.proc[p].fd /\ Others(s, t, p) /\ SameFile(s, t)
  /\ t.free = s.free /\ t.data = s.data /\ t.halted = s.halted

\* What the handler reads into page k of entry e.
Content(s, e, k, x) == IF e.file /\ k < s.file.size THEN x = s.file.page[k] ELSE x = 0

\* A page is loaded, for entry i.
Loaded(s, t, p, v, i) ==
  /\ Sound(t) /\ s.proc[p].pte[v] = NoPte
  /\ i \in 1 .. Len(s.proc[p].mmaps) /\ Covers(s.proc[p].mmaps[i], v)
  /\ s.proc[p].mmaps[i].file => v - s.proc[p].mmaps[i].addr <= s.file.size
  /\ Bumped(s.proc[p].mmaps, t.proc[p].mmaps, i)
  /\ t.proc[p].pte[v].w /\ \A w \in Virtual \ {v} : t.proc[p].pte[w] = s.proc[p].pte[w]
  /\ \A h \in Pages : h # t.proc[p].pte[v].page => t.data[h] = s.data[h]
  /\ Content(s, s.proc[p].mmaps[i], v - s.proc[p].mmaps[i].addr, t.data[t.proc[p].pte[v].page])
  /\ Core(s.proc[p], t.proc[p]) /\ Others(s, t, p) /\ SameFile(s, t) /\ t.halted = s.halted

\* The list after a page has been loaded.
LEMMA Counted ==
  ASSUME NEW ms \in Seq(EntryRecs), NEW i \in 1 .. Len(ms),
         NEW ns, ns = [ms EXCEPT ![i].loaded = @ + 1]
  PROVE  ns \in Seq(EntryRecs) /\ Bumped(ms, ns, i)
<1>1. /\ Len(ms) \in Nat /\ ms \in [1 .. Len(ms) -> EntryRecs]
      /\ \A j \in 1 .. Len(ms) : ms[j] \in EntryRecs /\ ms[j].loaded \in Nat
  BY LenProperties, EntryIs
<1>2. PICK l \in Nat : l = ms[i].loaded + 1
  BY <1>1
<1>3. PICK e : e = [ms[i] EXCEPT !.loaded = l]
  OBVIOUS
<1>4. /\ e \in EntryRecs /\ e.page = ms[i].page /\ e.addr = ms[i].addr /\ e.length = ms[i].length
      /\ e.shared = ms[i].shared /\ e.file = ms[i].file /\ e.loaded = l
      /\ e.mapping_process = ms[i].mapping_process
  <2>1. ms[i] \in EntryRecs
    BY <1>1
  <2> QED
    BY <1>3, <2>1 DEF EntryRecs
<1>5. ns = [ms EXCEPT ![i] = e]
  BY <1>2, <1>3
<1>6. /\ ns \in Seq(EntryRecs) /\ Len(ns) = Len(ms) /\ ns[i] = e
      /\ \A j \in 1 .. Len(ms) : j # i => ns[j] = ms[j]
  BY <1>4, <1>5, ExceptSeq
<1>7. ASSUME NEW j \in 1 .. Len(ms)
      PROVE  /\ ns[j].page = ms[j].page /\ ns[j].addr = ms[j].addr
             /\ ns[j].length = ms[j].length /\ ns[j].shared = ms[j].shared
             /\ ns[j].file = ms[j].file /\ ns[j].mapping_process = ms[j].mapping_process
             /\ ns[j].loaded = IF j = i THEN ms[j].loaded + 1 ELSE ms[j].loaded
  <2>1. CASE j = i
    BY <1>2, <1>4, <1>6, <2>1
  <2>2. CASE j # i
    BY <1>6, <2>2
  <2> QED
    BY <2>1, <2>2
<1> QED
  BY <1>6, <1>7 DEF Bumped

\* A process is killed after the file's offset has moved.
LEMMA KilledAfter ==
  ASSUME NEW s, Sound(s), NEW p \in Procs, NEW u, SameMem(s, u), SameFile(s, u), u.halted = s.halted,
         NEW t, t = kill(u, p)
  PROVE  Killed(s, t, p)
<1>1. Sound(u)
  BY MemSound
<1>2. /\ Sound(t) /\ t.proc[p].state = "EXITING" /\ t.proc[p].mmaps = u.proc[p].mmaps
      /\ t.proc[p].image = u.proc[p].image
      /\ t.proc[p].pte = u.proc[p].pte /\ t.proc[p].fd = u.proc[p].fd
      /\ Others(u, t, p) /\ SameRest(u, t)
  BY <1>1, Kill
<1> QED
  BY <1>2 DEF Killed, SameMem, SameFile, Others, SameRest

\* Page g, with contents x, is put into p's page table for entry i.
PutPage(c, p, v, i, g, x) ==
  [c EXCEPT !.data[g] = x, !.proc[p].pte[v] = [page |-> g, w |-> TRUE],
            !.proc[p].mmaps[i].loaded = @ + 1]

\* A page is loaded from machine u, which has the file's new offset.
LEMMA PageLoaded ==
  ASSUME NEW s, Sound(s), ~Full(s), NEW p \in Procs, NEW v \in Virtual, s.proc[p].pte[v] = NoPte,
         NEW i \in 1 .. Len(s.proc[p].mmaps), Covers(s.proc[p].mmaps[i], v),
         s.proc[p].mmaps[i].file => v - s.proc[p].mmaps[i].addr <= s.file.size,
         NEW u, SameMem(s, u), SameFile(s, u), u.halted = s.halted,
         NEW g, g = NewPage(s), NEW x \in Data,
         Content(s, s.proc[p].mmaps[i], v - s.proc[p].mmaps[i].addr, x),
         NEW t, t = PutPage(kalloc(u), p, v, i, g, x)
  PROVE  Loaded(s, t, p, v, i)
<1>1. Sound(u) /\ ~Full(u) /\ g = NewPage(u)
  BY MemSound DEF SameMem, Full, NewPage
<1>2. PICK c : c = kalloc(u)
  OBVIOUS
<1>3. /\ Sound(c) /\ Loose(c, g) /\ c.proc = u.proc /\ c.data = u.data /\ c.file = u.file
      /\ c.halted = u.halted
  BY <1>1, <1>2, Alloc
<1>4. /\ c \in Machines /\ g \in Pages /\ c.proc = s.proc /\ c.data = s.data
      /\ c.data \in [Pages -> Data] /\ c.proc \in [Procs -> ProcRecs] /\ c.proc[p] \in ProcRecs
      /\ c.file = u.file /\ c.halted = s.halted
  BY <1>3, MachineIs DEF Sound, Loose, SameMem
<1>5. /\ c.proc[p].mmaps \in Seq(EntryRecs) /\ c.proc[p].pte \in [Virtual -> PteRecs]
      /\ i \in 1 .. Len(c.proc[p].mmaps)
  BY <1>4, ProcIs
<1>6. PICK y : y = [c.proc[p].pte EXCEPT ![v] = [page |-> g, w |-> TRUE]]
  OBVIOUS
<1>7. /\ y \in [Virtual -> PteRecs] /\ y[v].page = g /\ y[v].w
      /\ \A w \in Virtual \ {v} : y[w] = c.proc[p].pte[w]
  <2>1. [page |-> g, w |-> TRUE] \in PteRecs
    BY <1>4 DEF PteRecs
  <2> QED
    BY <1>5, <1>6, <2>1
<1>8. PICK ns : ns = [c.proc[p].mmaps EXCEPT ![i].loaded = @ + 1]
  OBVIOUS
<1>9. ns \in Lists /\ Bumped(c.proc[p].mmaps, ns, i)
  BY <1>5, <1>8, Counted DEF Lists
<1>10. PICK d \in [Pages -> Data] : d = [c.data EXCEPT ![g] = x]
  BY <1>4
<1>11. PICK z : z = [c.proc[p] EXCEPT !.pte = y, !.mmaps = ns]
  OBVIOUS
<1>12. z \in ProcRecs /\ z.pte = y /\ z.mmaps = ns /\ Core(c.proc[p], z)
  BY <1>4, <1>7, <1>9, <1>11 DEF ProcRecs, Core
<1>13. PICK Y : Y = [c.proc EXCEPT ![p] = z]
  OBVIOUS
<1>14. Y \in [Procs -> ProcRecs] /\ Y[p] = z /\ \A q \in Procs \ {p} : Y[q] = c.proc[q]
  BY <1>4, <1>12, <1>13
<1>15. t = [c EXCEPT !.data = d, !.proc = Y]
  <2>1. PICK a : a = [c EXCEPT !.data = d]
    OBVIOUS
  <2>2. a.proc = c.proc /\ a \in Machines
    BY <1>4, <2>1 DEF Machines
  <2>3. PICK b : b = [a EXCEPT !.proc = [c.proc EXCEPT ![p] = [c.proc[p] EXCEPT !.pte = y]]]
    OBVIOUS
  <2>4. b = [c EXCEPT !.data[g] = x, !.proc[p].pte[v] = [page |-> g, w |-> TRUE]]
    BY <1>6, <1>10, <2>1, <2>2, <2>3
  <2>5. t = [b EXCEPT !.proc[p].mmaps[i].loaded = @ + 1]
    BY ZenonT(90), <1>2, <2>4 DEF PutPage
  <2>6. b.proc = [c.proc EXCEPT ![p] = [c.proc[p] EXCEPT !.pte = y]]
    BY <2>2, <2>3 DEF Machines
  <2>7. b.proc[p] = [c.proc[p] EXCEPT !.pte = y] /\ b.proc[p].mmaps = c.proc[p].mmaps
    BY <1>4, <2>6 DEF ProcRecs
  <2>8. t = [b EXCEPT !.proc = [b.proc EXCEPT ![p] = [b.proc[p] EXCEPT !.mmaps = ns]]]
    BY <1>8, <2>5, <2>7
  <2>9. [b.proc[p] EXCEPT !.mmaps = ns] = z
    BY <1>4, <1>11, <2>7 DEF ProcRecs
  <2>10. [b.proc EXCEPT ![p] = z] = Y
    BY <1>4, <1>13, <2>6
  <2>11. t = [b EXCEPT !.proc = Y]
    BY <2>8, <2>9, <2>10
  <2> QED
    BY <1>4, <2>1, <2>3, <2>11 DEF Machines
<1>16. /\ t \in Machines /\ t.proc = Y /\ t.data = d /\ t.free = c.free /\ t.file = c.file
       /\ t.halted = c.halted
  BY <1>4, <1>14, <1>15 DEF Machines
<1>17. Neat(z) /\ \A h : Has(z, h) => Has(c.proc[p], h) \/ h = g
  <2>1. PICK r \in ProcRecs : r = c.proc[p]
    BY <1>4
  <2>2. Neat(r) /\ ~Has(r, g) /\ g \in Pages
    BY <1>3, <2>1 DEF Sound, Apart, Loose
  <2>3. /\ z.image = r.image /\ z.pte[v].page = g
        /\ \A w \in Virtual \ {v} : z.pte[w].page = r.pte[w].page
        /\ Len(z.mmaps) = Len(r.mmaps)
        /\ \A j \in 1 .. Len(r.mmaps) : z.mmaps[j].page = r.mmaps[j].page
    BY <1>7, <1>9, <1>12, <2>1 DEF Core, Bumped
  <2>4. Neat(z) /\ \A h : Has(z, h) => Has(r, h) \/ h = g
    BY <2>2, <2>3, PteAdded
  <2> QED
    BY <2>1, <2>4
<1>18. Sound(t)
  <2>1. /\ t \in Machines /\ t.proc[p] = z /\ \A q \in Procs \ {p} : t.proc[q] = c.proc[q]
    BY <1>14, <1>16
  <2>2. \A h \in Pages : Has(z, h) => Has(c.proc[p], h) \/ Loose(c, h)
    BY <1>3, <1>17
  <2>3. t.free = c.free /\ Neat(z) /\ Sound(c)
    BY <1>3, <1>16, <1>17
  <2> QED
    BY <2>1, <2>2, <2>3, Edited
<1>24. t.proc[p].pte[v].page = g /\ t.data = d
  BY <1>7, <1>12, <1>14, <1>16
<1>19. \A h \in Pages : h # t.proc[p].pte[v].page => t.data[h] = s.data[h]
  BY <1>4, <1>10, <1>24
<1>20. t.data[t.proc[p].pte[v].page] = x
  BY <1>4, <1>10, <1>24
<1>21. Core(s.proc[p], t.proc[p]) /\ Others(s, t, p) /\ SameFile(s, t) /\ t.halted = s.halted
  BY <1>4, <1>12, <1>14, <1>16 DEF Others, SameFile
<1>22. Bumped(s.proc[p].mmaps, t.proc[p].mmaps, i)
  BY <1>4, <1>9, <1>12, <1>14, <1>16
<1>23. t.proc[p].pte[v].w /\ \A w \in Virtual \ {v} : t.proc[p].pte[w] = s.proc[p].pte[w]
  BY <1>4, <1>7, <1>12, <1>14, <1>16
<1> QED
  BY <1>18, <1>19, <1>20, <1>21, <1>22, <1>23 DEF Loaded

\* The handler, once it has found entry i.
FaultAt(s, p, v, i) ==
  LET e == s.proc[p].mmaps[i]
      k == v - e.addr
      r == IF e.file THEN fileread(s, k) ELSE s
      x == IF e.file /\ k < s.file.size THEN s.file.page[k] ELSE 0
  IN  IF e.file /\ readable /\ s.file.ref < 1 THEN panic(s)
      ELSE IF e.file /\ ReadFails(s, k) THEN kill([s EXCEPT !.file.off = k], p)
      ELSE IF v >= W \/ s.proc[p].pte[v] # NoPte THEN panic(s)
      ELSE PutPage(kalloc(r), p, v, i, NewPage(s), x)

\* The page fault handler kills, panics, or loads a page for the first entry that covers v.
LEMMA Faulted ==
  ASSUME NEW s, Sound(s), NEW p \in Procs, NEW v \in Virtual, NEW t, t = PageFault(s, p, v)
  PROVE  \/ Killed(s, t, p)
         \/ t.halted /\ SameMem(s, t) /\ t.file = s.file
         \/ \E i : Loaded(s, t, p, v, i)
<1>0. s \in Machines /\ s.proc[p] \in ProcRecs
  BY MachineIs DEF Sound
<1>1. /\ Len(s.proc[p].mmaps) \in Nat
      /\ \A j \in 1 .. Len(s.proc[p].mmaps) : s.proc[p].mmaps[j] \in EntryRecs
  BY <1>0, ProcIs
<1>2. SameMem(s, s) /\ SameFile(s, s)
  BY <1>0 DEF SameMem, SameFile
<1>3. CASE Entries(s, p, v) = {} \/ Full(s)
  <2>1. t = kill(s, p)
    BY <1>3 DEF PageFault
  <2> QED
    BY <1>2, <2>1, KilledAfter
<1>4. CASE ~(Entries(s, p, v) = {} \/ Full(s))
  <2>1. PICK i : i = Min(Entries(s, p, v))
    OBVIOUS
  <2>2. i \in 1 .. Len(s.proc[p].mmaps) /\ Covers(s.proc[p].mmaps[i], v)
    <3>1. Entries(s, p, v) \in SUBSET Nat /\ Entries(s, p, v) # {}
      BY <1>1, <1>4 DEF Entries
    <3>2. i \in Entries(s, p, v)
      BY <2>1, <3>1, MinIs
    <3> QED
      BY <3>2 DEF Entries
  <2>3. PICK e \in EntryRecs : e = s.proc[p].mmaps[i]
    BY <1>1, <2>2
  <2>4. e.addr \in Nat /\ v \in Nat /\ v >= e.addr /\ e.file \in BOOLEAN
    BY <2>2, <2>3, EntryIs, Sizes DEF Covers
  <2>5. PICK k \in Nat : k = v - e.addr
    BY <2>4
  <2>6. s.file.size \in Nat /\ s.file.size \in 0 .. MAXFILE /\ s.file.page \in [FilePages -> Data] /\ s.file.ref \in Int
    BY <1>0, FileIs
  <2>7. PICK g : g = NewPage(s)
    OBVIOUS
  <2>8. PICK r : r = IF e.file THEN fileread(s, k) ELSE s
    OBVIOUS
  <2>9. PICK x : x = IF e.file /\ k < s.file.size THEN s.file.page[k] ELSE 0
    OBVIOUS
  <2>10. t = IF e.file /\ readable /\ s.file.ref < 1 THEN panic(s)
             ELSE IF e.file /\ ReadFails(s, k) THEN kill([s EXCEPT !.file.off = k], p)
             ELSE IF v >= W \/ s.proc[p].pte[v] # NoPte THEN panic(s)
             ELSE PutPage(kalloc(r), p, v, i, g, x)
    <3>1. t = FaultAt(s, p, v, Min(Entries(s, p, v)))
      BY <1>4 DEF PageFault, FaultAt, PutPage
    <3>2. t = FaultAt(s, p, v, i)
      BY <2>1, <3>1
    <3> QED
      BY <2>3, <2>5, <2>7, <2>8, <2>9, <3>2 DEF FaultAt
  <2>11. CASE t = panic(s)
    BY <1>0, <2>11, Panic
  <2>12. CASE t = kill([s EXCEPT !.file.off = k], p)
    <3>1. PICK u : u = [s EXCEPT !.file.off = k]
      OBVIOUS
    <3>2. SameMem(s, u) /\ SameFile(s, u) /\ u.halted = s.halted
      BY <1>0, <3>1, Seek DEF SameFile
    <3>3. t = kill(u, p)
      BY <2>12, <3>1
    <3> QED
      BY <3>2, <3>3, KilledAfter
  <2>13. CASE /\ ~(e.file /\ ReadFails(s, k)) /\ s.proc[p].pte[v] = NoPte
              /\ t = PutPage(kalloc(r), p, v, i, g, x)
    <3>1. SameMem(s, r) /\ SameFile(s, r) /\ r.halted = s.halted
      <4>1. CASE ~e.file
        BY <1>2, <2>8, <4>1
      <4>2. CASE e.file
        <5>1. PICK o \in Nat : o = IF k < s.file.size THEN k + 1 ELSE k
          OBVIOUS
        <5>2. r = [s EXCEPT !.file.off = o]
          BY <2>8, <4>2, <5>1 DEF fileread
        <5> QED
          BY <1>0, <5>2, Seek DEF SameFile
      <4> QED
        BY <2>4, <4>1, <4>2
    <3>2. x \in Data
      <4>1. k < s.file.size => k \in FilePages
        BY <2>6, Sizes DEF FilePages
      <4> QED
        BY <2>6, <2>9, <4>1 DEF Data
    <3>3. Content(s, s.proc[p].mmaps[i], v - s.proc[p].mmaps[i].addr, x)
      BY <2>3, <2>5, <2>9 DEF Content
    <3>4. s.proc[p].mmaps[i].file => v - s.proc[p].mmaps[i].addr <= s.file.size
      BY <2>3, <2>5, <2>6, <2>13 DEF ReadFails
    <3>5. ~Full(s)
      BY <1>4
    <3>6. Loaded(s, t, p, v, i)
      BY <2>2, <2>7, <2>13, <3>1, <3>2, <3>3, <3>4, <3>5, PageLoaded
    <3> QED
      BY <3>6
  <2> QED
    BY <2>10, <2>11, <2>12, <2>13
<1> QED
  BY <1>3, <1>4

-----------------------------------------------------------------------------
(* wmap *)

\* An address that the search finds is free.
LEMMA FitIs ==
  ASSUME NEW ms, NEW length \in Lengths, NEW a, a = FirstFit(ms, length), a + length <= W
  PROVE  a \in 0 .. W - 1 /\ Free(ms, a, length)
<1>1. length \in Nat /\ length >= 1 /\ W \in Nat
  BY Sizes DEF Lengths
<1>2. PICK T : T = {b \in 0 .. W : Free(ms, b, length) \/ b + length > W}
  OBVIOUS
<1>3. T \in SUBSET Nat /\ T # {}
  <2>1. W \in T
    BY <1>1, <1>2
  <2> QED
    BY <1>2, <2>1
<1>4. a \in T
  BY <1>2, <1>3, MinIs DEF FirstFit
<1>5. a \in 0 .. W /\ (Free(ms, a, length) \/ a + length > W)
  BY <1>2, <1>4
<1> QED
  BY <1>1, <1>5

\* A page table made read-only from addr on.
Protected(pt, addr, length) ==
  [v \in Virtual |-> IF v \in addr .. addr + length - 1 THEN [pt[v] EXCEPT !.w = FALSE] ELSE pt[v]]

LEMMA ProtectedIs ==
  ASSUME NEW pt \in [Virtual -> PteRecs], NEW addr, NEW length, NEW y, y = Protected(pt, addr, length)
  PROVE  /\ y \in [Virtual -> PteRecs] /\ \A v \in Virtual : y[v].page = pt[v].page
         /\ \A v \in Virtual : v \notin addr .. addr + length - 1 => y[v] = pt[v]
<1>1. ASSUME NEW v \in Virtual
      PROVE  [pt[v] EXCEPT !.w = FALSE] \in PteRecs /\ [pt[v] EXCEPT !.w = FALSE].page = pt[v].page
  <2>1. CASE pt[v] = NoPte
    <3>2. PICK x \in [page : {0}, w : BOOLEAN] : x = NoPte
      BY DEF NoPte
    <3>3. PICK z : z = [x EXCEPT !.w = FALSE]
      OBVIOUS
    <3>4. z \in [page : {0}, w : BOOLEAN] /\ z.w = FALSE
      BY <3>3
    <3>5. z = [page |-> z.page, w |-> z.w] /\ z.page = 0
      BY <3>4
    <3>1. [pt[v] EXCEPT !.w = FALSE] = NoPte
      BY <2>1, <3>2, <3>3, <3>4, <3>5 DEF NoPte
    <3> QED
      BY <2>1, <3>1 DEF PteRecs
  <2>2. CASE pt[v] \in [page : Pages, w : BOOLEAN]
    BY <2>2 DEF PteRecs
  <2> QED
    BY <2>1, <2>2 DEF PteRecs
<1> QED
  BY <1>1 DEF Protected

\* Entry e is put in front of p's list; its pages, if there are any, become read-only.
NewMapping(s, t, p, e) ==
  /\ Sound(t) /\ e \in EntryRecs /\ e.mapping_process = p /\ e.loaded = 0
  /\ e.addr + e.length <= W /\ Free(s.proc[p].mmaps, e.addr, e.length)
  /\ t.proc[p].mmaps = <<e>> \o s.proc[p].mmaps
  /\ \A v \in Virtual : /\ t.proc[p].pte[v].page = s.proc[p].pte[v].page
                        /\ Covers(e, v) \/ t.proc[p].pte[v] = s.proc[p].pte[v]
  /\ Core(s.proc[p], t.proc[p]) /\ Others(s, t, p) /\ t.data = s.data /\ t.halted = s.halted
  /\ t.file.page = s.file.page /\ t.file.size = s.file.size
  /\ t.file.ref = IF e.file THEN s.file.ref + 1 ELSE s.file.ref

\* A list with a new first entry.
Pushed(e, ms) == <<e>> \o ms

\* A list with a new first entry, whose page is loose.
LEMMA ListGrown ==
  ASSUME NEW s, Sound(s), NEW p \in Procs, NEW e \in EntryRecs, Loose(s, e.page),
         NEW ns, ns = Pushed(e, s.proc[p].mmaps), NEW t, t = WithMmaps(s, p, ns)
  PROVE  /\ Sound(t) /\ t.proc[p].mmaps = ns /\ t.proc[p].pte = s.proc[p].pte
         /\ Core(s.proc[p], t.proc[p]) /\ Others(s, t, p) /\ SameRest(s, t)
<1>0. s \in Machines /\ s.proc[p] \in ProcRecs
  BY MachineIs DEF Sound
<1>1. PICK r \in ProcRecs : r = s.proc[p]
  BY <1>0
<1>2. r.mmaps \in Seq(EntryRecs)
  BY ProcIs
<1>3. ns \in Lists
  BY <1>1, <1>2, Prepended DEF Lists, Pushed
<1>4. /\ t \in Machines /\ t.proc[p].mmaps = ns
      /\ t.proc[p].state = s.proc[p].state /\ t.proc[p].parent = s.proc[p].parent
      /\ t.proc[p].image = s.proc[p].image /\ t.proc[p].pte = s.proc[p].pte
      /\ t.proc[p].fd = s.proc[p].fd
      /\ Others(s, t, p) /\ SameRest(s, t)
  BY <1>0, <1>3, MmapsSet
<1>5. PICK z : z = t.proc[p]
  OBVIOUS
<1>6. Neat(r) /\ ~Has(r, e.page)
  BY <1>1 DEF Sound, Apart, Loose
<1>7. z.image = r.image /\ (\A w \in Virtual : z.pte[w].page = r.pte[w].page) /\ z.mmaps = <<e>> \o r.mmaps
  BY <1>1, <1>4, <1>5 DEF Pushed
<1>8. Neat(z) /\ \A h : Has(z, h) => Has(r, h) \/ h = e.page
  BY <1>6, <1>7, EntryAdded
<1>9. Sound(t)
  <2>1. /\ t \in Machines /\ t.proc[p] = z /\ (\A q \in Procs \ {p} : t.proc[q] = s.proc[q])
        /\ t.free = s.free
    BY <1>4, <1>5 DEF Others, SameRest
  <2>2. \A h \in Pages : Has(z, h) => Has(s.proc[p], h) \/ Loose(s, h)
    BY <1>1, <1>8
  <2> QED
    BY <1>8, <2>1, <2>2, Edited
<1> QED
  BY <1>4, <1>9 DEF Core

\* wmap fails or makes a new mapping.
LEMMA Wmapped ==
  ASSUME NEW s, Sound(s), NEW p \in Procs, NEW fixed \in Fixed \cup {-1}, NEW length \in Lengths,
         fixed + length <= W, NEW kind \in Kinds, NEW t, t = sys_wmap(s, p, fixed, length, kind),
         ~t.halted
  PROVE  \/ t = s
         \/ \E e : /\ NewMapping(s, t, p, e) /\ e.file = kind.file /\ e.shared = kind.shared
                   /\ e.file => s.proc[p].fd
<1>0. s \in Machines /\ s.proc[p] \in ProcRecs /\ p \in Nat
  BY MachineIs, Sizes DEF Sound
<1>1. PICK ms : ms = s.proc[p].mmaps
  OBVIOUS
<1>2. PICK addr : addr = IF fixed = -1 THEN FirstFit(ms, length) ELSE fixed
  OBVIOUS
<1>3. PICK g : g = NewPage(s)
  OBVIOUS
<1>4. PICK e : e = [page |-> g, addr |-> addr, length |-> length, shared |-> kind.shared,
                    file |-> kind.file, mapping_process |-> p, loaded |-> 0]
  OBVIOUS
<1>5. PICK c : c = IF kind.file THEN filedup(s) ELSE s
  OBVIOUS
<1>6. PICK d : d = kalloc(c)
  OBVIOUS
<1>7. PICK u : u = [d EXCEPT !.proc[p].mmaps = <<e>> \o @]
  OBVIOUS
<1>8. CASE \/ kind.file /\ ~s.proc[p].fd
           \/ fixed = -1 /\ addr + length > W
           \/ fixed # -1 /\ ~Free(ms, addr, length)
           \/ Full(s)
  BY <1>1, <1>2, <1>5, <1>8 DEF sys_wmap
<1>9. CASE ~(\/ kind.file /\ ~s.proc[p].fd
             \/ fixed = -1 /\ addr + length > W
             \/ fixed # -1 /\ ~Free(ms, addr, length)
             \/ Full(s))
  <2>1. ~c.halted /\ t = IF kind.shared THEN u ELSE ReadOnly(u, p, addr, length)
    BY <1>1, <1>2, <1>3, <1>4, <1>5, <1>6, <1>7, <1>9 DEF sys_wmap
  <2>2. length \in Nat /\ length >= 1 /\ W \in Nat /\ kind.file \in BOOLEAN /\ kind.shared \in BOOLEAN
        /\ Fixed \subseteq 0 .. W - 1
    BY WMapAssumption, Sizes DEF Lengths
  <2>3. addr \in 0 .. W - 1 /\ Free(ms, addr, length) /\ addr + length <= W
    <3>1. CASE fixed = -1
      <4>1. addr = FirstFit(ms, length)
        BY <1>2, <3>1
      <4>2. FirstFit(ms, length) \in 0 .. W
        <5>1. PICK T : T = {b \in 0 .. W : Free(ms, b, length) \/ b + length > W}
          OBVIOUS
        <5>2. W \in T /\ T \in SUBSET Nat
          BY <2>2, <5>1
        <5>3. Min(T) \in T
          BY <5>2, MinIs
        <5> QED
          BY <5>1, <5>3 DEF FirstFit
      <4>3. addr + length <= W
        BY <1>9, <2>2, <3>1, <4>1, <4>2
      <4> QED
        BY <4>1, <4>3, FitIs
    <3>2. CASE fixed # -1
      <4>1. addr = fixed /\ fixed \in 0 .. W - 1
        BY <1>2, <2>2, <3>2
      <4> QED
        BY <1>9, <3>2, <4>1
    <3> QED
      BY <3>1, <3>2
  <2>4. /\ SameMem(s, c) /\ c.halted = s.halted
        /\ c.file.page = s.file.page /\ c.file.size = s.file.size
        /\ c.file.ref = IF kind.file THEN s.file.ref + 1 ELSE s.file.ref
    <3>1. CASE kind.file
      BY <1>0, <1>5, <2>1, <3>1, Dup
    <3>2. CASE ~kind.file
      BY <1>0, <1>5, <3>2 DEF SameMem
    <3> QED
      BY <3>1, <3>2
  <2>5. Sound(c) /\ ~Full(c) /\ g = NewPage(c) /\ c.proc = s.proc /\ c.data = s.data
    BY <1>3, <1>9, <2>4, MemSound DEF SameMem, Full, NewPage
  <2>6. /\ Sound(d) /\ Loose(d, g) /\ d.proc = s.proc /\ d.data = s.data /\ d.halted = s.halted
        /\ d.file.page = s.file.page /\ d.file.size = s.file.size
        /\ d.file.ref = IF kind.file THEN s.file.ref + 1 ELSE s.file.ref
    BY <1>6, <2>4, <2>5, Alloc
  <2>7. /\ e \in EntryRecs /\ e.page = g /\ e.mapping_process = p /\ e.loaded = 0
        /\ e.addr = addr /\ e.length = length /\ e.file = kind.file /\ e.shared = kind.shared
    <3>1. g \in Pages
      BY <2>6 DEF Loose
    <3> QED
      BY <1>0, <1>4, <2>2, <2>3, <3>1 DEF EntryRecs
  <2>8. PICK ns : ns = Pushed(e, d.proc[p].mmaps)
    OBVIOUS
  <2>9. u = WithMmaps(d, p, ns)
    BY <1>7, <2>8 DEF WithMmaps, Pushed
  <2>10. /\ Sound(u) /\ u.proc[p].mmaps = ns /\ u.proc[p].pte = d.proc[p].pte
         /\ Core(d.proc[p], u.proc[p]) /\ Others(d, u, p) /\ SameRest(d, u)
    <3>1. e \in EntryRecs /\ Loose(d, e.page)
      BY <2>6, <2>7
    <3>2. Sound(d)
      BY <2>6
    <3> QED
      BY <2>8, <2>9, <3>1, <3>2, ListGrown
  <2>11. CASE kind.shared
    <3>1. t = u
      BY <2>1, <2>11
    <3>2. NewMapping(s, t, p, e)
      BY <1>1, <2>3, <2>6, <2>7, <2>8, <2>10, <3>1
         DEF NewMapping, Others, SameRest, Core, Pushed
    <3> QED
      BY <1>9, <2>7, <3>2
  <2>12. CASE ~kind.shared
    <3>0. u \in Machines /\ u.proc[p] \in ProcRecs /\ u.proc[p].pte \in [Virtual -> PteRecs]
      BY <2>10, MachineIs, ProcIs DEF Sound
    <3>1. PICK y : y = Protected(u.proc[p].pte, addr, length)
      OBVIOUS
    <3>2. /\ y \in [Virtual -> PteRecs] /\ \A v \in Virtual : y[v].page = u.proc[p].pte[v].page
          /\ \A v \in Virtual : v \notin addr .. addr + length - 1 => y[v] = u.proc[p].pte[v]
      BY <3>0, <3>1, ProtectedIs
    <3>3. t = WithPte(u, p, y)
      BY <2>1, <2>12, <3>1 DEF ReadOnly, Protected, WithPte
    <3>4. Sound(t)
      <4>1. y \in [Virtual -> PteRecs] /\ \A v \in Virtual : y[v] = NoPte \/ y[v].page = u.proc[p].pte[v].page
        BY <3>2
      <4> QED
        BY <2>10, <3>3, <4>1, Cleared
    <3>5. /\ t.proc[p].pte = y
          /\ t.proc[p].state = u.proc[p].state /\ t.proc[p].parent = u.proc[p].parent
          /\ t.proc[p].image = u.proc[p].image /\ t.proc[p].mmaps = u.proc[p].mmaps
          /\ t.proc[p].fd = u.proc[p].fd
          /\ Others(u, t, p) /\ SameRest(u, t)
      BY <3>0, <3>2, <3>3, PteSet
    <3>6. ASSUME NEW v \in Virtual
          PROVE  /\ t.proc[p].pte[v].page = s.proc[p].pte[v].page
                 /\ Covers(e, v) \/ t.proc[p].pte[v] = s.proc[p].pte[v]
      <4>1. t.proc[p].pte[v].page = s.proc[p].pte[v].page
        BY <2>6, <2>10, <3>2, <3>5
      <4>2. v \in addr .. addr + length - 1 => Covers(e, v)
        BY <2>2, <2>3, <2>7 DEF Covers
      <4> QED
        BY <2>6, <2>10, <3>2, <3>5, <4>1, <4>2
    <3>7. NewMapping(s, t, p, e)
      <4>1. e \in EntryRecs /\ e.mapping_process = p /\ e.loaded = 0
        BY Zenon, <2>7
      <4>2. e.addr + e.length <= W /\ Free(s.proc[p].mmaps, e.addr, e.length)
        BY <1>1, <2>3, <2>7
      <4>3. t.proc[p].mmaps = <<e>> \o s.proc[p].mmaps
        BY Zenon, <2>6, <2>8, <2>10, <3>5 DEF Pushed
      <4>4. Core(s.proc[p], t.proc[p])
        BY Zenon, <2>6, <2>10, <3>5 DEF Core
      <4>5. Others(s, t, p)
        BY Zenon, <2>6, <2>10, <3>5 DEF Others
      <4>6. t.data = s.data /\ t.halted = s.halted /\ t.file = d.file
        BY Zenon, <2>5, <2>6, <2>10, <3>5 DEF SameRest
      <4>7. /\ t.file.page = s.file.page /\ t.file.size = s.file.size
            /\ t.file.ref = IF e.file THEN s.file.ref + 1 ELSE s.file.ref
        BY <2>6, <2>7, <4>6
      <4> QED
        BY Zenon, <3>4, <3>6, <4>1, <4>2, <4>3, <4>4, <4>5, <4>6, <4>7 DEF NewMapping
    <3> QED
      BY <1>9, <2>7, <3>7
  <2> QED
    BY <2>11, <2>12
<1> QED
  BY <1>8, <1>9

-----------------------------------------------------------------------------
(* wunmap *)

SoundMachines == {a \in Machines : Apart(a)}

LEMMA SoundSet == ASSUME NEW a PROVE Sound(a) <=> a \in SoundMachines
BY DEF Sound, SoundMachines

\* The page at v of process p is dropped.
Dropping(a, b, p, v) ==
  /\ Sound(b) /\ b.file.ref = a.file.ref /\ (a.halted => b.halted)
  /\ Core(a.proc[p], b.proc[p]) /\ b.proc[p].mmaps = a.proc[p].mmaps /\ Others(a, b, p)
  /\ b.proc[p].pte[v] = NoPte
  /\ \A w \in Virtual \ {v} : b.proc[p].pte[w] = a.proc[p].pte[w]
  /\ \A h \in Pages : h # a.proc[p].pte[v].page => b.data[h] = a.data[h]

\* All pages from lo on, n of them, are dropped.
Emptied(s, t, p, lo, n) ==
  /\ Sound(t) /\ t.file.ref = s.file.ref /\ (s.halted => t.halted)
  /\ Core(s.proc[p], t.proc[p]) /\ t.proc[p].mmaps = s.proc[p].mmaps /\ Others(s, t, p)
  /\ \A v \in Virtual : t.proc[p].pte[v] = IF v >= lo /\ v < lo + n THEN NoPte ELSE s.proc[p].pte[v]
  /\ \A h \in Pages : \/ t.data[h] = s.data[h]
                      \/ \E v \in Virtual : v >= lo /\ v < lo + n /\ s.proc[p].pte[v].page = h

\* A round of the loops of wunmap and exit.
LEMMA DropRound ==
  ASSUME NEW a, Sound(a), NEW p \in Procs, NEW v \in Virtual, NEW c, SameMem(a, c),
         c.file.ref = a.file.ref, a.halted => c.halted,
         NEW b, b = IF a.proc[p].pte[v] = NoPte THEN a ELSE DropPage(c, p, v)
  PROVE  /\ Dropping(a, b, p, v)
         /\ IF a.proc[p].pte[v] = NoPte THEN b = a ELSE b.file = c.file /\ b.halted = c.halted
<1>0. a \in Machines /\ a.proc[p] \in ProcRecs
  BY MachineIs DEF Sound
<1>1. CASE a.proc[p].pte[v] = NoPte
  BY <1>1 DEF Dropping, Core, Others
<1>2. CASE a.proc[p].pte[v] # NoPte
  <2>1. Sound(c) /\ c.proc = a.proc /\ c.data = a.data
    BY MemSound DEF SameMem
  <2>2. b = DropPage(c, p, v) /\ c.proc[p].pte[v] # NoPte
    BY <1>2, <2>1
  <2>3. /\ Sound(b) /\ b.proc[p].pte = [c.proc[p].pte EXCEPT ![v] = NoPte]
        /\ Core(c.proc[p], b.proc[p]) /\ b.proc[p].mmaps = c.proc[p].mmaps
        /\ Others(c, b, p) /\ b.file = c.file /\ b.halted = c.halted
        /\ \A h \in Pages : h # c.proc[p].pte[v].page => b.data[h] = c.data[h]
    BY SMTT(60), <2>1, <2>2, Dropped
  <2>4. b.proc[p].pte[v] = NoPte /\ \A w \in Virtual \ {v} : b.proc[p].pte[w] = a.proc[p].pte[w]
    BY <1>0, <2>1, <2>3, ProcIs
  <2>5. Dropping(a, b, p, v)
    <3>1. Core(a.proc[p], b.proc[p]) /\ b.proc[p].mmaps = a.proc[p].mmaps
      BY Zenon, <2>1, <2>3
    <3>2. Others(a, b, p)
      BY Zenon, <2>1, <2>3 DEF Others
    <3>3. \A h \in Pages : h # a.proc[p].pte[v].page => b.data[h] = a.data[h]
      BY Zenon, <2>1, <2>3
    <3>4. b.file.ref = a.file.ref /\ (a.halted => b.halted)
      BY Zenon, <2>3
    <3> QED
      BY Zenon, <2>3, <2>4, <3>1, <3>2, <3>3, <3>4 DEF Dropping
  <2> QED
    BY <1>2, <2>3, <2>5
<1> QED
  BY <1>1, <1>2

\* The rounds together.
LEMMA DropCourse ==
  ASSUME NEW p \in Procs, NEW n \in Nat, NEW lo \in Nat, NEW G, Sound(G[0]),
         \A k \in 0 .. n - 1 : lo + k \in Virtual /\ Dropping(G[k], G[k + 1], p, lo + k)
  PROVE  \A k \in 0 .. n : Emptied(G[0], G[k], p, lo, k)
<1>1. PICK H : H = {k \in 0 .. n : Emptied(G[0], G[k], p, lo, k)}
  OBVIOUS
<1>2. 0 \in H
  <2>1. \A v \in Virtual : ~(v >= lo /\ v < lo + 0)
    BY Sizes
  <2>2. Emptied(G[0], G[0], p, lo, 0)
    BY <2>1 DEF Emptied, Core, Others
  <2> QED
    BY <1>1, <2>2
<1>3. ASSUME NEW k \in 0 .. n - 1, k \in H PROVE k + 1 \in H
  <2>1. Emptied(G[0], G[k], p, lo, k) /\ Dropping(G[k], G[k + 1], p, lo + k) /\ lo + k \in Virtual
    BY <1>1, <1>3
  <2>2. PICK s : s = G[0]
    OBVIOUS
  <2>3. PICK a : a = G[k]
    OBVIOUS
  <2>4. PICK b : b = G[k + 1]
    OBVIOUS
  <2>5. PICK u \in Virtual : u = lo + k
    BY <2>1
  <2>6. Emptied(s, a, p, lo, k) /\ Dropping(a, b, p, u)
    BY <2>1, <2>2, <2>3, <2>4, <2>5
  <2>7. \A v \in Virtual : v >= lo /\ v < lo + (k + 1) <=> (v >= lo /\ v < lo + k) \/ v = u
    BY <2>5, Sizes
  <2>8. /\ Sound(b) /\ b.file.ref = s.file.ref /\ (s.halted => b.halted)
        /\ Core(s.proc[p], b.proc[p]) /\ b.proc[p].mmaps = s.proc[p].mmaps /\ Others(s, b, p)
    BY <2>6 DEF Emptied, Dropping, Core, Others
  <2>9. ASSUME NEW v \in Virtual
        PROVE  b.proc[p].pte[v] = IF v >= lo /\ v < lo + (k + 1) THEN NoPte ELSE s.proc[p].pte[v]
    <3>1. CASE v = u
      BY <2>6, <2>7, <3>1 DEF Dropping
    <3>2. CASE v # u
      BY <2>6, <2>7, <3>2 DEF Dropping, Emptied
    <3> QED
      BY <3>1, <3>2
  <2>10. ASSUME NEW h \in Pages
         PROVE  \/ b.data[h] = s.data[h]
                \/ \E v \in Virtual : v >= lo /\ v < lo + (k + 1) /\ s.proc[p].pte[v].page = h
    <3>1. CASE h # a.proc[p].pte[u].page
      BY <2>6, <2>7, <3>1 DEF Dropping, Emptied
    <3>2. CASE h = a.proc[p].pte[u].page
      <4>1. h = s.proc[p].pte[u].page
        BY <2>6, <3>2, Sizes DEF Emptied, NoPte
      <4> QED
        BY <2>7, <4>1
    <3> QED
      BY <3>1, <3>2
  <2>11. Emptied(s, b, p, lo, k + 1)
    BY <2>8, <2>9, <2>10 DEF Emptied
  <2> QED
    BY <1>1, <2>2, <2>4, <2>11
<1>4. \A k \in 0 .. n : k \in H
  BY <1>2, <1>3, Induction
<1> QED
  BY <1>1, <1>4

\* A round of wunmap's loop.
UnmapRound(a, p, e, k, lucky) ==
  LET x == a.proc[p].pte[e.addr + k] IN
  IF x = NoPte THEN a
  ELSE DropPage(IF x.w THEN WriteBack(a, e, k, a.data[x.page], lucky) ELSE a, p, e.addr + k)

\* The rounds of wunmap's loop stay in S.
UnmapLoops(s, p, e, lucky, n, S, start) ==
  /\ n \in Nat /\ n = e.length /\ start \in S /\ start = s
  /\ \A a \in S, k \in 0 .. n - 1 : UnmapRound(a, p, e, k, lucky) \in S

UnmapLoopRun(G, s, p, e, lucky, n, S, start) ==
  /\ G \in [0 .. n -> S] /\ G[0] = start
  /\ \A k \in 0 .. n - 1 : G[k + 1] = UnmapRound(G[k], p, e, k, lucky)
  /\ UnmapShared(s, p, e, lucky) = G[n]

\* Then the loop runs through S.
LEMMA UnmapLoop ==
  ASSUME NEW s, NEW p, NEW e, NEW lucky, NEW n, NEW S, NEW start, UnmapLoops(s, p, e, lucky, n, S, start)
  PROVE  \E G : UnmapLoopRun(G, s, p, e, lucky, n, S, start)
<1> DEFINE Round(a, k) == UnmapRound(a, p, e, k, lucky)
<1>0. n \in Nat /\ start \in S /\ n = e.length /\ start = s
  BY DEF UnmapLoops
<1>1. \A a \in S, k \in 0 .. n - 1 : Round(a, k) \in S
  BY DEF UnmapLoops
<1>2. UnmapShared(s, p, e, lucky)
        = (CHOOSE H : H = [k \in 0 .. n |-> IF k = 0 THEN start ELSE Round(H[k - 1], k - 1)])[n]
  BY <1>0 DEF UnmapShared, Loop, UnmapRound
<1> SUFFICES \E G : /\ G \in [0 .. n -> S] /\ G[0] = start
                    /\ \A k \in 0 .. n - 1 : G[k + 1] = Round(G[k], k)
                    /\ UnmapShared(s, p, e, lucky) = G[n]
  BY DEF UnmapLoopRun
<1> HIDE DEF Round
<1>3. PICK R : R = [x \in S \X (0 .. n - 1) |-> Round(x[1], x[2])]
  OBVIOUS
<1>4. R \in [S \X (0 .. n - 1) -> S]
  BY <1>1, <1>3
<1>5. PICK G : Course(G, n, S, start, R)
  BY <1>0, <1>4, Iterate
<1>6. G \in [0 .. n -> S] /\ G[0] = start
  BY <1>5 DEF Course
<1>7. ASSUME NEW k \in 0 .. n - 1 PROVE G[k + 1] = Round(G[k], k)
  <2>1. G[k + 1] = R[<<G[k], k>>] /\ <<G[k], k>> \in S \X (0 .. n - 1)
    BY <1>0, <1>5 DEF Course
  <2> QED
    BY <1>3, <2>1
<1>8. ASSUME NEW k \in 0 .. n, k # 0 PROVE G[k] = Round(G[k - 1], k - 1)
  <2>1. k - 1 \in 0 .. n - 1 /\ k - 1 + 1 = k
    BY <1>0, <1>8
  <2> QED
    BY <1>7, <2>1
<1>9. G = [k \in 0 .. n |-> IF k = 0 THEN start ELSE Round(G[k - 1], k - 1)]
  BY <1>0, <1>6, <1>8
<1>10. PICK F : F = CHOOSE H : H = [k \in 0 .. n |-> IF k = 0 THEN start ELSE Round(H[k - 1], k - 1)]
  OBVIOUS
<1>11. F = [k \in 0 .. n |-> IF k = 0 THEN start ELSE Round(F[k - 1], k - 1)]
  BY <1>9, <1>10
<1>12. F[0] = start /\ \A k \in 0 .. n - 1 : F[k + 1] = Round(F[k], k)
  <2>1. F[0] = start
    BY <1>0, <1>11
  <2>2. ASSUME NEW k \in 0 .. n - 1 PROVE F[k + 1] = Round(F[k], k)
    <3>1. k + 1 \in 0 .. n /\ k + 1 # 0 /\ k + 1 - 1 = k
      BY <1>0
    <3>2. F[k + 1] = Round(F[k + 1 - 1], k + 1 - 1)
      BY <1>0, <1>11, <3>1
    <3> QED
      BY <3>1, <3>2
  <2> QED
    BY <2>1, <2>2
<1>13. PICK E : E = {k \in 0 .. n : F[k] = G[k]}
  OBVIOUS
<1>14. 0 \in E
  BY <1>0, <1>6, <1>12, <1>13
<1>15. ASSUME NEW k \in 0 .. n - 1, k \in E PROVE k + 1 \in E
  <2>1. F[k] = G[k] /\ k + 1 \in 0 .. n
    BY <1>0, <1>13, <1>15
  <2>2. F[k + 1] = G[k + 1]
    BY <1>7, <1>12, <2>1
  <2> QED
    BY <1>13, <2>1, <2>2
<1>16. n \in E
  <2>1. \A k \in 0 .. n : k \in E
    BY <1>0, <1>14, <1>15, Induction
  <2> QED
    BY <1>0, <2>1
<1>17. UnmapShared(s, p, e, lucky) = G[n]
  BY <1>2, <1>10, <1>13, <1>16
<1> QED
  BY <1>6, <1>7, <1>17

\* Every page of p can be written.
Writable(s, p) == writable /\ \A v \in Virtual : s.proc[p].pte[v] # NoPte => s.proc[p].pte[v].w

\* Page k of the file is l[k] or, where entry e of p has a page for it, that page is.
PageSynced(s, p, e, l, k) ==
  IF k < e.length /\ s.proc[p].pte[e.addr + k] # NoPte
  THEN s.data[s.proc[p].pte[e.addr + k].page] = l[k] /\ k <= s.file.size
  ELSE IF k < s.file.size THEN s.file.page[k] = l[k] ELSE l[k] = 0

Synced(s, p, e, l) == \A k \in FilePages : PageSynced(s, p, e, l, k)

\* What a round of wunmap's loop does.
UnmapStep(a, b, p, e, k) ==
  /\ Dropping(a, b, p, e.addr + k)
  /\ a.proc[p].pte[e.addr + k] = NoPte => b = a
  /\ a.proc[p].pte[e.addr + k].w /\ e.file
       => FileWrote(a, b, k, a.data[a.proc[p].pte[e.addr + k].page])
  /\ ~e.file => b.halted \/ (SameFile(a, b) /\ b.halted = a.halted)

LEMMA UnmapStepIs ==
  ASSUME NEW a, Sound(a), NEW p \in Procs, NEW e \in EntryRecs, NEW k \in 0 .. e.length - 1,
         NEW lucky, NEW b, b = UnmapRound(a, p, e, k, lucky)
  PROVE  UnmapStep(a, b, p, e, k)
<1>0. a \in Machines /\ a.proc[p] \in ProcRecs /\ a.data \in [Pages -> Data] /\ e.file \in BOOLEAN
  BY MachineIs, EntryIs DEF Sound
<1>1. PICK v \in Virtual : v = e.addr + k
  BY EntryIs
<1>2. PICK x \in PteRecs : x = a.proc[p].pte[v]
  BY <1>0, ProcIs
<1>3. PICK c : c = IF x.w THEN WriteBack(a, e, k, a.data[x.page], lucky) ELSE a
  OBVIOUS
<1>4. b = IF a.proc[p].pte[v] = NoPte THEN a ELSE DropPage(c, p, v)
  BY <1>1, <1>2, <1>3 DEF UnmapRound
<1>5. /\ SameMem(a, c) /\ c.file.ref = a.file.ref /\ (a.halted => c.halted)
      /\ x.w /\ e.file => FileWrote(a, c, k, a.data[x.page])
      /\ ~e.file => c.halted \/ c = a
  <2>1. CASE x.w
    <3>1. a.data[x.page] \in Data
      BY <1>0, <2>1, PteIs
    <3>2. PICK y \in Data : y = a.data[x.page]
      BY <3>1
    <3>3. k \in Nat /\ c = WriteBack(a, e, k, y, lucky)
      BY <1>3, <2>1, <3>2, EntryIs
    <3>4. /\ SameMem(a, c) /\ c.file.ref = a.file.ref /\ (a.halted => c.halted)
          /\ e.file => Wrote(a, c, k, y)
          /\ ~e.file => c.halted \/ c = a
      BY <1>0, <3>3, WroteBack
    <3> QED
      BY <3>2, <3>4 DEF Wrote
  <2>2. CASE ~x.w
    <3>1. c = a
      BY <1>3, <2>2
    <3> QED
      BY <1>0, <2>2, <3>1 DEF SameMem
  <2> QED
    BY <2>1, <2>2
<1>6. /\ Dropping(a, b, p, v)
      /\ IF a.proc[p].pte[v] = NoPte THEN b = a ELSE b.file = c.file /\ b.halted = c.halted
  BY <1>4, <1>5, DropRound
<1>7. a.proc[p].pte[v].w => a.proc[p].pte[v] # NoPte
  BY <1>2, PteIs, Sizes
<1>8. a.proc[p].pte[v].w /\ e.file => FileWrote(a, b, k, a.data[a.proc[p].pte[v].page])
  BY <1>2, <1>5, <1>6, <1>7 DEF FileWrote
<1>9. ~e.file => b.halted \/ (SameFile(a, b) /\ b.halted = a.halted)
  BY <1>5, <1>6 DEF SameFile
<1> QED
  BY <1>1, <1>6, <1>8, <1>9 DEF UnmapStep

\* A page that is dropped has reached the file.
LEMMA StepSynced ==
  ASSUME NEW a, Sound(a), NEW p \in Procs, NEW e \in EntryRecs, e.file,
         NEW i \in 0 .. e.length - 1, NEW b, UnmapStep(a, b, p, e, i), ~b.halted,
         NEW l, Synced(a, p, e, l), Writable(a, p)
  PROVE  Synced(b, p, e, l) /\ Writable(b, p)
<1>0. /\ a \in Machines /\ a.proc[p] \in ProcRecs /\ a.data \in [Pages -> Data]
      /\ a.file.size \in 0 .. MAXFILE /\ a.file.page \in [FilePages -> Data] /\ MAXFILE \in Nat
      /\ a.proc[p].pte \in [Virtual -> PteRecs] /\ e.addr \in Nat /\ e.length \in Nat
  BY MachineIs, FileIs, EntryIs, ProcIs, Sizes DEF Sound
<1>1. PICK v \in Virtual : v = e.addr + i
  BY EntryIs
<1>2. /\ Dropping(a, b, p, v) /\ (a.proc[p].pte[v] = NoPte => b = a)
      /\ a.proc[p].pte[v].w => FileWrote(a, b, i, a.data[a.proc[p].pte[v].page])
  BY <1>1 DEF UnmapStep
<1>3. CASE a.proc[p].pte[v] = NoPte
  BY <1>2, <1>3
<1>4. CASE a.proc[p].pte[v] # NoPte
  <2>1. PICK g : g = a.proc[p].pte[v].page
    OBVIOUS
  <2>2. g \in Pages /\ a.proc[p].pte[v].w
    BY <1>0, <1>4, <2>1, PteIs DEF Writable
  <2>3. PICK x : x = a.data[g]
    OBVIOUS
  <2>4. \/ i <= a.file.size /\ i < MAXFILE /\ b.file.page = [a.file.page EXCEPT ![i] = x]
           /\ b.file.size = IF i = a.file.size THEN i + 1 ELSE a.file.size
        \/ ~(i <= a.file.size /\ i < MAXFILE) /\ b.file.page = a.file.page /\ b.file.size = a.file.size
    BY <1>2, <2>1, <2>2, <2>3 DEF FileWrote, Writable
  <2>5. /\ b.proc[p].pte[v] = NoPte
        /\ \A w \in Virtual \ {v} : b.proc[p].pte[w] = a.proc[p].pte[w]
        /\ \A h \in Pages : h # g => b.data[h] = a.data[h]
    BY <1>2, <2>1 DEF Dropping
  <2>6. Writable(b, p)
    BY <2>5 DEF Writable
  <2>7. i \in FilePages => x = l[i] /\ i <= a.file.size
    <3>1. i < e.length
      BY <1>0
    <3> SUFFICES ASSUME i \in FilePages PROVE x = l[i] /\ i <= a.file.size
      OBVIOUS
    <3>2. PageSynced(a, p, e, l, i)
      BY DEF Synced
    <3> QED
      BY <1>1, <1>4, <2>1, <2>3, <3>1, <3>2 DEF PageSynced
  <2>8. ASSUME NEW k \in FilePages PROVE PageSynced(b, p, e, l, k)
    <3>0. k \in Nat /\ k < MAXFILE
      BY <1>0 DEF FilePages
    <3>1. CASE k = i
      <4>1. b.file.page[k] = l[k] /\ k < b.file.size
        BY <1>0, <2>4, <2>7, <3>0, <3>1
      <4>2. b.proc[p].pte[e.addr + k] = NoPte
        BY <1>1, <2>5, <3>1
      <4> QED
        BY <4>1, <4>2 DEF PageSynced
    <3>2. CASE k # i
      <4>1. PageSynced(a, p, e, l, k)
        BY DEF Synced
      <4>2. CASE k < e.length /\ a.proc[p].pte[e.addr + k] # NoPte
        <5>1. PICK w \in Virtual : w = e.addr + k
          BY <1>0, <3>0, <4>2, EntryIs
        <5>2. w # v
          BY <1>0, <1>1, <3>0, <3>2, <5>1
        <5>3. b.proc[p].pte[w] = a.proc[p].pte[w] /\ a.proc[p].pte[w].page # g
              /\ a.proc[p].pte[w].page \in Pages
          <6>1. a.proc[p].pte[w].page \in Pages /\ g # 0
            BY <1>0, <2>2, <4>2, <5>1, PteIs, Sizes
          <6>2. a.proc[p].pte[w].page # g
            BY <2>1, <5>2, <6>1 DEF Sound, Apart, Neat, PtesOnce
          <6> QED
            BY <2>5, <5>2, <6>1, <6>2
        <5>4. b.data[b.proc[p].pte[w].page] = l[k] /\ k <= a.file.size
          BY <2>5, <4>1, <4>2, <5>1, <5>3 DEF PageSynced
        <5>5. k <= b.file.size
          BY <1>0, <2>4, <3>0, <5>4
        <5> QED
          BY <4>2, <5>1, <5>3, <5>4, <5>5 DEF PageSynced
      <4>3. CASE ~(k < e.length /\ a.proc[p].pte[e.addr + k] # NoPte)
        <5>1. ~(k < e.length /\ b.proc[p].pte[e.addr + k] # NoPte)
          <6> SUFFICES ASSUME k < e.length PROVE b.proc[p].pte[e.addr + k] = NoPte
            OBVIOUS
          <6>1. PICK w \in Virtual : w = e.addr + k
            BY <1>0, <3>0, EntryIs
          <6> QED
            BY <2>5, <4>3, <6>1
        <5>2. IF k < a.file.size THEN a.file.page[k] = l[k] ELSE l[k] = 0
          BY <4>1, <4>3 DEF PageSynced
        <5>3. IF k < b.file.size THEN b.file.page[k] = l[k] ELSE l[k] = 0
          <6>1. b.file.page[k] = a.file.page[k]
            BY <1>0, <2>4, <3>2
          <6>2. k < b.file.size <=> k < a.file.size
            BY <1>0, <2>4, <3>0, <3>2
          <6> QED
            BY <5>2, <6>1, <6>2
        <5> QED
          BY <5>1, <5>3 DEF PageSynced
      <4> QED
        BY <4>2, <4>3
    <3> QED
      BY <3>1, <3>2
  <2> QED
    BY <2>6, <2>8 DEF Synced
<1> QED
  BY <1>3, <1>4

\* wunmap's loop drops all pages of the entry, and writes them to the file.
LEMMA UnmappedShared ==
  ASSUME NEW s, Sound(s), NEW p \in Procs, NEW e \in EntryRecs, NEW lucky,
         NEW t, t = UnmapShared(s, p, e, lucky)
  PROVE  /\ Emptied(s, t, p, e.addr, e.length)
         /\ ~e.file => t.halted \/ (SameFile(s, t) /\ t.halted = s.halted)
         /\ \A l : e.file /\ Synced(s, p, e, l) /\ Writable(s, p) => t.halted \/ Synced(t, p, e, l)
<1>1. PICK n \in Nat : n = e.length
  BY EntryIs
<1>2. e.addr \in Nat /\ \A k \in 0 .. n - 1 : e.addr + k \in Virtual
  BY <1>1, EntryIs
<1>3. \A a \in SoundMachines, k \in 0 .. n - 1 :
        UnmapStep(a, UnmapRound(a, p, e, k, lucky), p, e, k)
  BY <1>1, UnmapStepIs, SoundSet
<1>4. \A a \in SoundMachines, k \in 0 .. n - 1 : UnmapRound(a, p, e, k, lucky) \in SoundMachines
  BY <1>3, SoundSet DEF UnmapStep, Dropping
<1>5. UnmapLoops(s, p, e, lucky, n, SoundMachines, s)
  BY <1>1, <1>4, SoundSet DEF UnmapLoops
<1>6. PICK G : /\ G \in [0 .. n -> SoundMachines] /\ G[0] = s
               /\ \A k \in 0 .. n - 1 : G[k + 1] = UnmapRound(G[k], p, e, k, lucky)
               /\ UnmapShared(s, p, e, lucky) = G[n]
  <2>1. PICK S : S = SoundMachines
    OBVIOUS
  <2>2. PICK start : start = s
    OBVIOUS
  <2>3. UnmapLoops(s, p, e, lucky, n, S, start)
    BY <1>5, <2>1, <2>2
  <2>4. \E G : UnmapLoopRun(G, s, p, e, lucky, n, S, start)
    BY <2>3, UnmapLoop
  <2> QED
    BY <2>1, <2>2, <2>4 DEF UnmapLoopRun
<1>7. \A k \in 0 .. n - 1 : UnmapStep(G[k], G[k + 1], p, e, k) /\ Sound(G[k])
  BY <1>3, <1>6, SoundSet
<1>8. Emptied(s, t, p, e.addr, e.length)
  <2>1. \A k \in 0 .. n - 1 : e.addr + k \in Virtual /\ Dropping(G[k], G[k + 1], p, e.addr + k)
    BY <1>2, <1>7 DEF UnmapStep
  <2>2. Sound(G[0]) /\ e.addr \in Nat
    BY <1>2, <1>6
  <2>3. \A k \in 0 .. n : Emptied(G[0], G[k], p, e.addr, k)
    BY <2>1, <2>2, DropCourse
  <2> QED
    BY <1>1, <1>6, <2>3
<1>9. ASSUME ~e.file PROVE t.halted \/ (SameFile(s, t) /\ t.halted = s.halted)
  <2>1. PICK H : H = {k \in 0 .. n : G[k].halted \/ (SameFile(s, G[k]) /\ G[k].halted = s.halted)}
    OBVIOUS
  <2>2. 0 \in H
    BY <1>6, <2>1 DEF SameFile
  <2>3. ASSUME NEW k \in 0 .. n - 1, k \in H PROVE k + 1 \in H
    <3>1. /\ G[k + 1].halted \/ (SameFile(G[k], G[k + 1]) /\ G[k + 1].halted = G[k].halted)
          /\ G[k].halted => G[k + 1].halted
      BY <1>7, <1>9 DEF UnmapStep, Dropping
    <3>2. k + 1 \in 0 .. n
      OBVIOUS
    <3> QED
      BY <2>1, <2>3, <3>1, <3>2 DEF SameFile
  <2>4. n \in H
    <3>1. \A k \in 0 .. n : k \in H
      BY <2>2, <2>3, Induction
    <3> QED
      BY <3>1
  <2> QED
    BY <1>6, <2>1, <2>4
<1>10. ASSUME NEW l, e.file, Synced(s, p, e, l), Writable(s, p) PROVE t.halted \/ Synced(t, p, e, l)
  <2>1. PICK H : H = {k \in 0 .. n : G[k].halted \/ (Synced(G[k], p, e, l) /\ Writable(G[k], p))}
    OBVIOUS
  <2>2. 0 \in H
    BY <1>6, <1>10, <2>1
  <2>3. ASSUME NEW k \in 0 .. n - 1, k \in H PROVE k + 1 \in H
    <3>1. UnmapStep(G[k], G[k + 1], p, e, k) /\ Sound(G[k]) /\ k + 1 \in 0 .. n /\ k \in 0 .. e.length - 1
      BY <1>1, <1>7
    <3>2. CASE G[k + 1].halted
      BY <2>1, <3>1, <3>2
    <3>3. CASE ~G[k + 1].halted
      <4>1. ~G[k].halted
        BY <3>1, <3>3 DEF UnmapStep, Dropping
      <4>2. Synced(G[k], p, e, l) /\ Writable(G[k], p)
        BY <2>1, <2>3, <4>1
      <4>3. Synced(G[k + 1], p, e, l) /\ Writable(G[k + 1], p)
        BY <1>10, <3>1, <3>3, <4>2, StepSynced
      <4> QED
        BY <2>1, <3>1, <4>3
    <3> QED
      BY <3>2, <3>3
  <2>4. n \in H
    <3>1. \A k \in 0 .. n : k \in H
      BY <2>2, <2>3, Induction
    <3> QED
      BY <3>1
  <2> QED
    BY <1>6, <2>1, <2>4
<1> QED
  BY <1>8, <1>9, <1>10

\* List ns is ms without entry i.
Without(ms, ns, i) ==
  /\ Len(ns) = Len(ms) - 1
  /\ \A j \in 1 .. Len(ms) - 1 : ns[j] = IF j < i THEN ms[j] ELSE ms[j + 1]

LEMMA ListWithout ==
  ASSUME NEW ms \in Seq(EntryRecs), NEW i \in 1 .. Len(ms), NEW ns, ns = RemoveAt(ms, i)
  PROVE  ns \in Lists /\ Without(ms, ns, i)
BY RemoveAtIs DEF Lists, Without

\* An entry goes off the list; its page is loose.
LEMMA ListShrunk ==
  ASSUME NEW s, Sound(s), NEW p \in Procs, NEW i \in 1 .. Len(s.proc[p].mmaps),
         NEW ns \in Lists, Without(s.proc[p].mmaps, ns, i), NEW t, t = WithMmaps(s, p, ns)
  PROVE  /\ Sound(t) /\ t.proc[p].mmaps = ns /\ t.proc[p].pte = s.proc[p].pte
         /\ Core(s.proc[p], t.proc[p]) /\ Others(s, t, p) /\ SameRest(s, t)
         /\ Loose(t, s.proc[p].mmaps[i].page)
<1>0. s \in Machines /\ s.proc[p] \in ProcRecs
  BY MachineIs DEF Sound
<1>1. PICK r \in ProcRecs : r = s.proc[p]
  BY <1>0
<1>4. /\ t \in Machines /\ t.proc[p].mmaps = ns
      /\ t.proc[p].state = s.proc[p].state /\ t.proc[p].parent = s.proc[p].parent
      /\ t.proc[p].image = s.proc[p].image /\ t.proc[p].pte = s.proc[p].pte
      /\ t.proc[p].fd = s.proc[p].fd
      /\ Others(s, t, p) /\ SameRest(s, t)
  BY <1>0, MmapsSet
<1>5. PICK z : z = t.proc[p]
  OBVIOUS
<1>6. Neat(r) /\ i \in 1 .. Len(r.mmaps)
  BY <1>1 DEF Sound, Apart
<1>7. /\ z.image = r.image /\ (\A w \in Virtual : z.pte[w].page = r.pte[w].page)
      /\ Len(z.mmaps) = Len(r.mmaps) - 1
      /\ \A j \in 1 .. Len(r.mmaps) - 1 : z.mmaps[j] = IF j < i THEN r.mmaps[j] ELSE r.mmaps[j + 1]
  BY <1>1, <1>4, <1>5 DEF Without
<1>8. Neat(z) /\ ~Has(z, r.mmaps[i].page) /\ \A h : Has(z, h) => Has(r, h)
  BY <1>6, <1>7, EntryRemoved
<1>9. /\ Sound(t)
      /\ \A h \in Pages : h \notin s.free /\ ~Has(z, h) /\ (Has(s.proc[p], h) \/ Loose(s, h)) => Loose(t, h)
  <2>1. /\ t \in Machines /\ t.proc[p] = z /\ (\A q \in Procs \ {p} : t.proc[q] = s.proc[q])
        /\ t.free = s.free
    BY <1>4, <1>5 DEF Others, SameRest
  <2>2. \A h \in Pages : Has(z, h) => Has(s.proc[p], h) \/ Loose(s, h)
    BY <1>1, <1>8
  <2> QED
    BY <1>8, <2>1, <2>2, Edited
<1>10. Loose(t, r.mmaps[i].page)
  <2>1. PICK h \in Pages : h = r.mmaps[i].page
    BY <1>6, ProcIs, EntryIs
  <2>2. Has(r, h)
    BY <1>6, <2>1 DEF Has
  <2>3. h \notin s.free
    BY <1>1, <2>2 DEF Sound, Apart
  <2> QED
    BY <1>1, <1>8, <1>9, <2>1, <2>2, <2>3
<1> QED
  BY <1>1, <1>4, <1>9, <1>10 DEF Core

\* The pages of an entry leave the page table, whether they become free or are lost.
Vacated(s, t, p, e) ==
  /\ Sound(t) /\ Core(s.proc[p], t.proc[p]) /\ t.proc[p].mmaps = s.proc[p].mmaps /\ Others(s, t, p)
  /\ \A v \in Virtual : t.proc[p].pte[v] = IF Covers(e, v) THEN NoPte ELSE s.proc[p].pte[v]
  /\ \A h \in Pages : \/ t.data[h] = s.data[h]
                      \/ \E v \in Virtual : Covers(e, v) /\ s.proc[p].pte[v].page = h

\* wunmap takes entry i, which is e, off p's list.
Unmapped(s, t, p, i, e) ==
  /\ Sound(t) /\ Core(s.proc[p], t.proc[p]) /\ Others(s, t, p)
  /\ Without(s.proc[p].mmaps, t.proc[p].mmaps, i)
  /\ \A v \in Virtual : t.proc[p].pte[v] = IF Covers(e, v) THEN NoPte ELSE s.proc[p].pte[v]
  /\ \A h \in Pages : \/ t.data[h] = s.data[h] \/ h = e.page
                      \/ \E v \in Virtual : Covers(e, v) /\ s.proc[p].pte[v].page = h
  /\ t.file.ref = IF e.shared /\ e.file THEN s.file.ref - 1 ELSE s.file.ref
  /\ ~(e.shared /\ e.file) => t.file.size = s.file.size /\ t.file.page = s.file.page
  /\ \A l : e.shared /\ e.file /\ Synced(s, p, e, l) /\ Writable(s, p) => Synced(t, p, e, l)

LEMMA VacatedPrivate ==
  ASSUME NEW s, Sound(s), NEW p \in Procs, NEW e \in EntryRecs, NEW t, t = UnmapPrivate(s, p, e)
  PROVE  Vacated(s, t, p, e) /\ SameRest(s, t)
<1>0. s \in Machines /\ s.proc[p] \in ProcRecs /\ s.proc[p].pte \in [Virtual -> PteRecs]
  BY MachineIs, ProcIs DEF Sound
<1>1. PICK y : y = [v \in Virtual |-> IF Covers(e, v) THEN NoPte ELSE s.proc[p].pte[v]]
  OBVIOUS
<1>2. y \in [Virtual -> PteRecs] /\ \A v \in Virtual : y[v] = NoPte \/ y[v].page = s.proc[p].pte[v].page
  BY <1>0, <1>1 DEF PteRecs
<1>3. t = WithPte(s, p, y)
  BY <1>1 DEF UnmapPrivate, WithPte
<1>4. Sound(t)
  BY <1>2, <1>3, Cleared
<1>5. /\ t.proc[p].pte = y
      /\ t.proc[p].state = s.proc[p].state /\ t.proc[p].parent = s.proc[p].parent
      /\ t.proc[p].image = s.proc[p].image /\ t.proc[p].mmaps = s.proc[p].mmaps
      /\ t.proc[p].fd = s.proc[p].fd
      /\ Others(s, t, p) /\ SameRest(s, t)
  BY <1>0, <1>2, <1>3, PteSet
<1> QED
  BY <1>1, <1>4, <1>5 DEF Vacated, Core, SameRest

LEMMA VacatedShared ==
  ASSUME NEW s, NEW p, NEW e \in EntryRecs, NEW t, Emptied(s, t, p, e.addr, e.length)
  PROVE  Vacated(s, t, p, e)
BY DEF Emptied, Vacated, Covers

LEMMA VacatedMem ==
  ASSUME NEW s, NEW p, NEW e, NEW u, Vacated(s, u, p, e), NEW t, SameMem(u, t)
  PROVE  Vacated(s, t, p, e)
<1>1. Sound(t)
  BY MemSound DEF Vacated
<1> QED
  BY <1>1 DEF Vacated, SameMem, Others

Gone(s, c, t, p, ns, e) ==
  /\ Sound(t) /\ Core(s.proc[p], t.proc[p]) /\ Others(s, t, p)
  /\ t.proc[p].mmaps = ns
  /\ \A v \in Virtual : t.proc[p].pte[v] = IF Covers(e, v) THEN NoPte ELSE s.proc[p].pte[v]
  /\ \A h \in Pages : \/ t.data[h] = s.data[h] \/ h = e.page
                      \/ \E v \in Virtual : Covers(e, v) /\ s.proc[p].pte[v].page = h
  /\ t.file = c.file /\ t.halted = c.halted
  /\ \A h \in Pages : h # e.page => t.data[h] = c.data[h]

\* An entry is taken off a list whose pages are gone, and its page is freed.
LEMMA EntryGone ==
  ASSUME NEW s, NEW c, NEW p \in Procs, NEW i \in 1 .. Len(s.proc[p].mmaps), NEW e,
         e = s.proc[p].mmaps[i], Vacated(s, c, p, e), NEW ns \in Lists,
         Without(s.proc[p].mmaps, ns, i), NEW t, t = kfree(WithMmaps(c, p, ns), e.page)
  PROVE  Gone(s, c, t, p, ns, e)
<1>1. Sound(c) /\ c.proc[p].mmaps = s.proc[p].mmaps
  BY DEF Vacated
<1>2. PICK d : d = WithMmaps(c, p, ns)
  OBVIOUS
<1>3. /\ Sound(d) /\ d.proc[p].mmaps = ns /\ d.proc[p].pte = c.proc[p].pte
      /\ Core(c.proc[p], d.proc[p]) /\ Others(c, d, p) /\ SameRest(c, d)
      /\ Loose(d, c.proc[p].mmaps[i].page)
  <2>1. i \in 1 .. Len(c.proc[p].mmaps) /\ Without(c.proc[p].mmaps, ns, i)
    BY <1>1
  <2> QED
    BY <1>1, <1>2, <2>1, ListShrunk
<1>4. t = kfree(d, e.page) /\ Loose(d, e.page)
  BY <1>1, <1>2, <1>3
<1>5. /\ Sound(t) /\ t.proc = d.proc /\ t.free = d.free \cup {e.page}
      /\ \A h \in Pages \ {e.page} : t.data[h] = d.data[h]
      /\ t.file = d.file /\ t.halted = d.halted
  <2>1. PICK g : g = e.page
    OBVIOUS
  <2>2. Sound(d) /\ Loose(d, g) /\ t = kfree(d, g)
    BY <1>3, <1>4, <2>1
  <2>3. /\ Sound(t) /\ t.proc = d.proc /\ t.free = d.free \cup {g}
        /\ \A h \in Pages \ {g} : t.data[h] = d.data[h]
        /\ t.file = d.file /\ t.halted = d.halted
    BY <2>2, Release
  <2> QED
    BY <2>1, <2>3
<1>6. Core(s.proc[p], t.proc[p]) /\ Others(s, t, p) /\ t.file = c.file /\ t.halted = c.halted
  BY ZenonT(90), <1>3, <1>5 DEF Vacated, Core, Others, SameRest
<1>7. \A v \in Virtual : t.proc[p].pte[v] = IF Covers(e, v) THEN NoPte ELSE s.proc[p].pte[v]
  <2>1. t.proc[p].pte = c.proc[p].pte
    BY <1>3, <1>5
  <2>2. \A v \in Virtual : c.proc[p].pte[v] = IF Covers(e, v) THEN NoPte ELSE s.proc[p].pte[v]
    BY DEF Vacated
  <2> QED
    BY <2>1, <2>2
<1>8. \A h \in Pages : h # e.page => t.data[h] = c.data[h]
  BY <1>3, <1>5 DEF SameRest
<1>9. \A h \in Pages : \/ t.data[h] = s.data[h] \/ h = e.page
                       \/ \E v \in Virtual : Covers(e, v) /\ s.proc[p].pte[v].page = h
  BY <1>8 DEF Vacated
<1> QED
  BY <1>3, <1>5, <1>6, <1>7, <1>8, <1>9 DEF Gone

\* wunmap.
LEMMA Wunmapped ==
  ASSUME NEW s, Sound(s), NEW p \in Procs, NEW i \in 1 .. Len(s.proc[p].mmaps), NEW lucky,
         NEW t, t = sys_wunmap(s, p, i, lucky)
  PROVE  t.halted \/ Unmapped(s, t, p, i, s.proc[p].mmaps[i])
<1>0. s \in Machines /\ s.proc[p] \in ProcRecs /\ s.file.ref \in Int
  BY MachineIs, FileIs DEF Sound
<1>1. PICK e \in EntryRecs : e = s.proc[p].mmaps[i]
  BY <1>0, ProcIs
<1>2. e.file \in BOOLEAN /\ e.shared \in BOOLEAN
  BY EntryIs
<1>3. PICK u : u = UnmapShared(s, p, e, lucky)
  OBVIOUS
<1>4. PICK c : c = IF ~e.shared THEN UnmapPrivate(s, p, e) ELSE IF e.file THEN fileclose(u) ELSE u
  OBVIOUS
<1>5. PICK ns : ns = RemoveAt(c.proc[p].mmaps, i)
  OBVIOUS
<1>6. t = kfree(WithMmaps(c, p, ns), e.page)
  BY <1>1, <1>3, <1>4, <1>5 DEF sys_wunmap, WithMmaps
<1>7. /\ Vacated(s, c, p, e)
      /\ \/ c.halted
         \/ /\ c.file.ref = IF e.shared /\ e.file THEN s.file.ref - 1 ELSE s.file.ref
            /\ ~(e.shared /\ e.file) => c.file.size = s.file.size /\ c.file.page = s.file.page
            /\ \A l : e.shared /\ e.file /\ Synced(s, p, e, l) /\ Writable(s, p) => Synced(c, p, e, l)
  <2>1. CASE ~e.shared
    <3>1. c = UnmapPrivate(s, p, e)
      BY <1>4, <2>1
    <3>2. Vacated(s, c, p, e) /\ SameRest(s, c)
      BY <3>1, VacatedPrivate
    <3> QED
      BY <2>1, <3>2 DEF SameRest
  <2>2. CASE e.shared
    <3>1. /\ Emptied(s, u, p, e.addr, e.length)
          /\ ~e.file => u.halted \/ (SameFile(s, u) /\ u.halted = s.halted)
          /\ \A l : e.file /\ Synced(s, p, e, l) /\ Writable(s, p) => u.halted \/ Synced(u, p, e, l)
      BY <1>3, UnmappedShared
    <3>2. Vacated(s, u, p, e) /\ u.file.ref = s.file.ref
      BY <3>1, VacatedShared DEF Emptied
    <3>3. CASE ~e.file
      <4>1. c = u
        BY <1>4, <2>2, <3>3
      <4> QED
        BY <3>1, <3>2, <3>3, <4>1 DEF SameFile
    <3>4. CASE e.file
      <4>1. c = fileclose(u) /\ u \in Machines
        BY <1>4, <2>2, <3>2, <3>4 DEF Vacated, Sound
      <4>2. /\ SameMem(u, c) /\ c.file.page = u.file.page /\ c.file.size = u.file.size
            /\ \/ c.halted /\ c.file.ref = u.file.ref
               \/ c.halted = u.halted /\ u.file.ref >= 1 /\ c.file.ref = u.file.ref - 1
        BY <4>1, Close
      <4>3. Vacated(s, c, p, e)
        BY <3>2, <4>2, VacatedMem
      <4>4. \A l : Synced(u, p, e, l) => Synced(c, p, e, l)
        BY <4>2 DEF Synced, PageSynced, SameMem
      <4>5. \A l : e.shared /\ e.file /\ Synced(s, p, e, l) /\ Writable(s, p) => u.halted \/ Synced(c, p, e, l)
        BY <3>1, <4>4
      <4> QED
        BY <2>2, <3>2, <3>4, <4>2, <4>3, <4>5
    <3> QED
      BY <1>2, <3>3, <3>4
  <2> QED
    BY <1>2, <2>1, <2>2
<1>8. ns \in Lists /\ Without(s.proc[p].mmaps, ns, i)
  <2>1. PICK q : q = s.proc[p].mmaps
    OBVIOUS
  <2>2. q \in Seq(EntryRecs) /\ i \in 1 .. Len(q) /\ ns = RemoveAt(q, i)
    BY <1>0, <1>5, <1>7, <2>1, ProcIs DEF Vacated
  <2>3. ns \in Lists /\ Without(q, ns, i)
    BY <2>2, ListWithout
  <2> QED
    BY <2>1, <2>3
<1>9. /\ Sound(t) /\ Core(s.proc[p], t.proc[p]) /\ Others(s, t, p)
      /\ t.proc[p].mmaps = ns
      /\ \A v \in Virtual : t.proc[p].pte[v] = IF Covers(e, v) THEN NoPte ELSE s.proc[p].pte[v]
      /\ \A h \in Pages : \/ t.data[h] = s.data[h] \/ h = e.page
                          \/ \E v \in Virtual : Covers(e, v) /\ s.proc[p].pte[v].page = h
      /\ t.file = c.file /\ t.halted = c.halted
      /\ \A h \in Pages : h # e.page => t.data[h] = c.data[h]
  <2>1. Vacated(s, c, p, e) /\ ns \in Lists /\ Without(s.proc[p].mmaps, ns, i)
    BY <1>7, <1>8
  <2>2. Gone(s, c, t, p, ns, e)
    BY <1>1, <1>6, <2>1, EntryGone
  <2> QED
    BY <2>2 DEF Gone
<1>10. ASSUME NEW l, Synced(c, p, e, l) PROVE Synced(t, p, e, l)
  <2> SUFFICES ASSUME NEW k \in FilePages PROVE PageSynced(t, p, e, l, k)
    BY DEF Synced
  <2>1. PageSynced(c, p, e, l, k)
    BY <1>10 DEF Synced
  <2>2. k \in Nat /\ e.addr \in Nat /\ e.length \in Nat
    BY EntryIs DEF FilePages
  <2>3. k < e.length => t.proc[p].pte[e.addr + k] = NoPte /\ c.proc[p].pte[e.addr + k] = NoPte
    <3> SUFFICES ASSUME k < e.length
                 PROVE  t.proc[p].pte[e.addr + k] = NoPte /\ c.proc[p].pte[e.addr + k] = NoPte
      OBVIOUS
    <3>1. PICK v \in Virtual : v = e.addr + k
      BY <2>2, EntryIs
    <3>2. Covers(e, v)
      BY <2>2, <3>1 DEF Covers
    <3> QED
      BY <1>7, <1>9, <3>1, <3>2 DEF Vacated
  <2> QED
    BY <1>9, <2>1, <2>3 DEF PageSynced
<1>11. t.halted \/ \A l : e.shared /\ e.file /\ Synced(s, p, e, l) /\ Writable(s, p) => Synced(t, p, e, l)
  BY <1>7, <1>9, <1>10
<1>12. t.halted \/ /\ t.file.ref = IF e.shared /\ e.file THEN s.file.ref - 1 ELSE s.file.ref
                   /\ ~(e.shared /\ e.file) => t.file.size = s.file.size /\ t.file.page = s.file.page
  BY <1>7, <1>9
<1>13. Without(s.proc[p].mmaps, t.proc[p].mmaps, i)
  BY <1>8, <1>9
<1> QED
  BY <1>1, <1>9, <1>11, <1>12, <1>13 DEF Unmapped

-----------------------------------------------------------------------------
(* wremap *)

\* Lists that differ in the numbers of loaded pages.
Stable(ms, ns) ==
  /\ Len(ns) = Len(ms)
  /\ \A j \in 1 .. Len(ms) : ns[j].page = ms[j].page /\ ns[j].file = ms[j].file

\* Process p has touched some of its pages; it may be stuck.
Stirred(s, t, p) ==
  /\ Sound(t) /\ t.file.ref = s.file.ref /\ (s.halted => t.halted) /\ Others(s, t, p)
  /\ t.proc[p].image = s.proc[p].image /\ t.proc[p].fd = s.proc[p].fd
  /\ t.proc[p].state \in {s.proc[p].state, "STUCK"} /\ Stable(s.proc[p].mmaps, t.proc[p].mmaps)
  /\ \A v \in Virtual : s.proc[p].pte[v] # NoPte => t.proc[p].pte[v] = s.proc[p].pte[v]

LEMMA StirredSelf ==
  ASSUME NEW s, Sound(s), NEW p PROVE Stirred(s, s, p)
BY DEF Stirred, Others, Stable

LEMMA StirredTwice ==
  ASSUME NEW s, NEW p, NEW a, Stirred(s, a, p), NEW t, Stirred(a, t, p)
  PROVE  Stirred(s, t, p)
<1>1. Stable(s.proc[p].mmaps, t.proc[p].mmaps)
  BY DEF Stirred, Stable
<1> QED
  BY <1>1 DEF Stirred, Others

\* The kernel touches a page.
LEMMA Touched ==
  ASSUME NEW s, Sound(s), NEW p \in Procs, NEW v \in Virtual, NEW write,
         NEW t, t = Touch(s, p, v, write)
  PROVE  /\ Stirred(s, t, p)
         /\ t.halted \/ t.proc[p].state # "RUNNABLE" \/ t.proc[p].pte[v] # NoPte
<1>1. CASE s.halted \/ s.proc[p].state # "RUNNABLE"
  <2>1. t = s
    BY <1>1 DEF Touch
  <2> QED
    BY <1>1, <2>1, StirredSelf
<1>2. CASE ~(s.halted \/ s.proc[p].state # "RUNNABLE")
  <2>1. CASE s.proc[p].pte[v] # NoPte /\ (write => s.proc[p].pte[v].w)
    <3>1. t = s
      BY <1>2, <2>1 DEF Touch
    <3> QED
      BY <2>1, <3>1, StirredSelf
  <2>2. CASE ~(s.proc[p].pte[v] # NoPte /\ (write => s.proc[p].pte[v].w))
    <3>1. PICK u : u = PageFault(s, p, v)
      OBVIOUS
    <3>2. t = IF u.proc[p].state = "EXITING" THEN WithState(u, p, "STUCK") ELSE u
      BY <1>2, <2>2, <3>1 DEF Touch, WithState
    <3>3. CASE Killed(s, u, p)
      <4>1. /\ Sound(u) /\ u.proc[p].state = "EXITING" /\ u.proc[p].mmaps = s.proc[p].mmaps
            /\ u.proc[p].image = s.proc[p].image /\ u.proc[p].pte = s.proc[p].pte
            /\ u.proc[p].fd = s.proc[p].fd /\ Others(s, u, p) /\ SameFile(s, u)
            /\ u.free = s.free /\ u.halted = s.halted /\ u \in Machines
        BY <3>3 DEF Killed, Sound
      <4>2. t = WithState(u, p, "STUCK") /\ "STUCK" \in States
        BY <3>2, <4>1 DEF States
      <4>3. /\ t \in Machines /\ t.proc[p].state = "STUCK"
            /\ t.proc[p].parent = u.proc[p].parent /\ t.proc[p].image = u.proc[p].image
            /\ t.proc[p].mmaps = u.proc[p].mmaps
            /\ t.proc[p].pte = u.proc[p].pte /\ t.proc[p].fd = u.proc[p].fd
            /\ Others(u, t, p) /\ SameRest(u, t)
        BY <4>1, <4>2, StateSet
      <4>4. Sound(t)
        <5>1. \A q \in Procs : /\ t.proc[q].image = u.proc[q].image /\ t.proc[q].pte = u.proc[q].pte
                               /\ t.proc[q].mmaps = u.proc[q].mmaps
          BY <4>3 DEF Others
        <5>2. t \in Machines /\ t.free = u.free
          BY <4>3 DEF SameRest
        <5> QED
          BY <4>1, <5>1, <5>2, SameUse
      <4>5. Stirred(s, t, p)
        BY <4>1, <4>3, <4>4 DEF Stirred, Others, SameRest, SameFile, Stable
      <4> QED
        BY <4>3, <4>5
    <3>4. CASE u.halted /\ SameMem(s, u) /\ u.file = s.file
      <4>1. t = u /\ Sound(u)
        BY <1>2, <3>2, <3>4, MemSound DEF SameMem
      <4>2. Stirred(s, t, p)
        BY <3>4, <4>1 DEF Stirred, SameMem, Others, Stable
      <4> QED
        BY <3>4, <4>1, <4>2
    <3>5. CASE \E i : Loaded(s, u, p, v, i)
      <4>1. PICK i : Loaded(s, u, p, v, i)
        BY <3>5
      <4>2. t = u
        BY <1>2, <3>2, <4>1 DEF Loaded, Core
      <4>3. Stable(s.proc[p].mmaps, u.proc[p].mmaps)
        BY <4>1 DEF Loaded, Bumped, Stable
      <4>4. /\ Sound(u) /\ SameFile(s, u) /\ u.halted = s.halted /\ Others(s, u, p)
            /\ Core(s.proc[p], u.proc[p]) /\ s.proc[p].pte[v] = NoPte /\ u.proc[p].pte[v].w
            /\ \A w \in Virtual \ {v} : u.proc[p].pte[w] = s.proc[p].pte[w]
        BY <4>1 DEF Loaded
      <4>5. \A w \in Virtual : s.proc[p].pte[w] # NoPte => u.proc[p].pte[w] = s.proc[p].pte[w]
        BY <4>4
      <4>6. u.proc[p].pte[v] # NoPte
        BY <4>4 DEF NoPte
      <4>7. Stirred(s, u, p)
        BY <4>3, <4>4, <4>5 DEF Stirred, Core, SameFile
      <4> QED
        BY <4>2, <4>6, <4>7
    <3> QED
      BY <3>1, <3>3, <3>4, <3>5, Faulted
  <2> QED
    BY <2>1, <2>2
<1> QED
  BY <1>1, <1>2

\* A page is copied.
PutData(u, g, x) == [u EXCEPT !.data[g] = x]

LEMMA DataPut ==
  ASSUME NEW u, Sound(u), NEW g \in Pages, NEW x \in Data, NEW t, t = PutData(u, g, x)
  PROVE  /\ Sound(t) /\ t.proc = u.proc /\ t.free = u.free /\ t.file = u.file /\ t.halted = u.halted
         /\ t.data[g] = x /\ \A h \in Pages \ {g} : t.data[h] = u.data[h]
<1>1. u \in Machines /\ u.data \in [Pages -> Data]
  BY MachineIs DEF Sound
<1>2. PICK d \in [Pages -> Data] : d = [u.data EXCEPT ![g] = x]
  BY <1>1
<1>3. t = [u EXCEPT !.data = d]
  BY <1>2 DEF PutData
<1>4. t \in Machines /\ t.data = d /\ t.proc = u.proc /\ t.free = u.free /\ t.file = u.file /\ t.halted = u.halted
  BY <1>1, <1>3 DEF Machines
<1>5. Sound(t)
  BY <1>4, SameUse
<1> QED
  BY <1>1, <1>2, <1>4, <1>5

\* A round of memmove.
MoveRound(a, p, from, to, k) ==
  LET u == Touch(Touch(a, p, from + k, FALSE), p, to + k, TRUE) IN
  IF u.halted \/ u.proc[p].state # "RUNNABLE" THEN u
  ELSE [u EXCEPT !.data[u.proc[p].pte[to + k].page] = u.data[u.proc[p].pte[from + k].page]]

LEMMA MoveRoundIs ==
  ASSUME NEW a, Sound(a), NEW p \in Procs, NEW from, NEW to, NEW k, from + k \in Virtual,
         to + k \in Virtual, NEW t, t = MoveRound(a, p, from, to, k)
  PROVE  Stirred(a, t, p)
<1>1. PICK v \in Virtual : v = from + k
  OBVIOUS
<1>2. PICK w \in Virtual : w = to + k
  OBVIOUS
<1>3. PICK b : b = Touch(a, p, v, FALSE)
  OBVIOUS
<1>4. PICK u : u = Touch(b, p, w, TRUE)
  OBVIOUS
<1>5. Stirred(a, b, p) /\ (b.halted \/ b.proc[p].state # "RUNNABLE" \/ b.proc[p].pte[v] # NoPte)
  BY <1>3, Touched
<1>6. Sound(b)
  BY <1>5 DEF Stirred
<1>7. Stirred(b, u, p) /\ (u.halted \/ u.proc[p].state # "RUNNABLE" \/ u.proc[p].pte[w] # NoPte)
  BY <1>4, <1>6, Touched
<1>8. Stirred(a, u, p)
  BY <1>5, <1>7, StirredTwice
<1>9. CASE u.halted \/ u.proc[p].state # "RUNNABLE"
  <2>1. t = u
    BY <1>1, <1>2, <1>3, <1>4, <1>9 DEF MoveRound
  <2> QED
    BY <1>8, <2>1
<1>10. CASE ~(u.halted \/ u.proc[p].state # "RUNNABLE")
  <2>0. u \in Machines /\ u.proc[p] \in ProcRecs /\ u.proc[p].pte \in [Virtual -> PteRecs] /\ Sound(u)
        /\ u.data \in [Pages -> Data]
    BY <1>7, MachineIs, ProcIs DEF Stirred, Sound
  <2>1. ~b.halted /\ b.proc[p].state = "RUNNABLE"
    BY <1>7, <1>10 DEF Stirred
  <2>2. u.proc[p].pte[v] # NoPte /\ u.proc[p].pte[w] # NoPte
    BY <1>5, <1>7, <1>10, <2>1 DEF Stirred
  <2>3. PICK g \in Pages : g = u.proc[p].pte[w].page
    BY <2>0, <2>2, PteIs
  <2>4. PICK h \in Pages : h = u.proc[p].pte[v].page
    BY <2>0, <2>2, PteIs
  <2>5. PICK x \in Data : x = u.data[h]
    BY <2>0
  <2>6. t = PutData(u, g, x)
    BY <1>1, <1>2, <1>3, <1>4, <1>10, <2>3, <2>4, <2>5 DEF MoveRound, PutData
  <2>7. Sound(t) /\ t.proc = u.proc /\ t.file = u.file /\ t.halted = u.halted
    <3>1. Sound(u)
      BY <2>0
    <3>2. PICK z : z = PutData(u, g, x)
      OBVIOUS
    <3>3. Sound(z) /\ z.proc = u.proc /\ z.file = u.file /\ z.halted = u.halted
      BY <3>1, <3>2, DataPut
    <3> QED
      BY <2>6, <3>2, <3>3
  <2> QED
    BY <1>8, <2>7 DEF Stirred, Others
<1> QED
  BY <1>9, <1>10

\* The rounds of memmove stay in S.
MoveLoops(s, p, from, to, length, n, S, start) ==
  /\ n \in Nat /\ n = length /\ start \in S /\ start = s
  /\ \A a \in S, k \in 0 .. n - 1 : MoveRound(a, p, from, to, k) \in S

MoveLoopRun(G, s, p, from, to, length, n, S, start) ==
  /\ G \in [0 .. n -> S] /\ G[0] = start
  /\ \A k \in 0 .. n - 1 : G[k + 1] = MoveRound(G[k], p, from, to, k)
  /\ MoveData(s, p, from, to, length) = G[n]

\* Then the loop runs through S.
LEMMA MoveLoop ==
  ASSUME NEW s, NEW p, NEW from, NEW to, NEW length, NEW n, NEW S, NEW start, MoveLoops(s, p, from, to, length, n, S, start)
  PROVE  \E G : MoveLoopRun(G, s, p, from, to, length, n, S, start)
<1> DEFINE Round(a, k) == MoveRound(a, p, from, to, k)
<1>0. n \in Nat /\ start \in S /\ n = length /\ start = s
  BY DEF MoveLoops
<1>1. \A a \in S, k \in 0 .. n - 1 : Round(a, k) \in S
  BY DEF MoveLoops
<1>2. MoveData(s, p, from, to, length)
        = (CHOOSE H : H = [k \in 0 .. n |-> IF k = 0 THEN start ELSE Round(H[k - 1], k - 1)])[n]
  BY <1>0 DEF MoveData, Loop, MoveRound
<1> SUFFICES \E G : /\ G \in [0 .. n -> S] /\ G[0] = start
                    /\ \A k \in 0 .. n - 1 : G[k + 1] = Round(G[k], k)
                    /\ MoveData(s, p, from, to, length) = G[n]
  BY DEF MoveLoopRun
<1> HIDE DEF Round
<1>3. PICK R : R = [x \in S \X (0 .. n - 1) |-> Round(x[1], x[2])]
  OBVIOUS
<1>4. R \in [S \X (0 .. n - 1) -> S]
  BY <1>1, <1>3
<1>5. PICK G : Course(G, n, S, start, R)
  BY <1>0, <1>4, Iterate
<1>6. G \in [0 .. n -> S] /\ G[0] = start
  BY <1>5 DEF Course
<1>7. ASSUME NEW k \in 0 .. n - 1 PROVE G[k + 1] = Round(G[k], k)
  <2>1. G[k + 1] = R[<<G[k], k>>] /\ <<G[k], k>> \in S \X (0 .. n - 1)
    BY <1>0, <1>5 DEF Course
  <2> QED
    BY <1>3, <2>1
<1>8. ASSUME NEW k \in 0 .. n, k # 0 PROVE G[k] = Round(G[k - 1], k - 1)
  <2>1. k - 1 \in 0 .. n - 1 /\ k - 1 + 1 = k
    BY <1>0, <1>8
  <2> QED
    BY <1>7, <2>1
<1>9. G = [k \in 0 .. n |-> IF k = 0 THEN start ELSE Round(G[k - 1], k - 1)]
  BY <1>0, <1>6, <1>8
<1>10. PICK F : F = CHOOSE H : H = [k \in 0 .. n |-> IF k = 0 THEN start ELSE Round(H[k - 1], k - 1)]
  OBVIOUS
<1>11. F = [k \in 0 .. n |-> IF k = 0 THEN start ELSE Round(F[k - 1], k - 1)]
  BY <1>9, <1>10
<1>12. F[0] = start /\ \A k \in 0 .. n - 1 : F[k + 1] = Round(F[k], k)
  <2>1. F[0] = start
    BY <1>0, <1>11
  <2>2. ASSUME NEW k \in 0 .. n - 1 PROVE F[k + 1] = Round(F[k], k)
    <3>1. k + 1 \in 0 .. n /\ k + 1 # 0 /\ k + 1 - 1 = k
      BY <1>0
    <3>2. F[k + 1] = Round(F[k + 1 - 1], k + 1 - 1)
      BY <1>0, <1>11, <3>1
    <3> QED
      BY <3>1, <3>2
  <2> QED
    BY <2>1, <2>2
<1>13. PICK E : E = {k \in 0 .. n : F[k] = G[k]}
  OBVIOUS
<1>14. 0 \in E
  BY <1>0, <1>6, <1>12, <1>13
<1>15. ASSUME NEW k \in 0 .. n - 1, k \in E PROVE k + 1 \in E
  <2>1. F[k] = G[k] /\ k + 1 \in 0 .. n
    BY <1>0, <1>13, <1>15
  <2>2. F[k + 1] = G[k + 1]
    BY <1>7, <1>12, <2>1
  <2> QED
    BY <1>13, <2>1, <2>2
<1>16. n \in E
  <2>1. \A k \in 0 .. n : k \in E
    BY <1>0, <1>14, <1>15, Induction
  <2> QED
    BY <1>0, <2>1
<1>17. MoveData(s, p, from, to, length) = G[n]
  BY <1>2, <1>10, <1>13, <1>16
<1> QED
  BY <1>6, <1>7, <1>17

LEMMA DataMoved ==
  ASSUME NEW s, Sound(s), NEW p \in Procs, NEW from, NEW to, NEW length \in Nat,
         \A k \in 0 .. length - 1 : from + k \in Virtual /\ to + k \in Virtual,
         NEW t, t = MoveData(s, p, from, to, length)
  PROVE  Stirred(s, t, p)
<1>1. \A a \in SoundMachines, k \in 0 .. length - 1 : Stirred(a, MoveRound(a, p, from, to, k), p)
  BY MoveRoundIs, SoundSet
<1>2. \A a \in SoundMachines, k \in 0 .. length - 1 : MoveRound(a, p, from, to, k) \in SoundMachines
  BY <1>1, SoundSet DEF Stirred
<1>3. PICK S : S = SoundMachines
  OBVIOUS
<1>4. PICK start : start = s
  OBVIOUS
<1>5. PICK n \in Nat : n = length
  OBVIOUS
<1>6. MoveLoops(s, p, from, to, length, n, S, start)
  BY <1>2, <1>3, <1>4, <1>5, SoundSet DEF MoveLoops
<1>7. PICK G : MoveLoopRun(G, s, p, from, to, length, n, S, start)
  BY <1>6, MoveLoop
<1>8. /\ G \in [0 .. n -> SoundMachines] /\ G[0] = s /\ t = G[n]
      /\ \A k \in 0 .. n - 1 : G[k + 1] = MoveRound(G[k], p, from, to, k)
  BY <1>3, <1>4, <1>7 DEF MoveLoopRun
<1>9. \A k \in 0 .. n - 1 : Stirred(G[k], G[k + 1], p)
  BY <1>1, <1>5, <1>8
<1>10. PICK H : H = {k \in 0 .. n : Stirred(s, G[k], p)}
  OBVIOUS
<1>11. 0 \in H
  BY <1>8, <1>10, StirredSelf
<1>12. ASSUME NEW k \in 0 .. n - 1, k \in H PROVE k + 1 \in H
  <2>1. Stirred(s, G[k], p) /\ Stirred(G[k], G[k + 1], p) /\ k + 1 \in 0 .. n
    BY <1>9, <1>10, <1>12
  <2> QED
    BY <1>10, <2>1, StirredTwice
<1>13. n \in H
  <2>1. \A k \in 0 .. n : k \in H
    BY <1>11, <1>12, Induction
  <2> QED
    BY <2>1
<1> QED
  BY <1>8, <1>10, <1>13

\* A round of the loop that writes the program to the file.
ProgramRound(a, e, newsize, k, lucky) ==
  IF newsize + k < SZ THEN WriteBack(a, e, k, Prog, lucky) ELSE a

\* Only the file's contents and offset differ.
Rewritten(s, t) == SameMem(s, t) /\ t.file.ref = s.file.ref /\ (s.halted => t.halted)

\* The rounds of that loop stay in S.
ProgramLoops(s, e, newsize, lucky, n, S, start) ==
  /\ n \in Nat /\ n = newsize /\ start \in S /\ start = s
  /\ \A a \in S, k \in 0 .. n - 1 : ProgramRound(a, e, newsize, k, lucky) \in S

ProgramLoopRun(G, s, e, newsize, lucky, n, S, start) ==
  /\ G \in [0 .. n -> S] /\ G[0] = start
  /\ \A k \in 0 .. n - 1 : G[k + 1] = ProgramRound(G[k], e, newsize, k, lucky)
  /\ WriteProgram(s, e, newsize, lucky) = G[n]

\* Then the loop runs through S.
LEMMA ProgramLoop ==
  ASSUME NEW s, NEW e, NEW newsize, NEW lucky, NEW n, NEW S, NEW start, ProgramLoops(s, e, newsize, lucky, n, S, start)
  PROVE  \E G : ProgramLoopRun(G, s, e, newsize, lucky, n, S, start)
<1> DEFINE Round(a, k) == ProgramRound(a, e, newsize, k, lucky)
<1>0. n \in Nat /\ start \in S /\ n = newsize /\ start = s
  BY DEF ProgramLoops
<1>1. \A a \in S, k \in 0 .. n - 1 : Round(a, k) \in S
  BY DEF ProgramLoops
<1>2. WriteProgram(s, e, newsize, lucky)
        = (CHOOSE H : H = [k \in 0 .. n |-> IF k = 0 THEN start ELSE Round(H[k - 1], k - 1)])[n]
  BY <1>0 DEF WriteProgram, Loop, ProgramRound
<1> SUFFICES \E G : /\ G \in [0 .. n -> S] /\ G[0] = start
                    /\ \A k \in 0 .. n - 1 : G[k + 1] = Round(G[k], k)
                    /\ WriteProgram(s, e, newsize, lucky) = G[n]
  BY DEF ProgramLoopRun
<1> HIDE DEF Round
<1>3. PICK R : R = [x \in S \X (0 .. n - 1) |-> Round(x[1], x[2])]
  OBVIOUS
<1>4. R \in [S \X (0 .. n - 1) -> S]
  BY <1>1, <1>3
<1>5. PICK G : Course(G, n, S, start, R)
  BY <1>0, <1>4, Iterate
<1>6. G \in [0 .. n -> S] /\ G[0] = start
  BY <1>5 DEF Course
<1>7. ASSUME NEW k \in 0 .. n - 1 PROVE G[k + 1] = Round(G[k], k)
  <2>1. G[k + 1] = R[<<G[k], k>>] /\ <<G[k], k>> \in S \X (0 .. n - 1)
    BY <1>0, <1>5 DEF Course
  <2> QED
    BY <1>3, <2>1
<1>8. ASSUME NEW k \in 0 .. n, k # 0 PROVE G[k] = Round(G[k - 1], k - 1)
  <2>1. k - 1 \in 0 .. n - 1 /\ k - 1 + 1 = k
    BY <1>0, <1>8
  <2> QED
    BY <1>7, <2>1
<1>9. G = [k \in 0 .. n |-> IF k = 0 THEN start ELSE Round(G[k - 1], k - 1)]
  BY <1>0, <1>6, <1>8
<1>10. PICK F : F = CHOOSE H : H = [k \in 0 .. n |-> IF k = 0 THEN start ELSE Round(H[k - 1], k - 1)]
  OBVIOUS
<1>11. F = [k \in 0 .. n |-> IF k = 0 THEN start ELSE Round(F[k - 1], k - 1)]
  BY <1>9, <1>10
<1>12. F[0] = start /\ \A k \in 0 .. n - 1 : F[k + 1] = Round(F[k], k)
  <2>1. F[0] = start
    BY <1>0, <1>11
  <2>2. ASSUME NEW k \in 0 .. n - 1 PROVE F[k + 1] = Round(F[k], k)
    <3>1. k + 1 \in 0 .. n /\ k + 1 # 0 /\ k + 1 - 1 = k
      BY <1>0
    <3>2. F[k + 1] = Round(F[k + 1 - 1], k + 1 - 1)
      BY <1>0, <1>11, <3>1
    <3> QED
      BY <3>1, <3>2
  <2> QED
    BY <2>1, <2>2
<1>13. PICK E : E = {k \in 0 .. n : F[k] = G[k]}
  OBVIOUS
<1>14. 0 \in E
  BY <1>0, <1>6, <1>12, <1>13
<1>15. ASSUME NEW k \in 0 .. n - 1, k \in E PROVE k + 1 \in E
  <2>1. F[k] = G[k] /\ k + 1 \in 0 .. n
    BY <1>0, <1>13, <1>15
  <2>2. F[k + 1] = G[k + 1]
    BY <1>7, <1>12, <2>1
  <2> QED
    BY <1>13, <2>1, <2>2
<1>16. n \in E
  <2>1. \A k \in 0 .. n : k \in E
    BY <1>0, <1>14, <1>15, Induction
  <2> QED
    BY <1>0, <2>1
<1>17. WriteProgram(s, e, newsize, lucky) = G[n]
  BY <1>2, <1>10, <1>13, <1>16
<1> QED
  BY <1>6, <1>7, <1>17

LEMMA ProgramWritten ==
  ASSUME NEW s \in Machines, NEW e \in EntryRecs, NEW newsize \in Nat, NEW lucky,
         NEW t, t = WriteProgram(s, e, newsize, lucky)
  PROVE  Rewritten(s, t)
<1>1. ASSUME NEW a \in Machines, NEW k \in 0 .. newsize - 1
      PROVE  Rewritten(a, ProgramRound(a, e, newsize, k, lucky))
  <2>1. PICK b : b = ProgramRound(a, e, newsize, k, lucky)
    OBVIOUS
  <2>2. CASE newsize + k < SZ
    <3>1. PICK x \in Data : x = Prog
      BY DEF Data
    <3>2. b = WriteBack(a, e, k, x, lucky) /\ k \in Nat
      BY <2>1, <2>2, <3>1 DEF ProgramRound
    <3>3. SameMem(a, b) /\ b.file.ref = a.file.ref /\ (a.halted => b.halted)
      BY <3>2, WroteBack
    <3> QED
      BY <2>1, <3>3 DEF Rewritten
  <2>3. CASE ~(newsize + k < SZ)
    BY <2>3 DEF ProgramRound, Rewritten, SameMem
  <2> QED
    BY <2>2, <2>3
<1>2. \A a \in Machines, k \in 0 .. newsize - 1 : ProgramRound(a, e, newsize, k, lucky) \in Machines
  BY <1>1 DEF Rewritten, SameMem
<1>3. PICK S : S = Machines
  OBVIOUS
<1>4. PICK start : start = s
  OBVIOUS
<1>5. PICK n \in Nat : n = newsize
  OBVIOUS
<1>6. ProgramLoops(s, e, newsize, lucky, n, S, start)
  BY <1>2, <1>3, <1>4, <1>5 DEF ProgramLoops
<1>7. PICK G : ProgramLoopRun(G, s, e, newsize, lucky, n, S, start)
  BY <1>6, ProgramLoop
<1>8. /\ G \in [0 .. n -> Machines] /\ G[0] = s /\ t = G[n]
      /\ \A k \in 0 .. n - 1 : G[k + 1] = ProgramRound(G[k], e, newsize, k, lucky)
  BY <1>3, <1>4, <1>7 DEF ProgramLoopRun
<1>9. \A k \in 0 .. n - 1 : Rewritten(G[k], G[k + 1])
  BY <1>1, <1>5, <1>8
<1>10. PICK H : H = {k \in 0 .. n : Rewritten(s, G[k])}
  OBVIOUS
<1>11. 0 \in H
  BY <1>8, <1>10 DEF Rewritten, SameMem
<1>12. ASSUME NEW k \in 0 .. n - 1, k \in H PROVE k + 1 \in H
  <2>1. Rewritten(s, G[k]) /\ Rewritten(G[k], G[k + 1]) /\ k + 1 \in 0 .. n
    BY <1>9, <1>10, <1>12
  <2>2. Rewritten(s, G[k + 1])
    BY <2>1 DEF Rewritten, SameMem
  <2> QED
    BY <1>10, <2>1, <2>2
<1>13. n \in H
  <2>1. \A k \in 0 .. n : k \in H
    BY <1>11, <1>12, Induction
  <2> QED
    BY <2>1
<1> QED
  BY <1>8, <1>10, <1>13

\* Every entry of ns that has the file stands for one of ms.
FilesFrom(ms, ns) ==
  \E f : /\ f \in [1 .. Len(ns) -> 1 .. Len(ms)]
         /\ \A j, k \in 1 .. Len(ns) : f[j] = f[k] => j = k
         /\ \A j \in 1 .. Len(ns) : ns[j].file => ms[f[j]].file

\* wremap has changed p's mappings.
Remapped(s, t, p) ==
  /\ Sound(t) /\ Others(s, t, p) /\ t.file.ref = s.file.ref
  /\ t.proc[p].image = s.proc[p].image /\ t.proc[p].fd = s.proc[p].fd
  /\ \/ t.proc[p].state = "STUCK"
     \/ t.proc[p].state = s.proc[p].state /\ FilesFrom(s.proc[p].mmaps, t.proc[p].mmaps)

\* Entry i is replaced by a new first entry.
LEMMA Replaced ==
  ASSUME NEW ms \in Seq(EntryRecs), NEW i \in 1 .. Len(ms), NEW e \in EntryRecs, e.file = ms[i].file,
         NEW as \in Seq(EntryRecs), Stable(Pushed(e, ms), as), NEW ns, Without(as, ns, i + 1)
  PROVE  FilesFrom(ms, ns)
<1>0. PICK n \in Nat : n = Len(ms)
  OBVIOUS
<1>1. PICK q : q = Pushed(e, ms)
  OBVIOUS
<1>2. Len(q) = n + 1 /\ q[1] = e /\ \A j \in 1 .. n : q[j + 1] = ms[j]
  BY <1>0, <1>1, Prepended DEF Pushed
<1>3. Len(as) = n + 1 /\ \A j \in 1 .. n + 1 : as[j].file = q[j].file
  BY <1>1, <1>2 DEF Stable
<1>4. Len(ns) = n /\ \A j \in 1 .. n : ns[j] = IF j < i + 1 THEN as[j] ELSE as[j + 1]
  <2>1. Len(as) - 1 = n
    BY <1>3
  <2>2. /\ Len(ns) = Len(as) - 1
        /\ \A j \in 1 .. Len(as) - 1 : ns[j] = IF j < i + 1 THEN as[j] ELSE as[j + 1]
    BY DEF Without
  <2> QED
    BY <2>1, <2>2
<1>5. PICK f : f = [j \in 1 .. n |-> IF j = 1 THEN i ELSE IF j < i + 1 THEN j - 1 ELSE j]
  OBVIOUS
<1>6. i \in 1 .. n
  BY <1>0
<1>7. f \in [1 .. n -> 1 .. n]
  BY <1>5, <1>6
<1>8. \A j, k \in 1 .. n : f[j] = f[k] => j = k
  BY <1>5, <1>6
<1>9. ASSUME NEW j \in 1 .. n, ns[j].file PROVE ms[f[j]].file
  <2>1. CASE j = 1
    <3>0. 1 < i + 1 /\ 1 \in 1 .. n /\ 1 \in 1 .. n + 1
      BY <1>6
    <3>1. ns[j] = as[1] /\ f[j] = i
      BY <1>4, <1>5, <2>1, <3>0
    <3>2. as[1].file = e.file
      BY <1>2, <1>3, <3>0
    <3> QED
      BY <1>9, <3>1, <3>2
  <2>2. CASE j # 1 /\ j < i + 1
    <3>1. PICK k \in 1 .. n : k = j - 1
      BY <2>2
    <3>0. k + 1 = j /\ k + 1 \in 1 .. n + 1
      BY <3>1
    <3>4. f[j] = k
      BY <1>5, <2>2, <3>1
    <3>5. ns[j] = as[j]
      BY <1>4, <2>2
    <3>2. ns[j] = as[k + 1] /\ f[j] = k /\ k + 1 \in 1 .. n + 1
      BY <3>0, <3>4, <3>5
    <3>3. as[k + 1].file = ms[k].file
      BY <1>2, <1>3, <3>2
    <3> QED
      BY <1>9, <3>2, <3>3
  <2>3. CASE j # 1 /\ ~(j < i + 1)
    <3>0. j + 1 \in 1 .. n + 1
      OBVIOUS
    <3>4. f[j] = j
      BY <1>5, <2>3
    <3>5. ns[j] = as[j + 1]
      BY <1>4, <2>3
    <3>1. ns[j] = as[j + 1] /\ f[j] = j /\ j + 1 \in 1 .. n + 1
      BY <3>0, <3>4, <3>5
    <3>2. as[j + 1].file = ms[j].file
      BY <1>2, <1>3, <3>1
    <3> QED
      BY <1>9, <3>1, <3>2
  <2> QED
    BY <2>1, <2>2, <2>3
<1> QED
  BY <1>0, <1>4, <1>7, <1>8, <1>9 DEF FilesFrom

\* wremap to a new place.
LEMMA Moved ==
  ASSUME NEW s, Sound(s), NEW p \in Procs, s.proc[p].state = "RUNNABLE",
         NEW i \in 1 .. Len(s.proc[p].mmaps), NEW newsize \in Lengths,
         newsize > s.proc[p].mmaps[i].length, NEW lucky, NEW t, t = Move(s, p, i, newsize, lucky)
  PROVE  t = s \/ t.halted \/ Remapped(s, t, p)
<1>0. /\ s \in Machines /\ s.proc[p] \in ProcRecs /\ p \in Nat /\ newsize \in Nat /\ newsize >= 1
      /\ W \in Nat /\ MaxLength \in Nat /\ newsize <= MaxLength
  BY MachineIs, Sizes DEF Sound, Lengths
<1>1. PICK e \in EntryRecs : e = s.proc[p].mmaps[i]
  BY <1>0, ProcIs
<1>2. PICK addr : addr = FirstFit(s.proc[p].mmaps, newsize)
  OBVIOUS
<1>3. PICK g : g = NewPage(s)
  OBVIOUS
<1>4. PICK n : n = [e EXCEPT !.page = g, !.addr = addr, !.length = newsize, !.mapping_process = p]
  OBVIOUS
<1>5. PICK c : c = kalloc(s)
  OBVIOUS
<1>6. PICK as : as = Pushed(n, c.proc[p].mmaps)
  OBVIOUS
<1>7. PICK a : a = WithMmaps(c, p, as)
  OBVIOUS
<1>8. PICK d : d = MoveData(a, p, e.addr, addr, e.length)
  OBVIOUS
<1>9. PICK u : u = IF e.shared THEN WriteProgram(d, e, newsize, lucky) ELSE d
  OBVIOUS
<1>10. PICK ns : ns = RemoveAt(u.proc[p].mmaps, i + 1)
  OBVIOUS
<1>11. t = IF addr + newsize > W \/ Full(s) THEN s
           ELSE IF d.halted \/ d.proc[p].state = "STUCK" THEN d
           ELSE kfree(WithMmaps(u, p, ns), e.page)
  BY ZenonT(90), <1>1, <1>2, <1>3, <1>4, <1>5, <1>6, <1>7, <1>8, <1>9, <1>10 DEF Move, WithMmaps, Pushed
<1>12. CASE addr + newsize > W \/ Full(s)
  BY <1>11, <1>12
<1>13. CASE ~(addr + newsize > W \/ Full(s))
  <2>1. addr \in 0 .. W - 1 /\ addr + newsize <= W
    <3>1. addr \in 0 .. W
      <4>1. PICK T : T = {b \in 0 .. W : Free(s.proc[p].mmaps, b, newsize) \/ b + newsize > W}
        OBVIOUS
      <4>2. W \in T /\ T \in SUBSET Nat
        BY <1>0, <4>1
      <4>3. Min(T) \in T
        BY <4>2, MinIs
      <4> QED
        BY <1>2, <4>1, <4>3 DEF FirstFit
    <3> QED
      BY <1>0, <1>13, <3>1
  <2>2. /\ Sound(c) /\ Loose(c, g) /\ c.proc = s.proc /\ c.file = s.file /\ c.halted = s.halted
    BY <1>3, <1>5, <1>13, Alloc
  <2>3. n \in EntryRecs /\ n.page = g /\ n.file = e.file
    <3>1. g \in Pages
      BY <2>2 DEF Loose
    <3> QED
      BY <1>0, <1>4, <2>1, <3>1 DEF EntryRecs
  <2>4. /\ Sound(a) /\ a.proc[p].mmaps = as /\ a.proc[p].pte = c.proc[p].pte
        /\ Core(c.proc[p], a.proc[p]) /\ Others(c, a, p) /\ SameRest(c, a)
    <3>1. n \in EntryRecs /\ Loose(c, n.page) /\ Sound(c)
      BY <2>2, <2>3
    <3> QED
      BY <1>6, <1>7, <3>1, ListGrown
  <2>5. Stirred(a, d, p)
    <3>1. e.length \in Nat /\ e.addr \in Nat /\ e.length < newsize /\ \A k \in 0 .. e.length - 1 : e.addr + k \in Virtual
      BY <1>0, <1>1, EntryIs
    <3>2. \A k \in 0 .. e.length - 1 : addr + k \in Virtual
      BY <1>0, <2>1, <3>1 DEF Virtual
    <3> QED
      BY <1>8, <2>4, <3>1, <3>2, DataMoved
  <2>6. /\ Sound(d) /\ Others(s, d, p) /\ d.file.ref = s.file.ref /\ Stable(as, d.proc[p].mmaps)
        /\ d.proc[p].image = s.proc[p].image /\ d.proc[p].fd = s.proc[p].fd
        /\ d.proc[p].state \in {s.proc[p].state, "STUCK"}
    BY <2>2, <2>4, <2>5 DEF Stirred, Core, Others, SameRest
  <2>7. CASE d.halted \/ d.proc[p].state = "STUCK"
    <3>1. t = d
      BY <1>11, <1>13, <2>7
    <3> QED
      BY <2>6, <2>7, <3>1 DEF Remapped
  <2>8. CASE ~(d.halted \/ d.proc[p].state = "STUCK")
    <3>1. Rewritten(d, u)
      <4>0. d \in Machines
        BY <2>6 DEF Sound
      <4>1. CASE e.shared
        BY <1>0, <1>9, <4>0, <4>1, ProgramWritten
      <4>2. CASE ~e.shared
        BY <1>9, <4>0, <4>2 DEF Rewritten, SameMem
      <4> QED
        BY <4>1, <4>2
    <3>2. Sound(u) /\ u.proc = d.proc /\ u.file.ref = d.file.ref
      BY <2>6, <3>1, MemSound DEF Rewritten, SameMem
    <3>3. PICK ms : ms = s.proc[p].mmaps
      OBVIOUS
    <3>4. /\ ms \in Seq(EntryRecs) /\ i \in 1 .. Len(ms) /\ Len(ms) \in Nat
          /\ n.file = ms[i].file /\ as = Pushed(n, ms) /\ e = ms[i]
      BY <1>0, <1>1, <1>6, <2>2, <2>3, <3>3, ProcIs
    <3>5. Len(as) = Len(ms) + 1 /\ as[i + 1] = e
      BY <2>3, <3>4, Prepended DEF Pushed
    <3>6. PICK bs : bs = u.proc[p].mmaps
      OBVIOUS
    <3>7. /\ bs \in Seq(EntryRecs) /\ Stable(as, bs) /\ Len(bs) = Len(ms) + 1 /\ bs[i + 1].page = e.page
          /\ i + 1 \in 1 .. Len(bs)
      <4>1. u.proc[p] \in ProcRecs
        BY <3>2, MachineIs DEF Sound
      <4>2. bs \in Seq(EntryRecs)
        BY <3>6, <4>1, ProcIs
      <4>3. Stable(as, bs)
        BY <2>6, <3>2, <3>6
      <4>4. i + 1 \in 1 .. Len(as)
        BY <3>4, <3>5
      <4> QED
        BY <3>5, <4>2, <4>3, <4>4 DEF Stable
    <3>8. ns \in Lists /\ Without(bs, ns, i + 1)
      <4>1. PICK j : j = i + 1
        OBVIOUS
      <4>2. bs \in Seq(EntryRecs) /\ j \in 1 .. Len(bs) /\ ns = RemoveAt(bs, j)
        BY <1>10, <3>6, <3>7, <4>1
      <4>3. ns \in Lists /\ Without(bs, ns, j)
        BY <4>2, ListWithout
      <4> QED
        BY <4>1, <4>3
    <3>9. PICK b : b = WithMmaps(u, p, ns)
      OBVIOUS
    <3>10. /\ Sound(b) /\ b.proc[p].mmaps = ns /\ b.proc[p].pte = u.proc[p].pte
           /\ Core(u.proc[p], b.proc[p]) /\ Others(u, b, p) /\ SameRest(u, b)
           /\ Loose(b, e.page)
      <4>1. PICK j : j = i + 1
        OBVIOUS
      <4>2. j \in 1 .. Len(u.proc[p].mmaps) /\ Without(u.proc[p].mmaps, ns, j) /\ ns \in Lists
        BY <3>6, <3>7, <3>8, <4>1
      <4>3. /\ Sound(b) /\ b.proc[p].mmaps = ns /\ b.proc[p].pte = u.proc[p].pte
            /\ Core(u.proc[p], b.proc[p]) /\ Others(u, b, p) /\ SameRest(u, b)
            /\ Loose(b, u.proc[p].mmaps[j].page)
        BY <3>2, <3>9, <4>2, ListShrunk
      <4> QED
        BY <3>6, <3>7, <4>1, <4>3
    <3>11. t = kfree(b, e.page)
      BY <1>11, <1>13, <2>8, <3>9
    <3>12. Sound(t) /\ t.proc = b.proc /\ t.file = b.file
      <4>1. PICK h : h = e.page
        OBVIOUS
      <4>2. Loose(b, h) /\ t = kfree(b, h) /\ Sound(b)
        BY <3>10, <3>11, <4>1
      <4> QED
        BY <4>2, Release
    <3>13. FilesFrom(ms, ns)
      <4>1. Stable(Pushed(n, ms), bs)
        BY <3>4, <3>7
      <4> QED
        BY <2>3, <3>4, <3>7, <3>8, <4>1, Replaced
    <3>14. t.proc[p].state = s.proc[p].state /\ t.file.ref = s.file.ref
           /\ t.proc[p].image = s.proc[p].image /\ t.proc[p].fd = s.proc[p].fd /\ Others(s, t, p)
      BY <2>6, <2>8, <3>2, <3>10, <3>12 DEF Core, Others, SameRest
    <3> QED
      BY <3>3, <3>10, <3>12, <3>13, <3>14 DEF Remapped
  <2> QED
    BY <2>7, <2>8
<1> QED
  BY <1>12, <1>13

\* A list whose entries keep their pages.
LEMMA ListKept ==
  ASSUME NEW s, Sound(s), NEW p \in Procs, NEW ns \in Lists, Stable(s.proc[p].mmaps, ns),
         NEW t, t = WithMmaps(s, p, ns)
  PROVE  /\ Sound(t) /\ t.proc[p].mmaps = ns /\ t.proc[p].pte = s.proc[p].pte
         /\ Core(s.proc[p], t.proc[p]) /\ Others(s, t, p) /\ SameRest(s, t)
<1>0. s \in Machines /\ s.proc[p] \in ProcRecs
  BY MachineIs DEF Sound
<1>4. /\ t \in Machines /\ t.proc[p].mmaps = ns
      /\ t.proc[p].state = s.proc[p].state /\ t.proc[p].parent = s.proc[p].parent
      /\ t.proc[p].image = s.proc[p].image /\ t.proc[p].pte = s.proc[p].pte
      /\ t.proc[p].fd = s.proc[p].fd
      /\ Others(s, t, p) /\ SameRest(s, t)
  BY <1>0, MmapsSet
<1>5. PICK z : z = t.proc[p]
  OBVIOUS
<1>6. Neat(s.proc[p]) /\ Alike(s.proc[p], z)
  BY <1>4, <1>5 DEF Sound, Apart, Alike, Stable
<1>7. Neat(z) /\ \A h : Has(z, h) <=> Has(s.proc[p], h)
  BY <1>6, AlikeUse
<1>8. Sound(t)
  <2>1. /\ t \in Machines /\ t.proc[p] = z /\ (\A q \in Procs \ {p} : t.proc[q] = s.proc[q])
        /\ t.free = s.free
    BY <1>4, <1>5 DEF Others, SameRest
  <2>2. \A h \in Pages : Has(z, h) => Has(s.proc[p], h) \/ Loose(s, h)
    BY <1>7
  <2> QED
    BY <1>7, <2>1, <2>2, Edited
<1> QED
  BY <1>4, <1>8 DEF Core

\* Entry i gets another length.
LEMMA Resized ==
  ASSUME NEW ms \in Seq(EntryRecs), NEW i \in 1 .. Len(ms), NEW l \in Lengths,
         NEW ns, ns = [ms EXCEPT ![i].length = l]
  PROVE  ns \in Lists /\ Stable(ms, ns) /\ FilesFrom(ms, ns)
<1>1. \A j \in 1 .. Len(ms) : ms[j] \in EntryRecs
  OBVIOUS
<1>3. PICK e : e = [ms[i] EXCEPT !.length = l]
  OBVIOUS
<1>4. e \in EntryRecs /\ e.page = ms[i].page /\ e.file = ms[i].file
  <2>1. ms[i] \in EntryRecs
    BY <1>1
  <2> QED
    BY <1>3, <2>1 DEF EntryRecs
<1>5. ns = [ms EXCEPT ![i] = e]
  BY <1>3
<1>6. /\ ns \in Seq(EntryRecs) /\ Len(ns) = Len(ms) /\ ns[i] = e
      /\ \A j \in 1 .. Len(ms) : j # i => ns[j] = ms[j]
  BY <1>4, <1>5, ExceptSeq
<1>7. \A j \in 1 .. Len(ms) : ns[j].page = ms[j].page /\ ns[j].file = ms[j].file
  BY <1>4, <1>6
<1>8. PICK n : n = Len(ms)
  OBVIOUS
<1>9. PICK f : f = [j \in 1 .. n |-> j]
  OBVIOUS
<1>10. f \in [1 .. n -> 1 .. n] /\ \A j \in 1 .. n : f[j] = j
  BY <1>9
<1>11. FilesFrom(ms, ns)
  BY <1>6, <1>7, <1>8, <1>10 DEF FilesFrom
<1> QED
  BY <1>6, <1>7, <1>11 DEF Stable, Lists

\* wremap.
LEMMA Wremapped ==
  ASSUME NEW s, Sound(s), NEW p \in Procs, s.proc[p].state = "RUNNABLE",
         NEW i \in 1 .. Len(s.proc[p].mmaps), NEW newsize \in Lengths, NEW maymove, NEW lucky,
         NEW t, t = sys_wremap(s, p, i, newsize, maymove, lucky)
  PROVE  t = s \/ t.halted \/ Remapped(s, t, p)
<1>0. s \in Machines /\ s.proc[p] \in ProcRecs
  BY MachineIs DEF Sound
<1>1. CASE t = s
  BY <1>1
<1>2. CASE t = [s EXCEPT !.proc[p].mmaps[i].length = newsize]
  <2>1. PICK ms : ms = s.proc[p].mmaps
    OBVIOUS
  <2>2. PICK ns : ns = [ms EXCEPT ![i].length = newsize]
    OBVIOUS
  <2>3. ms \in Seq(EntryRecs) /\ i \in 1 .. Len(ms)
    BY <1>0, <2>1, ProcIs
  <2>4. ns \in Lists /\ Stable(ms, ns) /\ FilesFrom(ms, ns)
    BY <2>2, <2>3, Resized
  <2>5. t = WithMmaps(s, p, ns)
    BY <1>2, <2>1, <2>2 DEF WithMmaps
  <2>6. /\ Sound(t) /\ t.proc[p].mmaps = ns /\ t.proc[p].pte = s.proc[p].pte
        /\ Core(s.proc[p], t.proc[p]) /\ Others(s, t, p) /\ SameRest(s, t)
    <3>1. ns \in Lists /\ Stable(s.proc[p].mmaps, ns)
      BY <2>1, <2>4
    <3> QED
      BY <2>5, <3>1, ListKept
  <2> QED
    BY <2>1, <2>4, <2>6 DEF Remapped, Core, SameRest
<1>3. CASE t = Move(s, p, i, newsize, lucky) /\ newsize > s.proc[p].mmaps[i].length
  BY <1>3, Moved
<1> QED
  BY <1>1, <1>2, <1>3 DEF sys_wremap

-----------------------------------------------------------------------------
(* fork *)

\* The entries of list bs are entries of as, or copies of entries of ms.
Grown(ms, as, bs) ==
  \A j \in 1 .. Len(bs) : \/ \E k \in 1 .. Len(as) : bs[j] = as[k]
                          \/ /\ bs[j].mapping_process = 0
                             /\ \E k \in 1 .. Len(ms) : bs[j].file = ms[k].file

\* Process np gets copies of entries of ms, or is given up.
Copied(a, b, np, ms) ==
  /\ Sound(b) /\ Others(a, b, np) /\ b.file = a.file /\ b.data = a.data /\ b.halted = a.halted
  /\ b.proc[np].pte = a.proc[np].pte /\ b.proc[np].fd = a.proc[np].fd
  /\ \/ b.proc[np].state = a.proc[np].state /\ b.proc[np].image = a.proc[np].image
     \/ b.proc[np].state = "UNUSED" /\ b.proc[np].image = 0
  /\ Grown(ms, a.proc[np].mmaps, b.proc[np].mmaps)

LEMMA CopiedSelf ==
  ASSUME NEW a, Sound(a), NEW np, NEW ms PROVE Copied(a, a, np, ms)
BY DEF Copied, Others, Grown

LEMMA CopiedTwice ==
  ASSUME NEW a, NEW b, NEW np, NEW ms, Copied(a, b, np, ms), NEW c, Copied(b, c, np, ms)
  PROVE  Copied(a, c, np, ms)
<1>1. Grown(ms, a.proc[np].mmaps, c.proc[np].mmaps)
  <2> SUFFICES ASSUME NEW j \in 1 .. Len(c.proc[np].mmaps)
               PROVE  \/ \E k \in 1 .. Len(a.proc[np].mmaps) : c.proc[np].mmaps[j] = a.proc[np].mmaps[k]
                      \/ /\ c.proc[np].mmaps[j].mapping_process = 0
                         /\ \E k \in 1 .. Len(ms) : c.proc[np].mmaps[j].file = ms[k].file
    BY DEF Grown
  <2>1. CASE \E k \in 1 .. Len(b.proc[np].mmaps) : c.proc[np].mmaps[j] = b.proc[np].mmaps[k]
    BY <2>1 DEF Copied, Grown
  <2> QED
    BY <2>1 DEF Copied, Grown
<1> QED
  BY <1>1 DEF Copied, Others

\* A slot that is given up loses its image.
GiveUp(s, np) == [s EXCEPT !.proc[np].state = "UNUSED", !.proc[np].image = 0]

LEMMA GivenUp ==
  ASSUME NEW s, Sound(s), NEW np \in Procs, NEW t, t = GiveUp(s, np)
  PROVE  /\ Sound(t) /\ Others(s, t, np) /\ SameRest(s, t)
         /\ t.proc[np].pte = s.proc[np].pte /\ t.proc[np].fd = s.proc[np].fd
         /\ t.proc[np].mmaps = s.proc[np].mmaps
         /\ t.proc[np].state = "UNUSED" /\ t.proc[np].image = 0
<1>0. s \in Machines /\ "UNUSED" \in States
  BY DEF Sound, States
<1>1. PICK b : b = WithState(s, np, "UNUSED")
  OBVIOUS
<1>2. /\ b \in Machines /\ b.proc[np].state = "UNUSED"
      /\ b.proc[np].parent = s.proc[np].parent /\ b.proc[np].image = s.proc[np].image
      /\ b.proc[np].mmaps = s.proc[np].mmaps
      /\ b.proc[np].pte = s.proc[np].pte /\ b.proc[np].fd = s.proc[np].fd
      /\ Others(s, b, np) /\ SameRest(s, b)
  BY <1>0, <1>1, StateSet
<1>3. t = WithImage(b, np, 0)
  <2>1. t = [b EXCEPT !.proc[np].image = 0]
    BY <1>1 DEF GiveUp, WithState
  <2> QED
    BY <2>1 DEF WithImage
<1>4. PICK x \in {0} \cup Pages : x = 0
  OBVIOUS
<1>5. /\ t \in Machines /\ t.proc[np].image = x
      /\ t.proc[np].state = b.proc[np].state /\ t.proc[np].parent = b.proc[np].parent
      /\ t.proc[np].mmaps = b.proc[np].mmaps
      /\ t.proc[np].pte = b.proc[np].pte /\ t.proc[np].fd = b.proc[np].fd
      /\ Others(b, t, np) /\ SameRest(b, t)
  BY <1>2, <1>3, <1>4, ImageIs
<1>6. PICK r \in ProcRecs : r = s.proc[np]
  BY <1>0, MachineIs
<1>7. PICK z : z = t.proc[np]
  OBVIOUS
<1>8. Neat(r) /\ z.image = x /\ z.pte = r.pte /\ z.mmaps = r.mmaps /\ (x # 0 => ~Has(r, x))
  BY <1>2, <1>4, <1>5, <1>6, <1>7 DEF Sound, Apart
<1>9. Neat(z) /\ \A h \in Pages : Has(z, h) => Has(r, h) \/ h = x
  BY <1>8, ImageSet
<1>10. Sound(t)
  <2>1. /\ t \in Machines /\ t.proc[np] = z /\ (\A q \in Procs \ {np} : t.proc[q] = s.proc[q])
        /\ t.free = s.free
    BY <1>2, <1>5, <1>7 DEF Others, SameRest
  <2>2. \A h \in Pages : Has(z, h) => Has(s.proc[np], h) \/ Loose(s, h)
    BY <1>4, <1>6, <1>9, Sizes
  <2> QED
    BY <1>9, <2>1, <2>2, Edited
<1> QED
  BY <1>2, <1>4, <1>5, <1>10 DEF Others, SameRest

\* A copy in front of the list.
LEMMA GrownFront ==
  ASSUME NEW ms, NEW k \in 1 .. Len(ms), NEW xs \in Lists, NEW c \in EntryRecs,
         c.mapping_process = 0, c.file = ms[k].file, NEW ys, ys = Pushed(c, xs)
  PROVE  Grown(ms, xs, ys)
<1>1. xs \in Seq(EntryRecs) /\ Len(xs) \in Nat
  BY DEF Lists
<1>2. Len(ys) = Len(xs) + 1 /\ ys[1] = c /\ \A j \in 1 .. Len(xs) : ys[j + 1] = xs[j]
  BY <1>1, Prepended DEF Pushed
<1>3. ASSUME NEW j \in 1 .. Len(ys), j # 1 PROVE \E i \in 1 .. Len(xs) : ys[j] = xs[i]
  <2>1. j - 1 \in 1 .. Len(xs) /\ j - 1 + 1 = j
    BY <1>1, <1>2, <1>3
  <2> QED
    BY <1>2, <2>1
<1> QED
  BY <1>2, <1>3 DEF Grown

\* A round of the loop.
LEMMA EntryCopied ==
  ASSUME NEW s, Sound(s), NEW p, NEW np \in Procs, NEW ms \in Seq(EntryRecs),
         NEW k \in 1 .. Len(ms), NEW t, t = CopyEntry(s, p, np, ms[k])
  PROVE  Copied(s, t, np, ms)
<1>1. PICK e \in EntryRecs : e = ms[k]
  OBVIOUS
<1>2. CASE t = s
  BY <1>2, CopiedSelf
<1>3. CASE Full(s) /\ t = GiveUp(s, np)
  <2>1. /\ Sound(t) /\ Others(s, t, np) /\ SameRest(s, t)
        /\ t.proc[np].pte = s.proc[np].pte /\ t.proc[np].fd = s.proc[np].fd
        /\ t.proc[np].mmaps = s.proc[np].mmaps
        /\ t.proc[np].state = "UNUSED" /\ t.proc[np].image = 0
    BY <1>3, GivenUp
  <2> QED
    BY <2>1 DEF Copied, Grown, SameRest
<1>4. CASE ~Full(s) /\ t = GiveUp(kalloc(s), np)
  <2>1. PICK a : a = kalloc(s)
    OBVIOUS
  <2>2. /\ Sound(a) /\ a.proc = s.proc /\ a.data = s.data /\ a.file = s.file
        /\ a.halted = s.halted
    BY <1>4, <2>1, Alloc
  <2>3. /\ Sound(t) /\ Others(a, t, np) /\ SameRest(a, t)
        /\ t.proc[np].pte = a.proc[np].pte /\ t.proc[np].fd = a.proc[np].fd
        /\ t.proc[np].mmaps = a.proc[np].mmaps
        /\ t.proc[np].state = "UNUSED" /\ t.proc[np].image = 0
    BY <1>4, <2>1, <2>2, GivenUp
  <2> QED
    BY <2>2, <2>3 DEF Copied, Grown, SameRest, Others
<1>5. CASE ~Full(s) /\ t = [kalloc(s) EXCEPT !.proc[np].mmaps =
                              <<[e EXCEPT !.page = NewPage(s), !.mapping_process = 0]>> \o @]
  <2>1. PICK a, g : a = kalloc(s) /\ g = NewPage(s)
    OBVIOUS
  <2>2. /\ Sound(a) /\ a.proc = s.proc /\ a.data = s.data /\ a.file = s.file
        /\ a.halted = s.halted /\ Loose(a, g)
    BY <1>5, <2>1, Alloc
  <2>3. PICK c : c = [e EXCEPT !.page = g, !.mapping_process = 0]
    OBVIOUS
  <2>4. c \in EntryRecs /\ c.page = g /\ c.mapping_process = 0 /\ c.file = e.file
    <3>1. g \in Pages
      BY <2>2 DEF Loose
    <3> QED
      BY <2>3, <3>1 DEF EntryRecs
  <2>5. PICK xs, ys : xs = a.proc[np].mmaps /\ ys = Pushed(c, xs)
    OBVIOUS
  <2>6. t = WithMmaps(a, np, ys)
    BY <1>5, <2>1, <2>3, <2>5 DEF Pushed, WithMmaps
  <2>7. /\ Sound(t) /\ t.proc[np].mmaps = ys /\ t.proc[np].pte = a.proc[np].pte
        /\ Core(a.proc[np], t.proc[np]) /\ Others(a, t, np) /\ SameRest(a, t)
    <3>1. Loose(a, c.page) /\ ys = Pushed(c, a.proc[np].mmaps)
      BY <2>2, <2>4, <2>5
    <3> QED
      BY <2>2, <2>4, <2>6, <3>1, ListGrown
  <2>8. Grown(ms, xs, ys)
    <3>1. xs \in Lists
      BY <2>2, <2>5, MachineIs, ProcIs DEF Sound
    <3> QED
      BY <1>1, <2>4, <2>5, <3>1, GrownFront
  <2> QED
    BY <2>2, <2>5, <2>7, <2>8 DEF Copied, SameRest, Others, Core
<1> QED
  BY <1>1, <1>2, <1>3, <1>4, <1>5 DEF CopyEntry, GiveUp

\* The whole loop.
CopyAll(s, p, np, ms) == Loop(Len(ms), s, LAMBDA a, k : CopyEntry(a, p, np, ms[k + 1]))

\* The rounds of that loop stay in S.
CopyLoops(s, p, np, ms, n, S, start) ==
  /\ n \in Nat /\ n = Len(ms) /\ start \in S /\ start = s
  /\ \A a \in S, k \in 0 .. n - 1 : CopyEntry(a, p, np, ms[k + 1]) \in S

CopyLoopRun(G, s, p, np, ms, n, S, start) ==
  /\ G \in [0 .. n -> S] /\ G[0] = start
  /\ \A k \in 0 .. n - 1 : G[k + 1] = CopyEntry(G[k], p, np, ms[k + 1])
  /\ CopyAll(s, p, np, ms) = G[n]

\* Then the loop runs through S.
LEMMA CopyLoop ==
  ASSUME NEW s, NEW p, NEW np, NEW ms, NEW n, NEW S, NEW start, CopyLoops(s, p, np, ms, n, S, start)
  PROVE  \E G : CopyLoopRun(G, s, p, np, ms, n, S, start)
<1> DEFINE Round(a, k) == CopyEntry(a, p, np, ms[k + 1])
<1>0. n \in Nat /\ start \in S /\ n = Len(ms) /\ start = s
  BY DEF CopyLoops
<1>1. \A a \in S, k \in 0 .. n - 1 : Round(a, k) \in S
  BY DEF CopyLoops
<1>2. CopyAll(s, p, np, ms)
        = (CHOOSE H : H = [k \in 0 .. n |-> IF k = 0 THEN start ELSE Round(H[k - 1], k - 1)])[n]
  BY <1>0 DEF CopyAll, Loop
<1> SUFFICES \E G : /\ G \in [0 .. n -> S] /\ G[0] = start
                    /\ \A k \in 0 .. n - 1 : G[k + 1] = Round(G[k], k)
                    /\ CopyAll(s, p, np, ms) = G[n]
  BY DEF CopyLoopRun
<1> HIDE DEF Round
<1>3. PICK R : R = [x \in S \X (0 .. n - 1) |-> Round(x[1], x[2])]
  OBVIOUS
<1>4. R \in [S \X (0 .. n - 1) -> S]
  BY <1>1, <1>3
<1>5. PICK G : Course(G, n, S, start, R)
  BY <1>0, <1>4, Iterate
<1>6. G \in [0 .. n -> S] /\ G[0] = start
  BY <1>5 DEF Course
<1>7. ASSUME NEW k \in 0 .. n - 1 PROVE G[k + 1] = Round(G[k], k)
  <2>1. G[k + 1] = R[<<G[k], k>>] /\ <<G[k], k>> \in S \X (0 .. n - 1)
    BY <1>0, <1>5 DEF Course
  <2> QED
    BY <1>3, <2>1
<1>8. ASSUME NEW k \in 0 .. n, k # 0 PROVE G[k] = Round(G[k - 1], k - 1)
  <2>1. k - 1 \in 0 .. n - 1 /\ k - 1 + 1 = k
    BY <1>0, <1>8
  <2> QED
    BY <1>7, <2>1
<1>9. G = [k \in 0 .. n |-> IF k = 0 THEN start ELSE Round(G[k - 1], k - 1)]
  BY <1>0, <1>6, <1>8
<1>10. PICK F : F = CHOOSE H : H = [k \in 0 .. n |-> IF k = 0 THEN start ELSE Round(H[k - 1], k - 1)]
  OBVIOUS
<1>11. F = [k \in 0 .. n |-> IF k = 0 THEN start ELSE Round(F[k - 1], k - 1)]
  BY <1>9, <1>10
<1>12. F[0] = start /\ \A k \in 0 .. n - 1 : F[k + 1] = Round(F[k], k)
  <2>1. F[0] = start
    BY <1>0, <1>11
  <2>2. ASSUME NEW k \in 0 .. n - 1 PROVE F[k + 1] = Round(F[k], k)
    <3>1. k + 1 \in 0 .. n /\ k + 1 # 0 /\ k + 1 - 1 = k
      BY <1>0
    <3>2. F[k + 1] = Round(F[k + 1 - 1], k + 1 - 1)
      BY <1>0, <1>11, <3>1
    <3> QED
      BY <3>1, <3>2
  <2> QED
    BY <2>1, <2>2
<1>13. PICK E : E = {k \in 0 .. n : F[k] = G[k]}
  OBVIOUS
<1>14. 0 \in E
  BY <1>0, <1>6, <1>12, <1>13
<1>15. ASSUME NEW k \in 0 .. n - 1, k \in E PROVE k + 1 \in E
  <2>1. F[k] = G[k] /\ k + 1 \in 0 .. n
    BY <1>0, <1>13, <1>15
  <2>2. F[k + 1] = G[k + 1]
    BY <1>7, <1>12, <2>1
  <2> QED
    BY <1>13, <2>1, <2>2
<1>16. n \in E
  <2>1. \A k \in 0 .. n : k \in E
    BY <1>0, <1>14, <1>15, Induction
  <2> QED
    BY <1>0, <2>1
<1>17. CopyAll(s, p, np, ms) = G[n]
  BY <1>2, <1>10, <1>13, <1>16
<1> QED
  BY <1>6, <1>7, <1>17

LEMMA AllCopied ==
  ASSUME NEW s, Sound(s), NEW p, NEW np \in Procs, NEW ms \in Seq(EntryRecs),
         NEW t, t = CopyAll(s, p, np, ms)
  PROVE  Copied(s, t, np, ms)
<1>1. PICK S : S = {a \in SoundMachines : Copied(s, a, np, ms)}
  OBVIOUS
<1>2. PICK start, n : start = s /\ n = Len(ms) /\ n \in Nat
  OBVIOUS
<1>3. start \in S
  BY <1>1, <1>2, CopiedSelf, SoundSet
<1>4. ASSUME NEW a \in S, NEW k \in 0 .. n - 1 PROVE CopyEntry(a, p, np, ms[k + 1]) \in S
  <2>1. PICK j, b : j = k + 1 /\ b = CopyEntry(a, p, np, ms[j])
    OBVIOUS
  <2>2. j \in 1 .. Len(ms) /\ Sound(a) /\ Copied(s, a, np, ms)
    BY <1>1, <1>2, <2>1, SoundSet
  <2>3. Copied(a, b, np, ms)
    BY <2>1, <2>2, EntryCopied
  <2>4. Copied(s, b, np, ms)
    BY <2>2, <2>3, CopiedTwice
  <2>5. Sound(b)
    BY <2>4 DEF Copied
  <2> QED
    BY <1>1, <2>1, <2>4, <2>5, SoundSet
<1>5. CopyLoops(s, p, np, ms, n, S, start)
  BY <1>2, <1>3, <1>4 DEF CopyLoops
<1>6. PICK G : CopyLoopRun(G, s, p, np, ms, n, S, start)
  BY <1>5, CopyLoop
<1>7. t = G[n] /\ G[n] \in S
  <2>1. n \in 0 .. n
    BY <1>2
  <2> QED
    BY <1>6, <2>1 DEF CopyLoopRun
<1> QED
  BY <1>1, <1>7

\* A new state of a process.
LEMMA StateSound ==
  ASSUME NEW s, Sound(s), NEW p \in Procs, NEW x \in States, NEW t, t = WithState(s, p, x)
  PROVE  /\ Sound(t) /\ \A h : Loose(s, h) => Loose(t, h)
         /\ t.proc[p].state = x /\ t.proc[p].parent = s.proc[p].parent
         /\ t.proc[p].image = s.proc[p].image /\ t.proc[p].mmaps = s.proc[p].mmaps
         /\ t.proc[p].pte = s.proc[p].pte /\ t.proc[p].fd = s.proc[p].fd
         /\ Others(s, t, p) /\ SameRest(s, t)
<1>0. s \in Machines
  BY DEF Sound
<1>1. /\ t \in Machines /\ t.proc[p].state = x /\ t.proc[p].parent = s.proc[p].parent
      /\ t.proc[p].image = s.proc[p].image /\ t.proc[p].mmaps = s.proc[p].mmaps
      /\ t.proc[p].pte = s.proc[p].pte /\ t.proc[p].fd = s.proc[p].fd
      /\ Others(s, t, p) /\ SameRest(s, t)
  BY <1>0, StateSet
<1>2. \A q \in Procs : /\ t.proc[q].image = s.proc[q].image /\ t.proc[q].pte = s.proc[q].pte
                       /\ t.proc[q].mmaps = s.proc[q].mmaps
  BY <1>1 DEF Others
<1>3. Sound(t) /\ \A h : Loose(s, h) => Loose(t, h)
  BY <1>1, <1>2, SameUse DEF SameRest
<1> QED
  BY <1>1, <1>3

\* A new image, or none.
LEMMA ImageSound ==
  ASSUME NEW s, Sound(s), NEW p \in Procs, NEW g \in {0} \cup Pages, g # 0 => Loose(s, g),
         NEW t, t = WithImage(s, p, g)
  PROVE  /\ Sound(t) /\ (s.proc[p].image # 0 => Loose(t, s.proc[p].image))
         /\ t.proc[p].image = g
         /\ t.proc[p].state = s.proc[p].state /\ t.proc[p].parent = s.proc[p].parent
         /\ t.proc[p].mmaps = s.proc[p].mmaps
         /\ t.proc[p].pte = s.proc[p].pte /\ t.proc[p].fd = s.proc[p].fd
         /\ Others(s, t, p) /\ SameRest(s, t)
<1>0. s \in Machines
  BY DEF Sound
<1>1. /\ t \in Machines /\ t.proc[p].image = g
      /\ t.proc[p].state = s.proc[p].state /\ t.proc[p].parent = s.proc[p].parent
      /\ t.proc[p].mmaps = s.proc[p].mmaps
      /\ t.proc[p].pte = s.proc[p].pte /\ t.proc[p].fd = s.proc[p].fd
      /\ Others(s, t, p) /\ SameRest(s, t)
  BY <1>0, ImageIs
<1>2. PICK r \in ProcRecs : r = s.proc[p]
  BY <1>0, MachineIs
<1>3. PICK z : z = t.proc[p]
  OBVIOUS
<1>4. Neat(r) /\ z.image = g /\ z.pte = r.pte /\ z.mmaps = r.mmaps /\ (g # 0 => ~Has(r, g))
  BY <1>1, <1>2, <1>3 DEF Sound, Apart, Loose
<1>5. /\ Neat(z) /\ (r.image # 0 => ~Has(z, r.image))
      /\ \A h \in Pages : Has(z, h) => Has(r, h) \/ h = g
  BY <1>4, ImageSet
<1>6. /\ \A q \in Procs \ {p} : t.proc[q] = s.proc[q]
      /\ t.free = s.free /\ t.proc[p] = z
  BY <1>1, <1>3 DEF Others, SameRest
<1>7. \A h \in Pages : Has(z, h) => Has(s.proc[p], h) \/ Loose(s, h)
  BY <1>2, <1>5, Sizes
<1>8. /\ Sound(t)
      /\ \A h \in Pages : h \notin s.free /\ ~Has(z, h) /\ (Has(s.proc[p], h) \/ Loose(s, h)) => Loose(t, h)
  BY <1>1, <1>5, <1>6, <1>7, Edited
<1>9. ASSUME r.image # 0 PROVE Loose(t, r.image)
  <2>1. r.image \in Pages /\ Has(r, r.image)
    BY <1>2, <1>9, ProcIs DEF Has
  <2>2. r.image \notin s.free
    BY <1>2, <2>1 DEF Sound, Apart
  <2> QED
    BY <1>2, <1>5, <1>8, <1>9, <2>1, <2>2
<1> QED
  BY <1>1, <1>2, <1>8, <1>9

\* A new page table: the pages of the old one are lost.
LEMMA PtesWiped ==
  ASSUME NEW s, Sound(s), NEW p \in Procs, NEW t, t = WithPte(s, p, Unused.pte)
  PROVE  /\ Sound(t) /\ \A v \in Virtual : t.proc[p].pte[v] = NoPte
         /\ t.proc[p].state = s.proc[p].state /\ t.proc[p].parent = s.proc[p].parent
         /\ t.proc[p].image = s.proc[p].image
         /\ t.proc[p].mmaps = s.proc[p].mmaps /\ t.proc[p].fd = s.proc[p].fd
         /\ Others(s, t, p) /\ SameRest(s, t)
<1>0. s \in Machines
  BY DEF Sound
<1>1. PICK x \in [Virtual -> PteRecs] : x = Unused.pte /\ \A v \in Virtual : x[v] = NoPte
  BY NoPtes
<1>2. /\ t \in Machines /\ t.proc[p].pte = x
      /\ t.proc[p].state = s.proc[p].state /\ t.proc[p].parent = s.proc[p].parent
      /\ t.proc[p].image = s.proc[p].image
      /\ t.proc[p].mmaps = s.proc[p].mmaps /\ t.proc[p].fd = s.proc[p].fd
      /\ Others(s, t, p) /\ SameRest(s, t)
  BY <1>0, <1>1, PteSet
<1>3. PICK r \in ProcRecs : r = s.proc[p]
  BY <1>0, MachineIs
<1>4. PICK z : z = t.proc[p]
  OBVIOUS
<1>5. /\ Neat(r) /\ z.image = r.image /\ z.mmaps = r.mmaps
      /\ \A w \in Virtual : z.pte[w].page \in {0, r.pte[w].page}
  <2>1. Neat(r) /\ z.image = r.image /\ z.mmaps = r.mmaps /\ z.pte = x
    BY <1>1, <1>2, <1>3, <1>4 DEF Sound, Apart
  <2>2. NoPte.page = 0
    BY DEF NoPte
  <2> QED
    BY <1>1, <2>1, <2>2
<1>6. Neat(z) /\ \A h \in Pages : Has(z, h) => Has(r, h)
  <2>1. Len(z.mmaps) = Len(r.mmaps) /\ \A i \in 1 .. Len(r.mmaps) : z.mmaps[i].page = r.mmaps[i].page
    BY <1>5
  <2> QED
    BY <1>5, <2>1, PtesCleared
<1>7. /\ \A q \in Procs \ {p} : t.proc[q] = s.proc[q]
      /\ t.free = s.free /\ t.proc[p] = z
  BY <1>2, <1>4 DEF Others, SameRest
<1>8. Sound(t)
  BY <1>2, <1>3, <1>6, <1>7, Edited
<1> QED
  BY <1>1, <1>2, <1>8

\* allocproc and copyuvm: process np has the new image g and no page in the window.
Embryo(s, np, g) == [s EXCEPT !.proc[np].state = "EMBRYO", !.proc[np].image = g,
                              !.proc[np].pte = Unused.pte]

LEMMA EmbryoIs ==
  ASSUME NEW s, Sound(s), NEW np \in Procs, NEW g, Loose(s, g), NEW t, t = Embryo(s, np, g)
  PROVE  /\ Sound(t) /\ \A v \in Virtual : t.proc[np].pte[v] = NoPte
         /\ t.proc[np].state = "EMBRYO" /\ t.proc[np].image = g
         /\ t.proc[np].mmaps = s.proc[np].mmaps /\ t.proc[np].fd = s.proc[np].fd
         /\ Others(s, t, np) /\ SameRest(s, t)
<1>1. PICK a, b : a = WithState(s, np, "EMBRYO") /\ b = WithImage(a, np, g)
  OBVIOUS
<1>2. "EMBRYO" \in States /\ g \in {0} \cup Pages
  BY DEF States, Loose
<1>3. /\ Sound(a) /\ Loose(a, g) /\ a.proc[np].state = "EMBRYO"
      /\ a.proc[np].mmaps = s.proc[np].mmaps /\ a.proc[np].fd = s.proc[np].fd
      /\ Others(s, a, np) /\ SameRest(s, a)
  BY <1>1, <1>2, StateSound
<1>4. /\ Sound(b) /\ b.proc[np].image = g /\ b.proc[np].state = a.proc[np].state
      /\ b.proc[np].mmaps = a.proc[np].mmaps /\ b.proc[np].fd = a.proc[np].fd
      /\ Others(a, b, np) /\ SameRest(a, b)
  BY <1>1, <1>2, <1>3, ImageSound
<1>5. t = WithPte(b, np, Unused.pte)
  BY <1>1 DEF Embryo, WithPte, WithImage, WithState
<1>6. /\ Sound(t) /\ \A v \in Virtual : t.proc[np].pte[v] = NoPte
      /\ t.proc[np].state = b.proc[np].state /\ t.proc[np].image = b.proc[np].image
      /\ t.proc[np].mmaps = b.proc[np].mmaps /\ t.proc[np].fd = b.proc[np].fd
      /\ Others(b, t, np) /\ SameRest(b, t)
  BY <1>4, <1>5, PtesWiped
<1> QED
  BY <1>3, <1>4, <1>6 DEF Others, SameRest

\* The child starts.
Started(s, np, p, fd) == [s EXCEPT !.proc[np].state = "RUNNABLE", !.proc[np].parent = p,
                                   !.proc[np].fd = fd]

LEMMA StartedIs ==
  ASSUME NEW s, Sound(s), NEW np \in Procs, NEW p \in Procs, NEW fd \in BOOLEAN,
         NEW t, t = Started(s, np, p, fd)
  PROVE  /\ Sound(t) /\ t.proc[np].state = "RUNNABLE" /\ t.proc[np].fd = fd
         /\ t.proc[np].image = s.proc[np].image /\ t.proc[np].mmaps = s.proc[np].mmaps
         /\ t.proc[np].pte = s.proc[np].pte /\ Others(s, t, np) /\ SameRest(s, t)
<1>1. PICK r \in ProcRecs : r = s.proc[np]
  BY MachineIs DEF Sound
<1>2. PICK z : z = [r EXCEPT !.state = "RUNNABLE", !.parent = p, !.fd = fd]
  OBVIOUS
<1>3. p \in Nat
  BY Sizes
<1>4. /\ z \in ProcRecs /\ z.state = "RUNNABLE" /\ z.fd = fd /\ z.image = r.image
      /\ z.mmaps = r.mmaps /\ z.pte = r.pte
  BY <1>2, <1>3 DEF ProcRecs, States
<1>5. PICK f : f = [s.proc EXCEPT ![np] = z]
  OBVIOUS
<1>6. f \in [Procs -> ProcRecs] /\ f[np] = z /\ \A q \in Procs \ {np} : f[q] = s.proc[q]
  BY <1>4, <1>5, MachineIs DEF Sound
<1>7. t = [s EXCEPT !.proc = f]
  BY <1>1, <1>2, <1>5 DEF Started
<1>8. t \in Machines /\ t.proc = f /\ SameRest(s, t)
  BY <1>6, <1>7 DEF Machines, SameRest, Sound
<1>9. \A q \in Procs : /\ t.proc[q].image = s.proc[q].image /\ t.proc[q].pte = s.proc[q].pte
                       /\ t.proc[q].mmaps = s.proc[q].mmaps
  BY <1>1, <1>4, <1>6, <1>8
<1>10. Sound(t)
  BY <1>8, <1>9, SameUse DEF SameRest
<1> QED
  BY <1>1, <1>4, <1>6, <1>8, <1>10 DEF Others

\* What fork does: the child np is started or the slot is left unused.
Forked(s, t, p, np) ==
  /\ Sound(t) /\ Others(s, t, np) /\ s.proc[np].state = "UNUSED" /\ np # p
  /\ t.data = s.data /\ t.halted = s.halted
  /\ t.file.page = s.file.page /\ t.file.size = s.file.size
  /\ Grown(s.proc[p].mmaps, s.proc[np].mmaps, t.proc[np].mmaps)
  /\ \A v \in Virtual : t.proc[np].pte[v] = NoPte
  /\ \/ /\ t.proc[np].state = "UNUSED" /\ t.proc[np].fd = s.proc[np].fd
        /\ t.file.ref = s.file.ref
     \/ /\ t.proc[np].state = "RUNNABLE" /\ t.proc[np].image # 0 /\ t.proc[np].fd = s.proc[p].fd
        /\ t.file.ref = IF s.proc[p].fd THEN s.file.ref + 1 ELSE s.file.ref

\* fork, once the loop has left state u.
ForkOf(s, p, np, u) ==
  IF u.proc[np].state = "UNUSED" THEN u
  ELSE IF s.proc[p].fd THEN filedup(Started(u, np, p, s.proc[p].fd))
  ELSE Started(u, np, p, s.proc[p].fd)

LEMMA ForkIs ==
  ASSUME NEW s, NEW p, NEW np, np = Min({q \in Procs : s.proc[q].state = "UNUSED"})
  PROVE  fork(s, p)
           = ForkOf(s, p, np, CopyAll(Embryo(kalloc(s), np, NewPage(s)), p, np, s.proc[p].mmaps))
<1> DEFINE x == Min({q \in Procs : s.proc[q].state = "UNUSED"})
<1>1. fork(s, p)
        = ForkOf(s, p, x, CopyAll(Embryo(kalloc(s), x, NewPage(s)), p, x, s.proc[p].mmaps))
  BY DEF fork, ForkOf, CopyAll, Loop, Embryo, Started
<1> HIDE DEF x
<1>2. x = np
  BY DEF x
<1> QED
  BY <1>1, <1>2

LEMMA ForkedIs ==
  ASSUME NEW s, Sound(s), ~Full(s), NEW p \in Procs, s.proc[p].state = "RUNNABLE",
         \E q \in Procs : s.proc[q].state = "UNUSED", NEW t, t = fork(s, p), ~t.halted
  PROVE  \E np \in Procs : Forked(s, t, p, np)
<1>0. s \in Machines /\ s.proc[p] \in ProcRecs
  BY MachineIs DEF Sound
<1>1. PICK T : T = {q \in Procs : s.proc[q].state = "UNUSED"}
  OBVIOUS
<1>2. PICK np : np = Min(T)
  OBVIOUS
<1>3. np \in Procs /\ s.proc[np].state = "UNUSED" /\ np # p
  <2>1. T \in SUBSET Nat /\ T # {}
    BY <1>1, Sizes
  <2>2. np \in T
    BY <1>2, <2>1, MinIs
  <2> QED
    BY <1>1, <2>2
<1>4. PICK g, a, ms, fd : g = NewPage(s) /\ a = kalloc(s) /\ ms = s.proc[p].mmaps /\ fd = s.proc[p].fd
  OBVIOUS
<1>5. PICK b, u, c : /\ b = Embryo(a, np, g) /\ u = CopyAll(b, p, np, ms)
                     /\ c = Started(u, np, p, fd)
  OBVIOUS
<1>6. t = IF u.proc[np].state = "UNUSED" THEN u ELSE IF fd THEN filedup(c) ELSE c
  <2>1. t = ForkOf(s, p, np, CopyAll(Embryo(kalloc(s), np, NewPage(s)), p, np, s.proc[p].mmaps))
    BY <1>1, <1>2, ForkIs
  <2>2. u = CopyAll(Embryo(kalloc(s), np, NewPage(s)), p, np, s.proc[p].mmaps)
    BY <1>4, <1>5
  <2> QED
    BY <1>4, <1>5, <2>1, <2>2 DEF ForkOf
<1>7. /\ Sound(a) /\ Loose(a, g) /\ a.proc = s.proc
      /\ a.data = s.data /\ a.file = s.file /\ a.halted = s.halted
  BY <1>4, Alloc
<1>8. /\ Sound(b) /\ \A v \in Virtual : b.proc[np].pte[v] = NoPte
      /\ b.proc[np].state = "EMBRYO" /\ b.proc[np].image = g
      /\ b.proc[np].mmaps = a.proc[np].mmaps /\ b.proc[np].fd = a.proc[np].fd
      /\ Others(a, b, np) /\ SameRest(a, b)
  BY <1>3, <1>5, <1>7, EmbryoIs
<1>9. ms \in Seq(EntryRecs) /\ fd \in BOOLEAN /\ g # 0
  <2>1. ms \in Seq(EntryRecs) /\ fd \in BOOLEAN
    BY <1>0, <1>4, ProcIs
  <2> QED
    BY <1>7, <2>1, Sizes DEF Loose
<1>10. Copied(b, u, np, ms)
  BY <1>3, <1>5, <1>8, <1>9, AllCopied
<1>11. /\ Sound(u) /\ Others(s, u, np) /\ u.data = s.data /\ u.halted = s.halted /\ u.file = s.file
       /\ u.proc[np].pte = b.proc[np].pte /\ u.proc[np].fd = s.proc[np].fd
       /\ Grown(ms, s.proc[np].mmaps, u.proc[np].mmaps)
       /\ \/ u.proc[np].state = "EMBRYO" /\ u.proc[np].image # 0
          \/ u.proc[np].state = "UNUSED"
  BY <1>7, <1>8, <1>9, <1>10 DEF Copied, Others, SameRest
<1>12. \A v \in Virtual : u.proc[np].pte[v] = NoPte
  BY <1>8, <1>11
<1>13. CASE u.proc[np].state = "UNUSED"
  <2>1. t = u
    BY <1>6, <1>13
  <2> QED
    BY <1>3, <1>4, <1>11, <1>12, <1>13, <2>1 DEF Forked
<1>14. CASE u.proc[np].state # "UNUSED"
  <2>1. /\ Sound(c) /\ c.proc[np].state = "RUNNABLE" /\ c.proc[np].fd = fd
        /\ c.proc[np].image = u.proc[np].image /\ c.proc[np].mmaps = u.proc[np].mmaps
        /\ c.proc[np].pte = u.proc[np].pte /\ Others(u, c, np) /\ SameRest(u, c)
    BY SMTT(60), <1>3, <1>5, <1>9, <1>11, StartedIs
  <2>2. /\ Others(s, c, np) /\ c.data = s.data /\ c.halted = s.halted /\ c.file = s.file
        /\ c.proc[np].image # 0
    BY <1>11, <1>14, <2>1 DEF Others, SameRest
  <2>3. /\ SameMem(c, t) /\ t.halted = c.halted
        /\ t.file.ref = (IF fd THEN c.file.ref + 1 ELSE c.file.ref)
        /\ t.file.page = c.file.page /\ t.file.size = c.file.size
    <3>0. c \in Machines
      BY <2>1 DEF Sound
    <3>1. CASE fd
      <4>1. t = filedup(c)
        BY <1>6, <1>14, <3>1
      <4> QED
        BY <3>0, <3>1, <4>1, Dup
    <3>2. CASE ~fd
      <4>1. t = c
        BY <1>6, <1>14, <3>2
      <4> QED
        BY <3>0, <3>2, <4>1 DEF SameMem
    <3> QED
      BY <3>1, <3>2
  <2>4. Sound(t) /\ t.proc = c.proc /\ t.data = c.data
    BY <2>1, <2>3, MemSound DEF SameMem
  <2>5. \A v \in Virtual : t.proc[np].pte[v] = NoPte
    BY <1>12, <2>1, <2>4
  <2>6. Grown(s.proc[p].mmaps, s.proc[np].mmaps, t.proc[np].mmaps)
    BY <1>4, <1>11, <2>1, <2>4
  <2>7. /\ t.proc[np].state = "RUNNABLE" /\ t.proc[np].image # 0 /\ t.proc[np].fd = s.proc[p].fd
        /\ t.file.ref = IF s.proc[p].fd THEN s.file.ref + 1 ELSE s.file.ref
    BY <1>4, <2>1, <2>2, <2>3, <2>4
  <2>8. Others(s, t, np)
    BY <2>2, <2>4 DEF Others
  <2>9. t.data = s.data /\ t.halted = s.halted /\ t.file.page = s.file.page /\ t.file.size = s.file.size
    BY <2>2, <2>3, <2>4
  <2> QED
    BY <1>3, <2>4, <2>5, <2>6, <2>7, <2>8, <2>9 DEF Forked
<1> QED
  BY <1>13, <1>14

-----------------------------------------------------------------------------
(* exit, exec and wait *)

\* One round of exit's loop over the pages of its first entry e.
ExitRound(a, p, e, k, lucky) ==
  LET x == a.proc[p].pte[e.addr + k] IN
  IF x = NoPte THEN a
  ELSE DropPage(IF e.shared /\ x.w
                THEN IF e.file THEN filewrite(a, a.data[x.page]) ELSE IF lucky THEN a ELSE panic(a)
                ELSE a, p, e.addr + k)

\* The whole loop.
ExitClear(s, p, e, lucky) == Loop(e.length, s, LAMBDA a, i : ExitRound(a, p, e, i, lucky))

LEMMA ExitStepIs ==
  ASSUME NEW a, Sound(a), NEW p \in Procs, NEW e \in EntryRecs, NEW k \in 0 .. e.length - 1,
         NEW lucky, NEW b, b = ExitRound(a, p, e, k, lucky)
  PROVE  Dropping(a, b, p, e.addr + k)
<1>0. a \in Machines /\ a.proc[p] \in ProcRecs /\ a.data \in [Pages -> Data]
  BY MachineIs DEF Sound
<1>1. PICK v \in Virtual : v = e.addr + k
  BY EntryIs
<1>2. PICK x \in PteRecs : x = a.proc[p].pte[v]
  BY <1>0, ProcIs
<1>3. PICK c : c = IF e.shared /\ x.w
                   THEN IF e.file THEN filewrite(a, a.data[x.page]) ELSE IF lucky THEN a ELSE panic(a)
                   ELSE a
  OBVIOUS
<1>4. b = IF a.proc[p].pte[v] = NoPte THEN a ELSE DropPage(c, p, v)
  BY <1>1, <1>2, <1>3 DEF ExitRound
<1>5. SameMem(a, c) /\ c.file.ref = a.file.ref /\ (a.halted => c.halted)
  <2>1. CASE c = a
    BY <1>0, <2>1 DEF SameMem
  <2>2. CASE c = panic(a)
    BY <1>0, <2>2, Panic
  <2>3. CASE x.w /\ c = filewrite(a, a.data[x.page])
    <3>1. a.data[x.page] \in Data
      BY <1>0, <2>3, PteIs
    <3>2. PICK y \in Data : y = a.data[x.page]
      BY <3>1
    <3>3. Wrote(a, c, a.file.off, y)
      BY <1>0, <2>3, <3>2, Written
    <3> QED
      BY <3>3 DEF Wrote, FileWrote
  <2> QED
    BY <1>3, <2>1, <2>2, <2>3
<1>6. Dropping(a, b, p, v)
  BY <1>4, <1>5, DropRound
<1> QED
  BY <1>1, <1>6

\* The rounds of that loop stay in S.
ExitLoops(s, p, e, lucky, n, S, start) ==
  /\ n \in Nat /\ n = e.length /\ start \in S /\ start = s
  /\ \A a \in S, k \in 0 .. n - 1 : ExitRound(a, p, e, k, lucky) \in S

ExitLoopRun(G, s, p, e, lucky, n, S, start) ==
  /\ G \in [0 .. n -> S] /\ G[0] = start
  /\ \A k \in 0 .. n - 1 : G[k + 1] = ExitRound(G[k], p, e, k, lucky)
  /\ ExitClear(s, p, e, lucky) = G[n]

\* Then the loop runs through S.
LEMMA ExitLoop ==
  ASSUME NEW s, NEW p, NEW e, NEW lucky, NEW n, NEW S, NEW start, ExitLoops(s, p, e, lucky, n, S, start)
  PROVE  \E G : ExitLoopRun(G, s, p, e, lucky, n, S, start)
<1> DEFINE Round(a, k) == ExitRound(a, p, e, k, lucky)
<1>0. n \in Nat /\ start \in S /\ n = e.length /\ start = s
  BY DEF ExitLoops
<1>1. \A a \in S, k \in 0 .. n - 1 : Round(a, k) \in S
  BY DEF ExitLoops
<1>2. ExitClear(s, p, e, lucky)
        = (CHOOSE H : H = [k \in 0 .. n |-> IF k = 0 THEN start ELSE Round(H[k - 1], k - 1)])[n]
  BY <1>0 DEF ExitClear, Loop
<1> SUFFICES \E G : /\ G \in [0 .. n -> S] /\ G[0] = start
                    /\ \A k \in 0 .. n - 1 : G[k + 1] = Round(G[k], k)
                    /\ ExitClear(s, p, e, lucky) = G[n]
  BY DEF ExitLoopRun
<1> HIDE DEF Round
<1>3. PICK R : R = [x \in S \X (0 .. n - 1) |-> Round(x[1], x[2])]
  OBVIOUS
<1>4. R \in [S \X (0 .. n - 1) -> S]
  BY <1>1, <1>3
<1>5. PICK G : Course(G, n, S, start, R)
  BY <1>0, <1>4, Iterate
<1>6. G \in [0 .. n -> S] /\ G[0] = start
  BY <1>5 DEF Course
<1>7. ASSUME NEW k \in 0 .. n - 1 PROVE G[k + 1] = Round(G[k], k)
  <2>1. G[k + 1] = R[<<G[k], k>>] /\ <<G[k], k>> \in S \X (0 .. n - 1)
    BY <1>0, <1>5 DEF Course
  <2> QED
    BY <1>3, <2>1
<1>8. ASSUME NEW k \in 0 .. n, k # 0 PROVE G[k] = Round(G[k - 1], k - 1)
  <2>1. k - 1 \in 0 .. n - 1 /\ k - 1 + 1 = k
    BY <1>0, <1>8
  <2> QED
    BY <1>7, <2>1
<1>9. G = [k \in 0 .. n |-> IF k = 0 THEN start ELSE Round(G[k - 1], k - 1)]
  BY <1>0, <1>6, <1>8
<1>10. PICK F : F = CHOOSE H : H = [k \in 0 .. n |-> IF k = 0 THEN start ELSE Round(H[k - 1], k - 1)]
  OBVIOUS
<1>11. F = [k \in 0 .. n |-> IF k = 0 THEN start ELSE Round(F[k - 1], k - 1)]
  BY <1>9, <1>10
<1>12. F[0] = start /\ \A k \in 0 .. n - 1 : F[k + 1] = Round(F[k], k)
  <2>1. F[0] = start
    BY <1>0, <1>11
  <2>2. ASSUME NEW k \in 0 .. n - 1 PROVE F[k + 1] = Round(F[k], k)
    <3>1. k + 1 \in 0 .. n /\ k + 1 # 0 /\ k + 1 - 1 = k
      BY <1>0
    <3>2. F[k + 1] = Round(F[k + 1 - 1], k + 1 - 1)
      BY <1>0, <1>11, <3>1
    <3> QED
      BY <3>1, <3>2
  <2> QED
    BY <2>1, <2>2
<1>13. PICK E : E = {k \in 0 .. n : F[k] = G[k]}
  OBVIOUS
<1>14. 0 \in E
  BY <1>0, <1>6, <1>12, <1>13
<1>15. ASSUME NEW k \in 0 .. n - 1, k \in E PROVE k + 1 \in E
  <2>1. F[k] = G[k] /\ k + 1 \in 0 .. n
    BY <1>0, <1>13, <1>15
  <2>2. F[k + 1] = G[k + 1]
    BY <1>7, <1>12, <2>1
  <2> QED
    BY <1>13, <2>1, <2>2
<1>16. n \in E
  <2>1. \A k \in 0 .. n : k \in E
    BY <1>0, <1>14, <1>15, Induction
  <2> QED
    BY <1>0, <2>1
<1>17. ExitClear(s, p, e, lucky) = G[n]
  BY <1>2, <1>10, <1>13, <1>16
<1> QED
  BY <1>6, <1>7, <1>17

LEMMA ExitCleared ==
  ASSUME NEW s, Sound(s), NEW p \in Procs, NEW e \in EntryRecs, NEW lucky,
         NEW t, t = ExitClear(s, p, e, lucky)
  PROVE  Emptied(s, t, p, e.addr, e.length)
<1>1. PICK n \in Nat : n = e.length
  BY EntryIs
<1>2. e.addr \in Nat /\ \A k \in 0 .. n - 1 : e.addr + k \in Virtual
  BY <1>1, EntryIs
<1>3. \A a \in SoundMachines, k \in 0 .. n - 1 :
        Dropping(a, ExitRound(a, p, e, k, lucky), p, e.addr + k)
  BY <1>1, ExitStepIs, SoundSet
<1>4. \A a \in SoundMachines, k \in 0 .. n - 1 : ExitRound(a, p, e, k, lucky) \in SoundMachines
  BY <1>3, SoundSet DEF Dropping
<1>5. PICK S, start : S = SoundMachines /\ start = s
  OBVIOUS
<1>6. ExitLoops(s, p, e, lucky, n, S, start)
  BY <1>1, <1>4, <1>5, SoundSet DEF ExitLoops
<1>7. PICK G : ExitLoopRun(G, s, p, e, lucky, n, S, start)
  BY <1>6, ExitLoop
<1>8. /\ G \in [0 .. n -> SoundMachines] /\ G[0] = s /\ t = G[n]
      /\ \A k \in 0 .. n - 1 : G[k + 1] = ExitRound(G[k], p, e, k, lucky)
  BY <1>5, <1>7 DEF ExitLoopRun
<1>9. \A k \in 0 .. n - 1 : e.addr + k \in Virtual /\ Dropping(G[k], G[k + 1], p, e.addr + k)
  BY <1>2, <1>3, <1>8
<1>10. Sound(G[0]) /\ e.addr \in Nat
  BY <1>2, <1>8
<1>11. \A k \in 0 .. n : Emptied(G[0], G[k], p, e.addr, k)
  BY <1>9, <1>10, DropCourse
<1> QED
  BY <1>1, <1>8, <1>11

\* What one step of exit's loop does to its first entry e.
Departed(s, t, p, e) ==
  /\ Sound(t) /\ Core(s.proc[p], t.proc[p]) /\ Others(s, t, p)
  /\ \/ t.proc[p].mmaps = s.proc[p].mmaps /\ t.file.ref = s.file.ref
     \/ /\ Without(s.proc[p].mmaps, t.proc[p].mmaps, 1)
        /\ t.file.ref = IF e.file THEN s.file.ref - 1 ELSE s.file.ref

LEMMA ExitUnmapIs ==
  ASSUME NEW s, NEW p, NEW e, e = Head(s.proc[p].mmaps), NEW lucky
  PROVE  ExitUnmap(s, p, lucky)
           = IF ~e.shared THEN ExitClear(s, p, e, lucky)
             ELSE Pop(IF e.file THEN fileclose(ExitClear(s, p, e, lucky))
                                ELSE ExitClear(s, p, e, lucky), p, e)
<1> DEFINE x == Head(s.proc[p].mmaps)
<1>1. ExitUnmap(s, p, lucky)
        = IF ~x.shared THEN ExitClear(s, p, x, lucky)
          ELSE Pop(IF x.file THEN fileclose(ExitClear(s, p, x, lucky))
                             ELSE ExitClear(s, p, x, lucky), p, x)
  BY DEF ExitUnmap, ExitClear, ExitRound, Loop
<1> HIDE DEF x
<1>2. x = e
  BY DEF x
<1> QED
  BY <1>1, <1>2

LEMMA ExitUnmapped ==
  ASSUME NEW s, Sound(s), NEW p \in Procs, s.proc[p].mmaps # << >>, NEW lucky,
         NEW t, t = ExitUnmap(s, p, lucky)
  PROVE  t.halted \/ Departed(s, t, p, s.proc[p].mmaps[1])
<1>0. s \in Machines /\ s.proc[p] \in ProcRecs /\ s.file.ref \in Int
  BY MachineIs, FileIs DEF Sound
<1>1. PICK ms \in Seq(EntryRecs) : ms = s.proc[p].mmaps /\ ms # << >>
  BY <1>0, ProcIs
<1>2. PICK ns : ns = Tail(ms)
  OBVIOUS
<1>3. /\ ns \in Seq(EntryRecs) /\ Len(ns) = Len(ms) - 1 /\ 1 \in 1 .. Len(ms) /\ Head(ms) = ms[1]
      /\ \A j \in 1 .. Len(ms) - 1 : ns[j] = ms[j + 1]
  BY <1>1, <1>2, TailIs
<1>4. PICK e \in EntryRecs : e = ms[1]
  BY <1>1, <1>3
<1>5. e.file \in BOOLEAN /\ e.shared \in BOOLEAN
  BY EntryIs
<1>6. PICK u : u = ExitClear(s, p, e, lucky)
  OBVIOUS
<1>7. t = IF ~e.shared THEN u ELSE Pop(IF e.file THEN fileclose(u) ELSE u, p, e)
  BY <1>1, <1>3, <1>4, <1>6, ExitUnmapIs
<1>8. Emptied(s, u, p, e.addr, e.length)
  BY <1>6, ExitCleared
<1>9. CASE ~e.shared
  <2>1. t = u
    BY <1>7, <1>9
  <2> QED
    BY <1>8, <2>1 DEF Emptied, Departed
<1>10. CASE e.shared
  <2>1. PICK c : c = IF e.file THEN fileclose(u) ELSE u
    OBVIOUS
  <2>2. u \in Machines /\ u.file.ref = s.file.ref /\ Vacated(s, u, p, e)
    BY <1>8, VacatedShared DEF Emptied, Sound
  <2>3. /\ Vacated(s, c, p, e)
        /\ c.halted \/ c.file.ref = IF e.file THEN s.file.ref - 1 ELSE s.file.ref
    <3>1. CASE ~e.file
      <4>1. c = u
        BY <2>1, <3>1
      <4> QED
        BY <2>2, <3>1, <4>1
    <3>2. CASE e.file
      <4>1. c = fileclose(u)
        BY <2>1, <3>2
      <4>2. /\ SameMem(u, c)
            /\ \/ c.halted
               \/ c.file.ref = u.file.ref - 1
        BY <2>2, <4>1, Close
      <4>3. Vacated(s, c, p, e)
        BY <2>2, <4>2, VacatedMem
      <4> QED
        BY <2>2, <3>2, <4>2, <4>3
    <3> QED
      BY <1>5, <3>1, <3>2
  <2>4. t = kfree(WithMmaps(c, p, ns), e.page)
    <3>1. c.proc[p].mmaps = ms
      BY <1>1, <2>3 DEF Vacated
    <3>2. t = Pop(c, p, e)
      BY <1>7, <1>10, <2>1
    <3> QED
      BY <1>2, <3>1, <3>2 DEF Pop, WithMmaps
  <2>5. 1 \in 1 .. Len(s.proc[p].mmaps) /\ e = s.proc[p].mmaps[1] /\ ns \in Lists
    BY <1>1, <1>3, <1>4 DEF Lists
  <2>6. Without(s.proc[p].mmaps, ns, 1)
    <3>1. ASSUME NEW j \in 1 .. Len(ms) - 1 PROVE ~(j < 1)
      OBVIOUS
    <3>2. Without(ms, ns, 1)
      BY <1>3, <3>1 DEF Without
    <3> QED
      BY <1>1, <3>2
  <2>7. Gone(s, c, t, p, ns, e)
    BY <2>3, <2>4, <2>5, <2>6, EntryGone
  <2> QED
    BY <1>1, <1>4, <2>3, <2>6, <2>7 DEF Gone, Departed
<1> QED
  BY <1>1, <1>4, <1>5, <1>9, <1>10

\* What the rest of exit does.
Exited(s, t, p) ==
  /\ Sound(t) /\ t.proc[p].state = "ZOMBIE" /\ ~t.proc[p].fd
  /\ \A q \in Procs : /\ t.proc[q].image = s.proc[q].image /\ t.proc[q].pte = s.proc[q].pte
                      /\ t.proc[q].mmaps = s.proc[q].mmaps
  /\ \A q \in Procs \ {p} : t.proc[q].state = s.proc[q].state /\ t.proc[q].fd = s.proc[q].fd
  /\ t.file.ref = IF s.proc[p].fd THEN s.file.ref - 1 ELSE s.file.ref

LEMMA ExitedIs ==
  ASSUME NEW s, Sound(s), NEW p \in Procs, NEW t, t = ExitRest(s, p)
  PROVE  t.halted \/ Exited(s, t, p)
<1>0. s \in Machines /\ s.proc \in [Procs -> ProcRecs] /\ s.file.ref \in Int /\ initproc \in Nat
  BY MachineIs, FileIs DEF Sound, initproc
<1>1. PICK u : u = IF s.proc[p].fd THEN fileclose(s) ELSE s
  OBVIOUS
<1>2. /\ SameMem(s, u)
      /\ u.halted \/ u.file.ref = IF s.proc[p].fd THEN s.file.ref - 1 ELSE s.file.ref
  <2>1. CASE ~s.proc[p].fd
    BY <1>0, <1>1, <2>1 DEF SameMem
  <2>2. CASE s.proc[p].fd
    <3>1. u = fileclose(s)
      BY <1>1, <2>2
    <3> QED
      BY <1>0, <2>2, <3>1, Close
  <2> QED
    BY <2>1, <2>2
<1>3. PICK f : f = [q \in Procs |->
                      IF q = p THEN [u.proc[q] EXCEPT !.state = "ZOMBIE", !.fd = FALSE]
                      ELSE IF u.proc[q].parent = p THEN [u.proc[q] EXCEPT !.parent = initproc]
                      ELSE u.proc[q]]
  OBVIOUS
<1>4. t = [u EXCEPT !.proc = f]
  BY <1>1, <1>3 DEF ExitRest
<1>5. ASSUME NEW q \in Procs
      PROVE  /\ f[q] \in ProcRecs /\ f[q].image = s.proc[q].image /\ f[q].pte = s.proc[q].pte
             /\ f[q].mmaps = s.proc[q].mmaps
             /\ IF q = p THEN f[q].state = "ZOMBIE" /\ f[q].fd = FALSE
                ELSE f[q].state = s.proc[q].state /\ f[q].fd = s.proc[q].fd
  <2>1. PICK r \in ProcRecs : r = s.proc[q] /\ u.proc[q] = r
    BY <1>0, <1>2 DEF SameMem
  <2>2. f[q] = IF q = p THEN [r EXCEPT !.state = "ZOMBIE", !.fd = FALSE]
               ELSE IF r.parent = p THEN [r EXCEPT !.parent = initproc] ELSE r
    BY <1>3, <2>1
  <2>3. CASE q = p
    <3>1. f[q] = [r EXCEPT !.state = "ZOMBIE", !.fd = FALSE]
      BY <2>2, <2>3
    <3> QED
      BY <2>1, <2>3, <3>1 DEF ProcRecs, States
  <2>4. CASE q # p /\ r.parent = p
    <3>1. f[q] = [r EXCEPT !.parent = initproc]
      BY <2>2, <2>4
    <3> QED
      BY <1>0, <2>1, <2>4, <3>1 DEF ProcRecs
  <2>5. CASE q # p /\ r.parent # p
    BY <2>1, <2>2, <2>5
  <2> QED
    BY <2>3, <2>4, <2>5
<1>6. f \in [Procs -> ProcRecs]
  BY <1>3, <1>5
<1>7. t \in Machines /\ t.proc = f /\ t.free = s.free /\ t.file = u.file /\ t.halted = u.halted
  BY <1>2, <1>4, <1>6 DEF SameMem, Machines
<1>8. \A q \in Procs : /\ t.proc[q].image = s.proc[q].image /\ t.proc[q].pte = s.proc[q].pte
                       /\ t.proc[q].mmaps = s.proc[q].mmaps
  BY <1>5, <1>7
<1>9. Sound(t)
  BY <1>7, <1>8, SameUse
<1> QED
  BY <1>2, <1>5, <1>7, <1>8, <1>9 DEF Exited

\* What exec does.
Execed(s, t, p) ==
  /\ Sound(t) /\ Others(s, t, p) /\ t.file = s.file /\ t.halted = s.halted
  /\ t.proc[p].state = s.proc[p].state /\ t.proc[p].fd = s.proc[p].fd
  /\ t.proc[p].mmaps = s.proc[p].mmaps /\ t.proc[p].image # 0

LEMMA ExecedIs ==
  ASSUME NEW s, Sound(s), ~Full(s), NEW p \in Procs, s.proc[p].image # 0, NEW t, t = exec(s, p)
  PROVE  Execed(s, t, p)
<1>1. PICK a, g, o : a = kalloc(s) /\ g = NewPage(s) /\ o = s.proc[p].image
  OBVIOUS
<1>2. /\ Sound(a) /\ Loose(a, g) /\ a.proc = s.proc
      /\ a.data = s.data /\ a.file = s.file /\ a.halted = s.halted
  BY <1>1, Alloc
<1>3. PICK d : d = deallocuvm(a, p)
  OBVIOUS
<1>4. /\ Sound(d) /\ d.proc[p].mmaps = a.proc[p].mmaps
      /\ Core(a.proc[p], d.proc[p]) /\ Others(a, d, p)
      /\ d.file = a.file /\ d.halted = a.halted
      /\ \A h : Loose(a, h) => Loose(d, h)
  BY <1>2, <1>3, Dealloc
<1>5. Loose(d, g) /\ g \in {0} \cup Pages /\ g # 0 /\ d.proc[p].image = o /\ o # 0
  BY <1>1, <1>2, <1>4, Sizes DEF Core, Loose
<1>6. PICK b : b = WithImage(d, p, g)
  OBVIOUS
<1>7. /\ Sound(b) /\ Loose(b, o) /\ b.proc[p].image = g
      /\ b.proc[p].state = d.proc[p].state /\ b.proc[p].mmaps = d.proc[p].mmaps
      /\ b.proc[p].fd = d.proc[p].fd /\ Others(d, b, p) /\ SameRest(d, b)
  <2>1. g \in {0} \cup Pages /\ (g # 0 => Loose(d, g)) /\ Sound(d)
    BY <1>4, <1>5
  <2>2. /\ Sound(b) /\ (d.proc[p].image # 0 => Loose(b, d.proc[p].image)) /\ b.proc[p].image = g
        /\ b.proc[p].state = d.proc[p].state /\ b.proc[p].mmaps = d.proc[p].mmaps
        /\ b.proc[p].fd = d.proc[p].fd /\ Others(d, b, p) /\ SameRest(d, b)
    BY <1>6, <2>1, ImageSound
  <2> QED
    BY <1>5, <2>2
<1>8. t = kfree(b, o)
  BY <1>1, <1>3, <1>6 DEF exec, WithImage
<1>9. Sound(t) /\ t.proc = b.proc /\ t.file = b.file /\ t.halted = b.halted
  BY <1>7, <1>8, Release
<1> QED
  BY <1>2, <1>4, <1>5, <1>7, <1>9 DEF Execed, Core, Others, SameRest

\* What wait does to the zombie q.
Reaped(s, t, q) ==
  /\ Sound(t) /\ Others(s, t, q) /\ t.file = s.file /\ t.halted = s.halted
  /\ t.proc[q].state = "UNUSED" /\ t.proc[q].fd = s.proc[q].fd
  /\ t.proc[q].mmaps = s.proc[q].mmaps

\* A slot of the process table that is free again.
Slot(s, q) == [s EXCEPT !.proc[q].state = "UNUSED", !.proc[q].parent = 0]

LEMMA SlotIs ==
  ASSUME NEW s, Sound(s), NEW q \in Procs, NEW t, t = Slot(s, q)
  PROVE  /\ Sound(t) /\ t.proc[q].state = "UNUSED" /\ t.proc[q].fd = s.proc[q].fd
         /\ t.proc[q].image = s.proc[q].image
         /\ t.proc[q].mmaps = s.proc[q].mmaps /\ Others(s, t, q) /\ SameRest(s, t)
<1>1. PICK r \in ProcRecs : r = s.proc[q]
  BY MachineIs DEF Sound
<1>2. PICK z : z = [r EXCEPT !.state = "UNUSED", !.parent = 0]
  OBVIOUS
<1>4. /\ z \in ProcRecs /\ z.state = "UNUSED" /\ z.fd = r.fd /\ z.image = r.image
      /\ z.mmaps = r.mmaps /\ z.pte = r.pte
  BY <1>2 DEF ProcRecs, States
<1>5. PICK f : f = [s.proc EXCEPT ![q] = z]
  OBVIOUS
<1>6. f \in [Procs -> ProcRecs] /\ f[q] = z /\ \A o \in Procs \ {q} : f[o] = s.proc[o]
  BY <1>4, <1>5, MachineIs DEF Sound
<1>7. t = [s EXCEPT !.proc = f]
  BY <1>1, <1>2, <1>5 DEF Slot
<1>8. t \in Machines /\ t.proc = f /\ SameRest(s, t)
  BY <1>6, <1>7 DEF Machines, SameRest, Sound
<1>9. \A o \in Procs : /\ t.proc[o].image = s.proc[o].image /\ t.proc[o].pte = s.proc[o].pte
                       /\ t.proc[o].mmaps = s.proc[o].mmaps
  BY <1>1, <1>4, <1>6, <1>8
<1>10. Sound(t)
  BY <1>8, <1>9, SameUse DEF SameRest
<1> QED
  BY <1>1, <1>4, <1>6, <1>8, <1>10 DEF Others

LEMMA ReapedIs ==
  ASSUME NEW s, Sound(s), NEW q \in Procs, s.proc[q].image # 0, NEW t, t = wait(s, q)
  PROVE  Reaped(s, t, q)
<1>1. PICK d, o : d = deallocuvm(s, q) /\ o = s.proc[q].image
  OBVIOUS
<1>2. /\ Sound(d) /\ d.proc[q].mmaps = s.proc[q].mmaps
      /\ Core(s.proc[q], d.proc[q]) /\ Others(s, d, q)
      /\ d.file = s.file /\ d.halted = s.halted
  BY <1>1, Dealloc
<1>3. PICK x \in {0} \cup Pages : x = 0
  OBVIOUS
<1>4. PICK a : a = Slot(d, q)
  OBVIOUS
<1>5. /\ Sound(a) /\ a.proc[q].state = "UNUSED" /\ a.proc[q].fd = d.proc[q].fd
      /\ a.proc[q].image = d.proc[q].image
      /\ a.proc[q].mmaps = d.proc[q].mmaps /\ Others(d, a, q) /\ SameRest(d, a)
  BY <1>2, <1>4, SlotIs
<1>6. PICK b : b = WithImage(a, q, x)
  OBVIOUS
<1>7. a.proc[q].image = o /\ o # 0
  BY <1>1, <1>2, <1>5 DEF Core
<1>8. /\ Sound(b) /\ Loose(b, o) /\ b.proc[q].image = x
      /\ b.proc[q].state = a.proc[q].state /\ b.proc[q].mmaps = a.proc[q].mmaps
      /\ b.proc[q].fd = a.proc[q].fd /\ Others(a, b, q) /\ SameRest(a, b)
  BY <1>3, <1>5, <1>6, <1>7, ImageSound
<1>9. t = kfree(b, o)
  <2>1. d \in Machines /\ d.proc[q] \in ProcRecs
    BY <1>2, MachineIs DEF Sound
  <2>2. t = [kfree(d, o) EXCEPT !.proc[q].state = "UNUSED", !.proc[q].parent = 0, !.proc[q].image = 0]
    BY <1>1 DEF wait
  <2>3. b = [d EXCEPT !.proc[q].state = "UNUSED", !.proc[q].parent = 0, !.proc[q].image = 0]
    BY <1>3, <1>4, <1>6 DEF Slot, WithImage
  <2>4. PICK y : y = [d.proc EXCEPT ![q].state = "UNUSED", ![q].parent = 0, ![q].image = 0]
    OBVIOUS
  <2>5. b = [d EXCEPT !.proc = y]
    BY <2>1, <2>3, <2>4 DEF Machines
  <2>6. t = [kfree(d, o) EXCEPT !.proc = y]
    BY <2>1, <2>2, <2>4 DEF Machines, kfree
  <2> QED
    BY <2>1, <2>5, <2>6 DEF kfree, Machines
<1>10. Sound(t) /\ t.proc = b.proc /\ t.file = b.file /\ t.halted = b.halted
  BY <1>8, <1>9, Release
<1> QED
  BY <1>2, <1>5, <1>8, <1>10 DEF Reaped, Core, Others, SameRest

-----------------------------------------------------------------------------
(* The steps of the specification, by what they do to the machine *)

\* The part of the invariant that is about physical memory.
Memory ==
  /\ Sound(m) /\ \A q \in Procs : m.proc[q].state # "UNUSED" => m.proc[q].image # 0
  /\ last \in [FilePages -> Data]

\* No list has an entry for the file that a process can use.
NoFiles == \A h \in Holders : h[2] = 0

Idles == (m' = m \/ m' = panic(m)) /\ last' = last /\ upset \subseteq upset'

Maps == \E p \in Procs : \E e :
  /\ Running(p) /\ NewMapping(m, m', p, e) /\ last' = last /\ upset \subseteq upset'
  /\ e.file /\ upset' = {} => NoFiles

Unmaps == \E p \in Procs : \E i \in Mapped(p) :
  Running(p) /\ Unmapped(m, m', p, i, m.proc[p].mmaps[i]) /\ last' = last /\ upset' = upset

Remaps == \E p \in Procs :
  /\ Running(p) /\ Remapped(m, m', p) /\ last' = last /\ upset \subseteq upset' /\ "resized" \in upset'

Kills == \E p \in Procs : Running(p) /\ Killed(m, m', p) /\ last' = last /\ upset' = upset

Loads == \E p \in Procs : \E v \in Virtual : \E i :
  Running(p) /\ Loaded(m, m', p, v, i) /\ last' = last /\ upset' = upset

\* Page k of entry e of process p gets a new content.
Stores == \E p \in Procs : \E i \in Mapped(p) : \E k \in 0 .. m.proc[p].mmaps[i].length - 1 : \E v \in Virtual :
  /\ Running(p) /\ m.proc[p].mmaps[i].shared /\ m.proc[p].mmaps[i].file
  /\ v = m.proc[p].mmaps[i].addr + k
  /\ m.proc[p].pte[v] # NoPte /\ m' = PutData(m, m.proc[p].pte[v].page, 1)
  /\ last' = (IF k \in FilePages THEN [last EXCEPT ![k] = 1] ELSE last) /\ upset' = upset

Forks == \E p \in Procs : \E np \in Procs :
  /\ Running(p) /\ Forked(m, m', p, np) /\ last' = last /\ upset \subseteq upset'
  /\ "copied" \in upset' \/ \A i \in Mapped(p) : ~m.proc[p].mmaps[i].file

Execs == \E p \in Procs :
  /\ Running(p) /\ Execed(m, m', p) /\ last' = last /\ upset \subseteq upset' /\ "resized" \in upset'

Departs == \E p \in Procs :
  /\ m.proc[p].state = "EXITING" /\ 1 \in Mapped(p) /\ Departed(m, m', p, m.proc[p].mmaps[1])
  /\ last' = last /\ upset \subseteq upset' /\ "exited" \in upset'

Exits == \E p \in Procs :
  /\ m.proc[p].state = "EXITING" /\ m.proc[p].mmaps = << >> /\ Exited(m, m', p)
  /\ last' = last /\ upset \subseteq upset' /\ "exited" \in upset'

Reaps == \E q \in Procs :
  m.proc[q].state = "ZOMBIE" /\ Reaped(m, m', q) /\ last' = last /\ upset' = upset

Steps == \/ Idles \/ Maps \/ Unmaps \/ Remaps \/ Kills \/ Loads \/ Stores
         \/ Forks \/ Execs \/ Departs \/ Exits \/ Reaps

\* A step that makes the machine s or panics.
LEMMA Done ==
  ASSUME NEW s, Do(s) PROVE m' = panic(m) \/ (m' = s /\ ~s.halted)
BY DEF Do

LEMMA MapIs == ASSUME Memory, NEW p \in Procs, Map(p) PROVE Idles \/ Maps
<1>1. PICK fixed \in Fixed \cup {-1}, length \in Lengths, kind \in Kinds :
        /\ fixed + length <= W /\ Do(sys_wmap(m, p, fixed, length, kind))
        /\ upset' = IF kind.file /\ \E h \in Holders : h[2] # 0
                    THEN upset \cup {"twice"} ELSE upset
  BY DEF Map
<1>2. Running(p) /\ last' = last /\ upset \subseteq upset'
  BY <1>1 DEF Map, Calling
<1>3. PICK t : t = sys_wmap(m, p, fixed, length, kind)
  OBVIOUS
<1>4. m' = panic(m) \/ (m' = t /\ ~t.halted)
  BY <1>1, <1>3, Done
<1>5. CASE m' = panic(m)
  BY <1>2, <1>5 DEF Idles
<1>6. CASE m' = t /\ ~t.halted
  <2>1. \/ t = m
        \/ \E e : /\ NewMapping(m, t, p, e) /\ e.file = kind.file /\ e.shared = kind.shared
                  /\ e.file => m.proc[p].fd
    BY <1>1, <1>3, <1>6, Wmapped DEF Memory
  <2>2. CASE t = m
    BY <1>2, <1>6, <2>2 DEF Idles
  <2>3. ASSUME NEW e, NewMapping(m, t, p, e), e.file = kind.file PROVE Maps
    <3>1. ASSUME e.file, upset' = {} PROVE NoFiles
      <4>1. ~(kind.file /\ \E h \in Holders : h[2] # 0)
        BY <1>1, <3>1
      <4> QED
        BY <2>3, <3>1, <4>1 DEF NoFiles
    <3> QED
      BY <1>2, <1>6, <2>3, <3>1 DEF Maps
  <2> QED
    BY <2>1, <2>2, <2>3
<1> QED
  BY <1>4, <1>5, <1>6

LEMMA UnmapIs == ASSUME Memory, NEW p \in Procs, Unmap(p) PROVE Idles \/ Unmaps
<1>1. PICK i \in Mapped(p), lucky \in BOOLEAN : Do(sys_wunmap(m, p, i, lucky))
  BY DEF Unmap
<1>2. Running(p) /\ last' = last /\ upset' = upset
  BY DEF Unmap, Calling
<1>3. PICK t : t = sys_wunmap(m, p, i, lucky)
  OBVIOUS
<1>4. m' = panic(m) \/ (m' = t /\ ~t.halted)
  BY <1>1, <1>3, Done
<1>5. i \in 1 .. Len(m.proc[p].mmaps) /\ Sound(m)
  BY DEF Mapped, Memory
<1>6. t.halted \/ Unmapped(m, t, p, i, m.proc[p].mmaps[i])
  BY <1>3, <1>5, Wunmapped
<1> QED
  BY <1>2, <1>4, <1>6 DEF Idles, Unmaps

LEMMA RemapIs == ASSUME Memory, NEW p \in Procs, Remap(p) PROVE Idles \/ Remaps
<1>1. PICK i \in Mapped(p), newsize \in Lengths, maymove \in BOOLEAN, lucky \in BOOLEAN :
        Do(sys_wremap(m, p, i, newsize, maymove, lucky))
  BY DEF Remap
<1>2. /\ Running(p) /\ last' = last /\ upset \subseteq upset'
      /\ m' = m \/ "resized" \in upset'
  BY DEF Remap, Calling
<1>3. PICK t : t = sys_wremap(m, p, i, newsize, maymove, lucky)
  OBVIOUS
<1>4. m' = panic(m) \/ (m' = t /\ ~t.halted)
  BY <1>1, <1>3, Done
<1>5. i \in 1 .. Len(m.proc[p].mmaps) /\ Sound(m) /\ m.proc[p].state = "RUNNABLE"
  BY <1>2 DEF Mapped, Memory, Running
<1>6. t = m \/ t.halted \/ Remapped(m, t, p)
  BY <1>3, <1>5, Wremapped
<1> QED
  BY <1>2, <1>4, <1>6 DEF Idles, Remaps

LEMMA FaultIs == ASSUME Memory, NEW p \in Procs, Fault(p) PROVE Idles \/ Kills \/ Loads
<1>1. PICK v \in Virtual : Do(PageFault(m, p, v))
  BY DEF Fault
<1>2. Running(p) /\ last' = last /\ upset' = upset
  BY DEF Fault
<1>3. PICK t : t = PageFault(m, p, v)
  OBVIOUS
<1>4. m' = panic(m) \/ (m' = t /\ ~t.halted)
  BY <1>1, <1>3, Done
<1>5. t.halted \/ Killed(m, t, p) \/ \E i : Loaded(m, t, p, v, i)
  BY <1>3, Faulted DEF Memory
<1> QED
  BY <1>2, <1>4, <1>5 DEF Idles, Kills, Loads

LEMMA StoreIs == ASSUME Memory, NEW p \in Procs, Store(p) PROVE Stores
<1>1. PICK i \in Mapped(p) :
        LET e == m.proc[p].mmaps[i] IN
        /\ e.shared /\ e.file
        /\ \E k \in 0 .. e.length - 1 :
             LET x == m.proc[p].pte[e.addr + k] IN
             /\ x.w /\ m' = [m EXCEPT !.data[x.page] = 1]
             /\ last' = IF k \in FilePages THEN [last EXCEPT ![k] = 1] ELSE last
  BY DEF Store
<1>2. m.proc[p] \in ProcRecs /\ i \in 1 .. Len(m.proc[p].mmaps)
  BY MachineIs DEF Memory, Sound, Mapped
<1>3. PICK e \in EntryRecs : e = m.proc[p].mmaps[i]
  BY <1>2, ProcIs
<1>4. PICK k \in 0 .. e.length - 1 :
        /\ m.proc[p].pte[e.addr + k].w /\ m' = [m EXCEPT !.data[m.proc[p].pte[e.addr + k].page] = 1]
        /\ last' = IF k \in FilePages THEN [last EXCEPT ![k] = 1] ELSE last
  BY <1>1, <1>3
<1>5. PICK v \in Virtual : v = e.addr + k
  BY EntryIs
<1>6. PICK x \in PteRecs : x = m.proc[p].pte[v]
  BY <1>2, ProcIs
<1>7. x # NoPte
  BY <1>4, <1>5, <1>6, PteIs, Sizes
<1>8. m' = PutData(m, m.proc[p].pte[v].page, 1)
  BY <1>4, <1>5 DEF PutData
<1>9. Running(p) /\ upset' = upset /\ e.shared /\ e.file
  BY <1>1, <1>3 DEF Store
<1> QED
  BY <1>3, <1>4, <1>5, <1>6, <1>7, <1>8, <1>9 DEF Stores

LEMMA ForkStepIs == ASSUME Memory, NEW p \in Procs, Fork(p) PROVE Idles \/ Forks
<1>1. /\ Running(p) /\ ~Full(m) /\ \E q \in Procs : m.proc[q].state = "UNUSED"
      /\ Do(fork(m, p)) /\ last' = last /\ upset \subseteq upset'
      /\ "copied" \in upset' \/ \A i \in Mapped(p) : ~m.proc[p].mmaps[i].file
  BY DEF Fork, Calling
<1>2. PICK t : t = fork(m, p)
  OBVIOUS
<1>3. m' = panic(m) \/ (m' = t /\ ~t.halted)
  BY <1>1, <1>2, Done
<1>4. Sound(m) /\ m.proc[p].state = "RUNNABLE"
  BY <1>1 DEF Memory, Running
<1>5. t.halted \/ \E np \in Procs : Forked(m, t, p, np)
  BY <1>1, <1>2, <1>4, ForkedIs
<1> QED
  BY <1>1, <1>3, <1>5 DEF Idles, Forks

LEMMA ExecIs == ASSUME Memory, NEW p \in Procs, Exec(p) PROVE Idles \/ Execs
<1>1. /\ Running(p) /\ ~Full(m) /\ Do(exec(m, p)) /\ last' = last
      /\ upset \subseteq upset' /\ "resized" \in upset'
  BY DEF Exec, Calling
<1>2. PICK t : t = exec(m, p)
  OBVIOUS
<1>3. m' = panic(m) \/ m' = t
  BY <1>1, <1>2, Done
<1>4. Sound(m) /\ m.proc[p].image # 0
  BY <1>1 DEF Memory, Running
<1>5. Execed(m, t, p)
  BY <1>1, <1>2, <1>4, ExecedIs
<1> QED
  BY <1>1, <1>3, <1>5 DEF Idles, Execs

LEMMA ExitIs == ASSUME Memory, NEW p \in Procs, Exit(p) PROVE Idles \/ Kills
<1>1. Running(p) /\ Do(kill(m, p)) /\ last' = last /\ upset' = upset
  BY DEF Exit
<1>2. PICK t : t = kill(m, p)
  OBVIOUS
<1>3. m' = panic(m) \/ m' = t
  BY <1>1, <1>2, Done
<1>4. Killed(m, t, p)
  BY <1>2, Kill DEF Memory, Killed, SameRest, SameFile
<1> QED
  BY <1>1, <1>3, <1>4 DEF Idles, Kills

LEMMA ExitGoesOn == ASSUME Memory, NEW p \in Procs, ExitStep(p) PROVE Idles \/ Departs \/ Exits
<1>1. /\ m.proc[p].state = "EXITING" /\ last' = last /\ upset \subseteq upset' /\ "exited" \in upset'
  BY DEF ExitStep
<1>2. CASE m.proc[p].mmaps # << >>
  <2>1. PICK lucky \in BOOLEAN : Do(ExitUnmap(m, p, lucky))
    BY <1>2 DEF ExitStep
  <2>2. PICK t : t = ExitUnmap(m, p, lucky)
    OBVIOUS
  <2>3. m' = panic(m) \/ (m' = t /\ ~t.halted)
    BY <2>1, <2>2, Done
  <2>4. t.halted \/ Departed(m, t, p, m.proc[p].mmaps[1])
    BY <1>2, <2>2, ExitUnmapped DEF Memory
  <2>5. 1 \in Mapped(p)
    <3>1. PICK ms \in Seq(EntryRecs) : ms = m.proc[p].mmaps
      BY MachineIs, ProcIs DEF Memory, Sound
    <3>2. 1 \in 1 .. Len(ms)
      BY <1>2, <3>1
    <3> QED
      BY <3>1, <3>2 DEF Mapped
  <2> QED
    BY <1>1, <2>3, <2>4, <2>5 DEF Idles, Departs
<1>3. CASE m.proc[p].mmaps = << >>
  <2>1. PICK t : t = ExitRest(m, p)
    OBVIOUS
  <2>2. m' = panic(m) \/ (m' = t /\ ~t.halted)
    BY <1>3, <2>1, Done DEF ExitStep
  <2>3. t.halted \/ Exited(m, t, p)
    BY <2>1, ExitedIs DEF Memory
  <2> QED
    BY <1>1, <1>3, <2>2, <2>3 DEF Idles, Exits
<1> QED
  BY <1>2, <1>3

LEMMA WaitIs == ASSUME Memory, NEW p \in Procs, Wait(p) PROVE Idles \/ Reaps
<1>1. PICK q \in Procs : m.proc[q].state = "ZOMBIE" /\ Do(wait(m, q))
  BY DEF Wait
<1>2. PICK t : t = wait(m, q)
  OBVIOUS
<1>3. m' = panic(m) \/ m' = t
  BY <1>1, <1>2, Done
<1>4. Reaped(m, t, q)
  BY <1>1, <1>2, ReapedIs DEF Memory
<1>5. last' = last /\ upset' = upset
  BY DEF Wait
<1> QED
  BY <1>1, <1>3, <1>4, <1>5 DEF Idles, Reaps

LEMMA NextIs == ASSUME Memory, [Next]_vars PROVE Steps
<1>1. CASE UNCHANGED vars
  BY <1>1 DEF vars, Steps, Idles
<1>2. CASE Quiet
  BY <1>2 DEF Quiet, vars, Steps, Idles
<1>3. ASSUME NEW p \in Procs,
             \/ Map(p) \/ Unmap(p) \/ Remap(p) \/ Fault(p) \/ Store(p)
             \/ Fork(p) \/ Exec(p) \/ Exit(p) \/ ExitStep(p) \/ Wait(p)
      PROVE  Steps
  BY <1>3, MapIs, UnmapIs, RemapIs, FaultIs, StoreIs, ForkStepIs, ExecIs, ExitIs, ExitGoesOn, WaitIs
     DEF Steps
<1> QED
  BY <1>1, <1>2, <1>3 DEF Next

-----------------------------------------------------------------------------
(* Physical memory *)

LEMMA MemoryInit == Init => Memory
<1> SUFFICES ASSUME Init PROVE Memory
  OBVIOUS
<1>1. PICK rr \in [Procs -> ProcRecs] :
        /\ m.proc = rr
        /\ \A q \in Procs : /\ rr[q].image = IF q \in {1, 2} THEN q ELSE 0
                            /\ rr[q].mmaps = << >> /\ rr[q].pte = Unused.pte
                            /\ q \notin {1, 2} => rr[q].state = "UNUSED"
  <2>1. PICK rr : rr = [p \in Procs |->
                   CASE p = 1 -> [Unused EXCEPT !.state = "RUNNABLE", !.image = 1]
                     [] p = 2 -> [Unused EXCEPT !.state = "RUNNABLE", !.image = 2,
                                                !.parent = initproc, !.fd = TRUE]
                     [] OTHER -> Unused]
    OBVIOUS
  <2>2. m.proc = rr
    BY <2>1 DEF Init
  <2>3. PICK y \in [Virtual -> PteRecs] : y = Unused.pte
    BY NoPtes
  <2>4. Unused = [state |-> "UNUSED", parent |-> 0, image |-> 0, mmaps |-> << >>,
                  pte |-> y, fd |-> FALSE]
    BY <2>3 DEF Unused
  <2>5. << >> \in Lists /\ 1 \in Pages /\ 2 \in Pages
    BY Sizes DEF Lists, Pages
  <2>6. ASSUME NEW q \in Procs
        PROVE  /\ rr[q] \in ProcRecs /\ rr[q].image = IF q \in {1, 2} THEN q ELSE 0
               /\ rr[q].mmaps = << >> /\ rr[q].pte = Unused.pte
               /\ q \notin {1, 2} => rr[q].state = "UNUSED"
    <3>1. CASE q = 1
      <4>1. rr[q] = [Unused EXCEPT !.state = "RUNNABLE", !.image = 1]
        BY <2>1, <3>1
      <4>2. rr[q] = [state |-> "RUNNABLE", parent |-> 0, image |-> 1, mmaps |-> << >>,
                     pte |-> y, fd |-> FALSE]
        BY <2>4, <4>1
      <4>3. rr[q] \in ProcRecs
        BY <2>5, <4>2 DEF ProcRecs, States
      <4>4. rr[q].image = 1 /\ rr[q].mmaps = << >> /\ rr[q].pte = y
        BY <4>2
      <4> QED
        BY <2>3, <3>1, <4>3, <4>4
    <3>2. CASE q = 2
      <4>1. rr[q] = [Unused EXCEPT !.state = "RUNNABLE", !.image = 2, !.parent = initproc, !.fd = TRUE]
        BY <2>1, <3>2
      <4>2. rr[q] = [state |-> "RUNNABLE", parent |-> 1, image |-> 2, mmaps |-> << >>,
                     pte |-> y, fd |-> TRUE]
        BY <2>4, <4>1 DEF initproc
      <4>3. rr[q] \in ProcRecs
        BY <2>5, <4>2 DEF ProcRecs, States
      <4>4. rr[q].image = 2 /\ rr[q].mmaps = << >> /\ rr[q].pte = y
        BY <4>2
      <4> QED
        BY <2>3, <3>2, <4>3, <4>4
    <3>3. CASE q \notin {1, 2}
      <4>1. rr[q] = Unused
        BY <2>1, <3>3
      <4> QED
        BY <2>3, <2>4, <2>5, <3>3, <4>1 DEF ProcRecs, States
    <3> QED
      BY <3>1, <3>2, <3>3
  <2>7. rr \in [Procs -> ProcRecs]
    BY <2>1, <2>6
  <2> QED
    BY <2>2, <2>6, <2>7
<1>2. m.free = Pages \ {1, 2} /\ m \in Machines
  <2>1. PICK d : d = [g \in Pages |-> 0]
    OBVIOUS
  <2>2. PICK y : y = [ref |-> 1, off |-> 0, size |-> 1, page |-> [k \in FilePages |-> 0]]
    OBVIOUS
  <2>3. d \in [Pages -> Data] /\ y \in FileRecs
    BY <2>1, <2>2, Sizes DEF FileRecs, Data
  <2>4. m = [proc |-> rr, free |-> Pages \ {1, 2}, data |-> d, file |-> y, halted |-> FALSE]
    BY <1>1, <2>1, <2>2 DEF Init
  <2> QED
    BY <2>3, <2>4 DEF Machines
<1>3. \A v \in Virtual : Unused.pte[v].page = 0
  BY NoPtes DEF NoPte
<1>4. ASSUME NEW q \in Procs PROVE Neat(m.proc[q])
  <2>1. /\ m.proc[q].mmaps = << >> /\ Len(m.proc[q].mmaps) = 0
        /\ \A v \in Virtual : m.proc[q].pte[v].page = 0
    BY <1>1, <1>3
  <2> QED
    BY <2>1 DEF Neat, PtesOnce, EntriesOnce, KindsApart
<1>5. ASSUME NEW q \in Procs, NEW g \in Pages, Has(m.proc[q], g) PROVE q = g /\ g \in {1, 2}
  <2>1. /\ Len(m.proc[q].mmaps) = 0
        /\ \A v \in Virtual : m.proc[q].pte[v].page = 0
    BY <1>1, <1>3
  <2>2. m.proc[q].image = g
    BY <1>5, <2>1, Sizes DEF Has
  <2> QED
    BY <1>1, <2>2, Sizes
<1>6. Sound(m)
  BY <1>2, <1>4, <1>5 DEF Sound, Apart
<1>7. \A q \in Procs : m.proc[q].state # "UNUSED" => m.proc[q].image # 0
  BY <1>1
<1>8. last \in [FilePages -> Data]
  BY DEF Init, Data
<1> QED
  BY <1>6, <1>7, <1>8 DEF Memory

LEMMA MemoryStep == Memory /\ [Next]_vars => Memory'
<1> SUFFICES ASSUME Memory, Steps PROVE Memory'
  BY NextIs
<1> DEFINE Staffed(s) == \A q \in Procs : s.proc[q].state # "UNUSED" => s.proc[q].image # 0
<1>0. Sound(m) /\ m \in Machines /\ Staffed(m) /\ last \in [FilePages -> Data]
  BY DEF Memory, Sound
<1> SUFFICES Sound(m') /\ Staffed(m') /\ last' \in [FilePages -> Data]
  BY DEF Memory
<1>1. CASE Idles
  <2>1. CASE m' = m
    BY <1>0, <1>1, <2>1 DEF Idles
  <2>2. CASE m' = panic(m)
    <3>1. SameMem(m, m')
      BY <1>0, <2>2, Panic
    <3>2. Sound(m')
      BY <1>0, <3>1, MemSound
    <3> QED
      BY <1>0, <1>1, <3>1, <3>2 DEF SameMem, Idles
  <2> QED
    BY <1>1, <2>1, <2>2 DEF Idles
<1>2. CASE Maps
  BY <1>0, <1>2 DEF Maps, NewMapping, Core, Others
<1>3. CASE Unmaps
  BY <1>0, <1>3 DEF Unmaps, Unmapped, Core, Others
<1>4. CASE Remaps
  BY <1>0, <1>4 DEF Remaps, Remapped, Others, Running
<1>5. CASE Kills
  BY <1>0, <1>5 DEF Kills, Killed, Others, Running
<1>6. CASE Loads
  <2>1. PICK p \in Procs : \E v, i : Running(p) /\ Loaded(m, m', p, v, i) /\ last' = last
    BY <1>6 DEF Loads
  <2>2. /\ Sound(m') /\ last' = last /\ Core(m.proc[p], m'.proc[p])
        /\ \A q \in Procs \ {p} : m'.proc[q] = m.proc[q]
    BY Zenon, <2>1 DEF Loaded, Others
  <2>3. m'.proc[p].state = m.proc[p].state /\ m'.proc[p].image = m.proc[p].image
    BY Zenon, <2>2 DEF Core
  <2> QED
    BY Zenon, <1>0, <2>2, <2>3
<1>7. CASE Stores
  <2>1a. PICK p \in Procs, v \in Virtual : \E k :
          /\ m.proc[p].pte[v] # NoPte /\ m' = PutData(m, m.proc[p].pte[v].page, 1)
          /\ last' = (IF k \in FilePages THEN [last EXCEPT ![k] = 1] ELSE last)
    BY <1>7 DEF Stores
  <2>1. PICK k :
          /\ m.proc[p].pte[v] # NoPte /\ m' = PutData(m, m.proc[p].pte[v].page, 1)
          /\ last' = (IF k \in FilePages THEN [last EXCEPT ![k] = 1] ELSE last)
    BY <2>1a
  <2>2. PICK g : g = m.proc[p].pte[v].page
    OBVIOUS
  <2>3. g \in Pages /\ 1 \in Data
    BY <1>0, <2>1, <2>2, MachineIs, ProcIs, PteIs DEF Data
  <2>4. Sound(m') /\ m'.proc = m.proc
    <3>1. PICK x \in Data : x = 1
      BY <2>3
    <3>2. m' = PutData(m, g, x)
      BY <2>1, <2>2, <3>1
    <3> QED
      BY <1>0, <2>3, <3>2, DataPut
  <2> QED
    BY <1>0, <2>1, <2>3, <2>4
<1>8. CASE Forks
  BY <1>0, <1>8 DEF Forks, Forked, Others
<1>9. CASE Execs
  BY <1>0, <1>9 DEF Execs, Execed, Others
<1>10. CASE Departs
  BY <1>0, <1>10 DEF Departs, Departed, Core, Others
<1>11. CASE Exits
  <2>1. PICK p \in Procs : m.proc[p].state = "EXITING" /\ Exited(m, m', p) /\ last' = last
    BY <1>11 DEF Exits
  <2>2. Sound(m')
    BY <2>1 DEF Exited
  <2>3. ASSUME NEW q \in Procs, m'.proc[q].state # "UNUSED" PROVE m'.proc[q].image # 0
    BY <1>0, <2>1, <2>3 DEF Exited
  <2> QED
    BY <1>0, <2>1, <2>2, <2>3
<1>12. CASE Reaps
  BY <1>0, <1>12 DEF Reaps, Reaped, Others
<1> QED
  BY <1>1, <1>2, <1>3, <1>4, <1>5, <1>6, <1>7, <1>8, <1>9, <1>10, <1>11, <1>12 DEF Steps

\* What a use of a page is.
UseOf(u, p, g) ==
  /\ u[4] = g /\ g \in Pages /\ Has(m.proc[p], g)
  /\ \/ u = <<p, "image", 0, g>> /\ m.proc[p].image = g
     \/ \E v \in Virtual : u = <<p, "pte", v, g>> /\ m.proc[p].pte[v].page = g
     \/ \E i \in Mapped(p) : u = <<p, "entry", i, g>> /\ m.proc[p].mmaps[i].page = g

LEMMA UseIs ==
  ASSUME Memory, NEW u \in Uses PROVE \E p \in Procs : \E g : UseOf(u, p, g)
<1>0. u[4] # 0 /\ Sound(m) /\ \A q \in Procs : m.proc[q] \in ProcRecs
  BY MachineIs DEF Uses, Memory, Sound
<1>1. ASSUME NEW p \in Procs, u = <<p, "image", 0, m.proc[p].image>>
      PROVE  \E g : UseOf(u, p, g)
  <2>1. PICK g : g = m.proc[p].image
    OBVIOUS
  <2>2. u = <<p, "image", 0, g>> /\ u[4] = g
    BY <1>1, <2>1
  <2>3. g \in Pages /\ Has(m.proc[p], g)
    BY <1>0, <2>1, <2>2, ProcIs DEF Has
  <2> QED
    BY <2>1, <2>2, <2>3 DEF UseOf
<1>2. ASSUME NEW p \in Procs, NEW v \in Virtual, u = <<p, "pte", v, m.proc[p].pte[v].page>>
      PROVE  \E g : UseOf(u, p, g)
  <2>1. PICK g : g = m.proc[p].pte[v].page
    OBVIOUS
  <2>2. u = <<p, "pte", v, g>> /\ u[4] = g
    BY <1>2, <2>1
  <2>3. g \in Pages /\ Has(m.proc[p], g)
    BY <1>0, <2>1, <2>2, ProcIs, PteIs DEF Has
  <2> QED
    BY <2>1, <2>2, <2>3 DEF UseOf
<1>3. ASSUME NEW p \in Procs, NEW i \in Mapped(p), u = <<p, "entry", i, m.proc[p].mmaps[i].page>>
      PROVE  \E g : UseOf(u, p, g)
  <2>1. PICK g : g = m.proc[p].mmaps[i].page
    OBVIOUS
  <2>2. u = <<p, "entry", i, g>> /\ u[4] = g
    BY <1>3, <2>1
  <2>3. g \in Pages /\ Has(m.proc[p], g)
    BY <1>0, <2>1, <2>2, ProcIs, EntryIs DEF Has, Mapped
  <2> QED
    BY <2>1, <2>2, <2>3 DEF UseOf
<1> QED
  BY <1>1, <1>2, <1>3 DEF Uses

LEMMA PagesAreSound == Memory => PagesSound
<1> SUFFICES ASSUME Memory PROVE PagesSound
  OBVIOUS
<1>0. Apart(m)
  BY DEF Memory, Sound
<1>1. PICK U : U = {u[4] : u \in Uses}
  OBVIOUS
<1>2. U \cap m.free = {} /\ U \subseteq Pages
  <2>1. ASSUME NEW u \in Uses PROVE u[4] \in Pages /\ u[4] \notin m.free
    BY <1>0, UseIs DEF UseOf, Apart
  <2> QED
    BY <1>1, <2>1
<1>3. ASSUME NEW u \in Uses, NEW w \in Uses, u[4] = w[4] PROVE u = w
  <2>1a. PICK p \in Procs : \E g : UseOf(u, p, g)
    BY UseIs
  <2>1. PICK g : UseOf(u, p, g)
    BY <2>1a
  <2>2a. PICK q \in Procs : \E h : UseOf(w, q, h)
    BY UseIs
  <2>2. PICK h : UseOf(w, q, h)
    BY <2>2a
  <2>3. g = h /\ p = q /\ g # 0 /\ Neat(m.proc[p])
    BY <1>0, <1>3, <2>1, <2>2, Sizes DEF UseOf, Apart
  <2>4. CASE u = <<p, "image", 0, g>> /\ m.proc[p].image = g
    BY <2>2, <2>3, <2>4 DEF UseOf, Neat, KindsApart, Mapped
  <2>5. ASSUME NEW v \in Virtual, u = <<p, "pte", v, g>>, m.proc[p].pte[v].page = g PROVE u = w
    BY <2>2, <2>3, <2>5 DEF UseOf, Neat, KindsApart, PtesOnce, Mapped
  <2>6. ASSUME NEW i \in Mapped(p), u = <<p, "entry", i, g>>, m.proc[p].mmaps[i].page = g PROVE u = w
    BY <2>2, <2>3, <2>6 DEF UseOf, Neat, KindsApart, EntriesOnce, Mapped
  <2> QED
    BY <2>1, <2>4, <2>5, <2>6 DEF UseOf
<1>4. PICK f : f = [u \in Uses |-> u[4]]
  OBVIOUS
<1>5. f \in Injection(Uses, U) /\ f \in Surjection(Uses, U)
  <2>1. f \in [Uses -> U] /\ \A u \in Uses : f[u] = u[4]
    BY <1>1, <1>4
  <2>2. DOMAIN f = Uses
    BY <2>1
  <2>3. \A g \in U : \E u \in Uses : f[u] = g
    BY <1>1, <2>1
  <2> QED
    BY <1>3, <2>1, <2>2, <2>3 DEF Injection, Surjection, IsInjective
<1>6. IsFiniteSet(U)
  <2>1. IsFiniteSet(Pages)
    BY Sizes, FS_Interval DEF Pages
  <2> QED
    BY <1>2, <2>1, FS_Subset
<1>7. Cardinality(Uses) = Cardinality(U)
  BY <1>5, <1>6, FS_Injection
<1> QED
  BY <1>1, <1>2, <1>7 DEF PagesSound

\* In every reachable state the machine has its type, no page of physical memory has two
\* users or is free and used, and every process there is has an image.
THEOREM MemoryInvariant == Spec => []Memory
<1>1. Init => Memory
  BY MemoryInit
<1>2. Memory /\ [Next]_vars => Memory'
  BY MemoryStep
<1> QED
  BY <1>1, <1>2, PTL DEF Spec

\* However mappings are made, moved, copied and torn down, no page of physical memory is
\* used twice, or used and free.
THEOREM PagesCorrect == Spec => []PagesSound
BY MemoryInvariant, PagesAreSound, PTL

-----------------------------------------------------------------------------
(* What getwmapinfo and getpgdirinfo report *)

\* A slot that is unused has at most the entries a fork left there; a zombie has none.
Vacant ==
  \A q \in Procs :
    /\ m.proc[q].state = "UNUSED"
         => ~m.proc[q].fd /\ \A i \in Mapped(q) : m.proc[q].mmaps[i].mapping_process = 0
    /\ m.proc[q].state = "ZOMBIE"
         => ~m.proc[q].fd /\ m.proc[q].mmaps = << >> /\ "exited" \in upset

\* Two entries cover no page together.
Disjoint(e, f) == \A v \in Virtual : ~(Covers(e, v) /\ Covers(f, v))

\* The pages an entry covers that are there.
Present(r, e) == {v \in Virtual : r.pte[v] # NoPte /\ Covers(e, v)}

OwnApart(r, p) ==
  \A i, j \in 1 .. Len(r.mmaps) :
    r.mmaps[i].mapping_process = p /\ i # j => Disjoint(r.mmaps[i], r.mmaps[j])
OwnCounted(r, p) ==
  \A i \in 1 .. Len(r.mmaps) :
    r.mmaps[i].mapping_process = p => r.mmaps[i].loaded = Cardinality(Present(r, r.mmaps[i]))
AllCovered(r) ==
  \A v \in Virtual : r.pte[v] # NoPte
    => r.pte[v].w /\ \E i \in 1 .. Len(r.mmaps) : Covers(r.mmaps[i], v)

\* The entries process p made are apart from all its others and count their pages, and
\* every page that is there is writable and covered.
Honest(r, p) == OwnApart(r, p) /\ OwnCounted(r, p) /\ AllCovered(r)

Info ==
  "resized" \in upset \/ \A p \in Procs : m.proc[p].state = "RUNNABLE" => Honest(m.proc[p], p)

LEMMA PresentFinite ==
  ASSUME NEW r, NEW e PROVE IsFiniteSet(Present(r, e))
<1>1. IsFiniteSet(Virtual)
  BY Sizes, FS_Interval DEF Virtual
<1>2. Present(r, e) \in SUBSET Virtual
  BY DEF Present
<1> QED
  BY <1>1, <1>2, FS_Subset

\* A free range shares no page with an entry.
LEMMA FreeDisjoint ==
  ASSUME NEW ms \in Seq(EntryRecs), NEW e \in EntryRecs, Free(ms, e.addr, e.length),
         NEW i \in 1 .. Len(ms)
  PROVE  Disjoint(e, ms[i]) /\ Disjoint(ms[i], e)
<1>1. PICK f \in EntryRecs : f = ms[i]
  OBVIOUS
<1>2. ~Overlaps(f, e.addr, e.length)
  BY <1>1 DEF Free
<1>3. e.addr \in Nat /\ e.length \in Nat /\ f.addr \in Nat /\ f.length \in Nat
  BY EntryIs
<1>4. ~(e.addr < f.addr + f.length /\ e.addr + e.length > f.addr)
  BY <1>2 DEF Overlaps
<1>5. ASSUME NEW v \in Virtual, v >= e.addr, v < e.addr + e.length, v >= f.addr, v < f.addr + f.length
      PROVE  FALSE
  <2>1. v \in Nat
    BY Sizes
  <2> QED
    BY <1>3, <1>4, <1>5, <2>1
<1> QED
  BY <1>1, <1>5 DEF Disjoint, Covers

LEMMA HonestMapped ==
  ASSUME NEW s, Sound(s), NEW p \in Procs, NEW t, NEW e, NewMapping(s, t, p, e), Honest(s.proc[p], p)
  PROVE  /\ Honest(t.proc[p], p) /\ \A v \in Virtual : t.proc[p].pte[v] = s.proc[p].pte[v]
         /\ \A v \in Virtual : Covers(e, v) => t.proc[p].pte[v] = NoPte
<1>1. PICK r \in ProcRecs, z \in ProcRecs : r = s.proc[p] /\ z = t.proc[p]
  BY MachineIs DEF Sound, NewMapping
<1>2. PICK ms \in Seq(EntryRecs), ns \in {z.mmaps} : ms = r.mmaps /\ ns = z.mmaps /\ Len(ms) \in Nat
  BY <1>1, ProcIs
<1>3. e \in EntryRecs /\ e.loaded = 0 /\ Free(ms, e.addr, e.length) /\ ns = <<e>> \o ms
  BY <1>1, <1>2 DEF NewMapping
<1>4. /\ Len(ns) = Len(ms) + 1 /\ ns[1] = e
      /\ \A j \in 1 .. Len(ms) : ns[j + 1] = ms[j]
  BY <1>3, Prepended
<1>5. \A i \in 1 .. Len(ms) : Disjoint(e, ms[i]) /\ Disjoint(ms[i], e)
  BY <1>3, FreeDisjoint
<1>6. OwnApart(r, p) /\ OwnCounted(r, p) /\ AllCovered(r)
  BY <1>1 DEF Honest
<1>7. ASSUME NEW v \in Virtual, Covers(e, v) PROVE r.pte[v] = NoPte /\ z.pte[v] = NoPte
  <2>1. r.pte[v] = NoPte
    BY <1>2, <1>5, <1>6, <1>7 DEF AllCovered, Disjoint
  <2>2. z.pte[v].page = r.pte[v].page
    BY <1>1 DEF NewMapping
  <2>3. r.pte[v] \in PteRecs /\ z.pte[v] \in PteRecs
    BY ProcIs
  <2> QED
    BY <2>1, <2>2, <2>3, PteIs
<1>8. \A v \in Virtual : z.pte[v] = r.pte[v]
  BY <1>1, <1>7 DEF NewMapping
<1>9. ASSUME NEW j \in 1 .. Len(ns), j # 1 PROVE j - 1 \in 1 .. Len(ms) /\ ns[j] = ms[j - 1]
  <2>1. j - 1 \in 1 .. Len(ms) /\ j - 1 + 1 = j
    BY <1>2, <1>4, <1>9
  <2> QED
    BY <1>4, <2>1
<1>10. OwnApart(z, p)
  <2> SUFFICES ASSUME NEW i \in 1 .. Len(ns), NEW j \in 1 .. Len(ns), ns[i].mapping_process = p, i # j
               PROVE  Disjoint(ns[i], ns[j])
    BY <1>2 DEF OwnApart
  <2>1. CASE i = 1
    <3>1. j # 1
      BY <2>1
    <3> QED
      BY <1>4, <1>5, <1>9, <2>1, <3>1
  <2>2. CASE j = 1
    <3>1. i # 1
      BY <2>2
    <3> QED
      BY <1>4, <1>5, <1>9, <2>2, <3>1
  <2>3. CASE i # 1 /\ j # 1
    <3>1. i - 1 \in 1 .. Len(ms) /\ ns[i] = ms[i - 1] /\ j - 1 \in 1 .. Len(ms) /\ ns[j] = ms[j - 1]
      BY <1>9, <2>3
    <3>2. i - 1 # j - 1
      OBVIOUS
    <3> QED
      BY <1>2, <1>6, <3>1, <3>2 DEF OwnApart
  <2> QED
    BY <2>1, <2>2, <2>3
<1>11. OwnCounted(z, p)
  <2>0. \A f : Present(z, f) = Present(r, f)
    BY <1>8 DEF Present
  <2> SUFFICES ASSUME NEW i \in 1 .. Len(ns), ns[i].mapping_process = p
               PROVE  ns[i].loaded = Cardinality(Present(z, ns[i]))
    BY <1>2 DEF OwnCounted
  <2>1. CASE i = 1
    <3>1. Present(z, e) = {}
      BY <1>7 DEF Present
    <3> QED
      BY <1>3, <1>4, <2>1, <3>1, FS_EmptySet
  <2>2. CASE i # 1
    <3>1. i - 1 \in 1 .. Len(ms) /\ ns[i] = ms[i - 1]
      BY <1>9, <2>2
    <3> QED
      BY <1>2, <1>6, <2>0, <3>1 DEF OwnCounted
  <2> QED
    BY <2>1, <2>2
<1>12. AllCovered(z)
  <2> SUFFICES ASSUME NEW v \in Virtual, z.pte[v] # NoPte
               PROVE  z.pte[v].w /\ \E i \in 1 .. Len(ns) : Covers(ns[i], v)
    BY <1>2 DEF AllCovered
  <2>1. PICK i \in 1 .. Len(ms) : z.pte[v].w /\ Covers(ms[i], v)
    BY <1>2, <1>6, <1>8 DEF AllCovered
  <2>2. i + 1 \in 1 .. Len(ns)
    BY <1>2, <1>4
  <2> QED
    BY <1>4, <2>1, <2>2
<1> QED
  BY <1>1, <1>7, <1>8, <1>10, <1>11, <1>12 DEF Honest

LEMMA HonestUnmapped ==
  ASSUME NEW s, Sound(s), NEW p \in Procs, NEW i \in 1 .. Len(s.proc[p].mmaps), NEW t, NEW e,
         e = s.proc[p].mmaps[i], Unmapped(s, t, p, i, e), Honest(s.proc[p], p)
  PROVE  Honest(t.proc[p], p)
<1>1. PICK r \in ProcRecs, z \in ProcRecs : r = s.proc[p] /\ z = t.proc[p]
  BY MachineIs DEF Sound, Unmapped
<1>2. PICK ms \in Seq(EntryRecs), ns \in {z.mmaps} : ms = r.mmaps /\ ns = z.mmaps /\ Len(ms) \in Nat
  BY <1>1, ProcIs
<1>3. /\ i \in 1 .. Len(ms) /\ e = ms[i] /\ Len(ns) = Len(ms) - 1
      /\ \A j \in 1 .. Len(ms) - 1 : ns[j] = IF j < i THEN ms[j] ELSE ms[j + 1]
      /\ \A v \in Virtual : z.pte[v] = IF Covers(e, v) THEN NoPte ELSE r.pte[v]
  BY <1>1, <1>2 DEF Unmapped, Without
<1>4. PICK f : f = [j \in 1 .. Len(ns) |-> IF j < i THEN j ELSE j + 1]
  OBVIOUS
<1>5. ASSUME NEW j \in 1 .. Len(ns)
      PROVE  f[j] \in 1 .. Len(ms) /\ f[j] # i /\ ns[j] = ms[f[j]]
  <2>1. f[j] = IF j < i THEN j ELSE j + 1
    BY <1>4
  <2>2. j \in 1 .. Len(ms) - 1
    BY <1>3
  <2>3. f[j] \in 1 .. Len(ms) /\ f[j] # i
    BY <1>2, <2>1, <2>2
  <2> QED
    BY <1>3, <2>1, <2>2, <2>3
<1>6. ASSUME NEW j \in 1 .. Len(ns), NEW k \in 1 .. Len(ns), j # k PROVE f[j] # f[k]
  <2>1. f[j] = (IF j < i THEN j ELSE j + 1) /\ f[k] = (IF k < i THEN k ELSE k + 1)
    BY <1>4
  <2>2. j \in Nat /\ k \in Nat /\ i \in Nat
    OBVIOUS
  <2> QED
    BY <1>6, <2>1, <2>2
<1>7. OwnApart(r, p) /\ OwnCounted(r, p) /\ AllCovered(r)
  BY <1>1 DEF Honest
<1>8. OwnApart(z, p)
  <2> SUFFICES ASSUME NEW k \in 1 .. Len(ns), NEW j \in 1 .. Len(ns), ns[k].mapping_process = p, k # j
               PROVE  Disjoint(ns[k], ns[j])
    BY <1>2 DEF OwnApart
  <2>1. f[k] \in 1 .. Len(ms) /\ f[j] \in 1 .. Len(ms) /\ f[k] # f[j] /\ ns[k] = ms[f[k]] /\ ns[j] = ms[f[j]]
    BY <1>5, <1>6
  <2> QED
    BY <1>2, <1>7, <2>1 DEF OwnApart
<1>9. OwnCounted(z, p)
  <2> SUFFICES ASSUME NEW j \in 1 .. Len(ns), ns[j].mapping_process = p
               PROVE  ns[j].loaded = Cardinality(Present(z, ns[j]))
    BY <1>2 DEF OwnCounted
  <2>1. PICK k \in 1 .. Len(ms) : k # i /\ ns[j] = ms[k]
    BY <1>5
  <2>2. Disjoint(ms[k], e)
    BY <1>2, <1>3, <1>7, <2>1 DEF OwnApart
  <2>3. Present(z, ms[k]) = Present(r, ms[k])
    BY <1>3, <2>2 DEF Present, Disjoint
  <2> QED
    BY <1>2, <1>7, <2>1, <2>3 DEF OwnCounted
<1>10. AllCovered(z)
  <2> SUFFICES ASSUME NEW v \in Virtual, z.pte[v] # NoPte
               PROVE  z.pte[v].w /\ \E j \in 1 .. Len(ns) : Covers(ns[j], v)
    BY <1>2 DEF AllCovered
  <2>1. ~Covers(e, v) /\ z.pte[v] = r.pte[v]
    BY <1>3
  <2>2. PICK k \in 1 .. Len(ms) : z.pte[v].w /\ Covers(ms[k], v)
    BY <1>2, <1>7, <2>1 DEF AllCovered
  <2>3. k # i
    BY <1>3, <2>1, <2>2
  <2>4. CASE k < i
    <3>1. k \in 1 .. Len(ms) - 1 /\ k \in 1 .. Len(ns)
      BY <1>2, <1>3, <2>4
    <3>2. ns[k] = ms[k]
      BY <1>3, <2>4, <3>1
    <3> QED
      BY <2>2, <3>1, <3>2
  <2>5. CASE k > i
    <3>1. k - 1 \in 1 .. Len(ms) - 1 /\ k - 1 \in 1 .. Len(ns) /\ ~(k - 1 < i) /\ k - 1 + 1 = k
      BY <1>2, <1>3, <2>5
    <3>2. ns[k - 1] = ms[k]
      BY <1>3, <3>1
    <3> QED
      BY <2>2, <3>1, <3>2
  <2>6. k \in Nat /\ i \in Nat
    OBVIOUS
  <2> QED
    BY <2>3, <2>4, <2>5, <2>6
<1> QED
  BY <1>1, <1>8, <1>9, <1>10 DEF Honest

LEMMA HonestLoaded ==
  ASSUME NEW s, Sound(s), NEW p \in Procs, NEW v \in Virtual, NEW i, NEW t, Loaded(s, t, p, v, i),
         Honest(s.proc[p], p)
  PROVE  Honest(t.proc[p], p)
<1>1. PICK r \in ProcRecs, z \in ProcRecs : r = s.proc[p] /\ z = t.proc[p]
  BY MachineIs DEF Sound, Loaded
<1>2a. PICK ms \in Seq(EntryRecs) : \E ns : ms = r.mmaps /\ ns = z.mmaps /\ Len(ms) \in Nat
  BY <1>1, ProcIs
<1>2. PICK ns : ms = r.mmaps /\ ns = z.mmaps /\ Len(ms) \in Nat
  BY <1>2a
<1>3. /\ r.pte[v] = NoPte /\ i \in 1 .. Len(ms) /\ Covers(ms[i], v)
      /\ z.pte[v].w /\ \A w \in Virtual \ {v} : z.pte[w] = r.pte[w]
  BY <1>1, <1>2 DEF Loaded
<1>4. /\ Len(ns) = Len(ms)
      /\ \A j \in 1 .. Len(ms) : /\ ns[j].addr = ms[j].addr /\ ns[j].length = ms[j].length
                                 /\ ns[j].mapping_process = ms[j].mapping_process
                                 /\ ns[j].loaded = IF j = i THEN ms[j].loaded + 1 ELSE ms[j].loaded
  BY <1>1, <1>2 DEF Loaded, Bumped
<1>5. z.pte[v] # NoPte
  <2>1. z.pte[v] \in PteRecs
    BY ProcIs
  <2> QED
    BY <1>3, <2>1, PteIs, Sizes
<1>6. \A j \in 1 .. Len(ms), w \in Virtual : Covers(ns[j], w) <=> Covers(ms[j], w)
  BY <1>4 DEF Covers
<1>7. OwnApart(r, p) /\ OwnCounted(r, p) /\ AllCovered(r)
  BY <1>1 DEF Honest
<1>8. OwnApart(z, p)
  <2> SUFFICES ASSUME NEW k \in 1 .. Len(ns), NEW j \in 1 .. Len(ns), ns[k].mapping_process = p, k # j
               PROVE  Disjoint(ns[k], ns[j])
    BY <1>2 DEF OwnApart
  <2>1. Disjoint(ms[k], ms[j])
    BY <1>2, <1>4, <1>7 DEF OwnApart
  <2> QED
    BY <1>4, <1>6, <2>1 DEF Disjoint
<1>9. OwnCounted(z, p)
  <2> SUFFICES ASSUME NEW j \in 1 .. Len(ns), ns[j].mapping_process = p
               PROVE  ns[j].loaded = Cardinality(Present(z, ns[j]))
    BY <1>2 DEF OwnCounted
  <2>1. j \in 1 .. Len(ms) /\ ms[j].mapping_process = p
    BY <1>4
  <2>2. ms[j].loaded = Cardinality(Present(r, ms[j]))
    BY <1>2, <1>7, <2>1 DEF OwnCounted
  <2>3. CASE j = i
    <3>1. PICK P : P = Present(r, ms[i])
      OBVIOUS
    <3>2. v \notin P /\ Present(z, ns[j]) = P \cup {v}
      BY <1>3, <1>5, <1>6, <2>1, <2>3, <3>1 DEF Present
    <3>3. IsFiniteSet(P)
      BY <3>1, PresentFinite
    <3>4. Cardinality(P \cup {v}) = Cardinality(P) + 1
      BY <3>2, <3>3, FS_AddElement
    <3> QED
      BY <1>4, <2>1, <2>2, <2>3, <3>1, <3>2, <3>4
  <2>4. CASE j # i
    <3>1. Disjoint(ms[j], ms[i])
      BY <1>2, <1>3, <1>7, <2>1, <2>4 DEF OwnApart
    <3>2. ~Covers(ms[j], v)
      BY <1>3, <3>1 DEF Disjoint
    <3>3. Present(z, ns[j]) = Present(r, ms[j])
      BY <1>3, <1>6, <2>1, <3>2 DEF Present
    <3> QED
      BY <1>4, <2>1, <2>2, <2>4, <3>3
  <2> QED
    BY <2>3, <2>4
<1>10. AllCovered(z)
  <2> SUFFICES ASSUME NEW w \in Virtual, z.pte[w] # NoPte
               PROVE  z.pte[w].w /\ \E j \in 1 .. Len(ns) : Covers(ns[j], w)
    BY <1>2 DEF AllCovered
  <2>1. CASE w = v
    BY <1>3, <1>4, <1>6, <2>1
  <2>2. CASE w # v
    <3>1. PICK j \in 1 .. Len(ms) : z.pte[w].w /\ Covers(ms[j], w)
      BY <1>2, <1>3, <1>7, <2>2 DEF AllCovered
    <3> QED
      BY <1>4, <1>6, <3>1
  <2> QED
    BY <2>1, <2>2
<1> QED
  BY <1>1, <1>8, <1>9, <1>10 DEF Honest

\* The steps that leave the processes alone.
LEMMA IdleProcs ==
  ASSUME Memory, Idles PROVE m'.proc = m.proc /\ m'.file = m.file /\ m'.data = m.data
<1>1. m \in Machines
  BY DEF Memory, Sound
<1>2. CASE m' = panic(m)
  BY <1>1, <1>2, Panic DEF SameMem
<1> QED
  BY <1>2 DEF Idles

LEMMA StoreProcs ==
  ASSUME Memory, Stores PROVE m'.proc = m.proc /\ m'.file = m.file /\ m'.halted = m.halted
<1>1. PICK p \in Procs, v \in Virtual :
        m.proc[p].pte[v] # NoPte /\ m' = PutData(m, m.proc[p].pte[v].page, 1)
  BY DEF Stores
<1>2. PICK g, x : g = m.proc[p].pte[v].page /\ x = 1
  OBVIOUS
<1>3. g \in Pages /\ x \in Data /\ m' = PutData(m, g, x)
  BY <1>1, <1>2, MachineIs, ProcIs, PteIs DEF Data, Memory, Sound
<1> QED
  BY <1>3, DataPut DEF Memory

\* A slot of the process table is vacant when it is unused or a zombie's.
SlotVacant(r, ups) ==
  /\ r.state = "UNUSED"
       => ~r.fd /\ \A i \in 1 .. Len(r.mmaps) : r.mmaps[i].mapping_process = 0
  /\ r.state = "ZOMBIE" => ~r.fd /\ r.mmaps = << >> /\ "exited" \in ups

LEMMA VacantIs == Vacant <=> \A q \in Procs : SlotVacant(m.proc[q], upset)
BY DEF Vacant, SlotVacant, Mapped

LEMMA VacantInit == Init => Vacant
<1> SUFFICES ASSUME Init, NEW q \in Procs PROVE SlotVacant(m.proc[q], upset)
  BY VacantIs
<1>1. m.proc = [p \in Procs |->
                   CASE p = 1 -> [Unused EXCEPT !.state = "RUNNABLE", !.image = 1]
                     [] p = 2 -> [Unused EXCEPT !.state = "RUNNABLE", !.image = 2,
                                                !.parent = initproc, !.fd = TRUE]
                     [] OTHER -> Unused]
  BY DEF Init
<1>2. CASE q \in {1, 2}
  <2>1. m.proc[q].state = "RUNNABLE"
    BY <1>1, <1>2 DEF Unused
  <2> QED
    BY <2>1 DEF SlotVacant
<1>3. CASE q \notin {1, 2}
  <2>1. m.proc[q] = Unused
    BY <1>1, <1>3
  <2>2. m.proc[q].state = "UNUSED" /\ ~m.proc[q].fd /\ m.proc[q].mmaps = << >>
    BY <2>1 DEF Unused
  <2> QED
    BY <2>2 DEF SlotVacant
<1> QED
  BY <1>2, <1>3

LEMMA VacantStep == Memory /\ Vacant /\ [Next]_vars => Vacant'
<1> SUFFICES ASSUME Memory, Vacant, Steps PROVE Vacant'
  BY NextIs
<1>0. \A q \in Procs : SlotVacant(m.proc[q], upset)
  BY VacantIs
<1>1. upset \subseteq upset'
  BY DEF Steps, Idles, Maps, Unmaps, Remaps, Kills, Loads, Stores, Forks, Execs, Departs, Exits, Reaps
<1>2. \A q \in Procs : SlotVacant(m.proc[q], upset')
  BY <1>0, <1>1 DEF SlotVacant
<1> SUFFICES ASSUME NEW q \in Procs PROVE SlotVacant(m'.proc[q], upset')
  BY DEF Vacant, SlotVacant, Mapped
<1>3. ASSUME NEW p \in Procs, Others(m, m', p), q # p PROVE SlotVacant(m'.proc[q], upset')
  BY <1>2, <1>3 DEF Others
<1>4. ASSUME m'.proc[q].state \notin {"UNUSED", "ZOMBIE"} PROVE SlotVacant(m'.proc[q], upset')
  BY <1>4 DEF SlotVacant
<1>5. CASE Idles \/ Stores
  BY <1>2, <1>5, IdleProcs, StoreProcs
<1>6. CASE Maps
  BY <1>3, <1>4, <1>6 DEF Maps, NewMapping, Core, Running
<1>7. CASE Unmaps
  BY <1>3, <1>4, <1>7 DEF Unmaps, Unmapped, Core, Running
<1>8. CASE Remaps
  BY <1>3, <1>4, <1>8 DEF Remaps, Remapped, Running
<1>9. CASE Kills
  BY <1>3, <1>4, <1>9 DEF Kills, Killed, Running
<1>10. CASE Loads
  BY ZenonT(90), <1>3, <1>4, <1>10 DEF Loads, Loaded, Core, Running
<1>11. CASE Forks
  <2>1. PICK p \in Procs, np \in Procs : Forked(m, m', p, np)
    BY <1>11 DEF Forks
  <2>2. CASE q # np
    BY <1>3, <2>1, <2>2 DEF Forked
  <2>3. CASE q = np /\ m'.proc[q].state = "RUNNABLE"
    BY <1>4, <2>3
  <2>4. CASE q = np /\ m'.proc[q].state = "UNUSED"
    <3>1. m'.proc[q].fd = m.proc[q].fd /\ m.proc[q].state = "UNUSED"
      BY <2>1, <2>4 DEF Forked
    <3>2. ASSUME NEW i \in 1 .. Len(m'.proc[q].mmaps) PROVE m'.proc[q].mmaps[i].mapping_process = 0
      BY ZenonT(90), <1>2, <2>1, <2>4, <3>1 DEF Forked, Grown, SlotVacant
    <3> QED
      BY <1>2, <2>4, <3>1, <3>2 DEF SlotVacant
  <2> QED
    BY <2>1, <2>2, <2>3, <2>4 DEF Forked
<1>12. CASE Execs
  BY <1>3, <1>4, <1>12 DEF Execs, Execed, Running
<1>13. CASE Departs
  BY <1>3, <1>4, <1>13 DEF Departs, Departed, Core
<1>14. CASE Exits
  <2>1. PICK p \in Procs : /\ m.proc[p].mmaps = << >> /\ Exited(m, m', p) /\ "exited" \in upset'
    BY <1>14 DEF Exits
  <2>2. CASE q = p
    BY <2>1, <2>2 DEF Exited, SlotVacant
  <2>3. CASE q # p
    BY <1>2, <2>1, <2>3 DEF Exited, SlotVacant
  <2> QED
    BY <2>2, <2>3
<1>15. CASE Reaps
  <2>1. PICK o \in Procs : m.proc[o].state = "ZOMBIE" /\ Reaped(m, m', o)
    BY <1>15 DEF Reaps
  <2>2. CASE q # o
    BY <1>3, <2>1, <2>2 DEF Reaped
  <2>3. CASE q = o
    <3>1. /\ m'.proc[q].state = "UNUSED" /\ m'.proc[q].fd = m.proc[q].fd
          /\ m'.proc[q].mmaps = m.proc[q].mmaps /\ ~m.proc[q].fd /\ m.proc[q].mmaps = << >>
      BY <1>2, <2>1, <2>3 DEF Reaped, SlotVacant
    <3> QED
      BY <3>1 DEF SlotVacant
  <2> QED
    BY <2>2, <2>3
<1> QED
  BY <1>5, <1>6, <1>7, <1>8, <1>9, <1>10, <1>11, <1>12, <1>13, <1>14, <1>15 DEF Steps

\* A process that has no entry of its own and no page in the window.
LEMMA HonestFresh ==
  ASSUME NEW r, NEW p \in Procs, \A v \in Virtual : r.pte[v] = NoPte,
         \A i \in 1 .. Len(r.mmaps) : r.mmaps[i].mapping_process = 0
  PROVE  Honest(r, p)
<1>1. p # 0
  BY WMapAssumption
<1> QED
  BY <1>1 DEF Honest, OwnApart, OwnCounted, AllCovered

LEMMA InfoInit == Init => Info
<1> SUFFICES ASSUME Init, NEW q \in Procs PROVE Honest(m.proc[q], q)
  BY DEF Info
<1>1. m.proc = [p \in Procs |->
                   CASE p = 1 -> [Unused EXCEPT !.state = "RUNNABLE", !.image = 1]
                     [] p = 2 -> [Unused EXCEPT !.state = "RUNNABLE", !.image = 2,
                                                !.parent = initproc, !.fd = TRUE]
                     [] OTHER -> Unused]
  BY DEF Init
<1>2. m.proc[q].pte = Unused.pte /\ m.proc[q].mmaps = << >>
  <2>1. CASE q \in {1, 2}
    BY <1>1, <2>1 DEF Unused
  <2>2. CASE q \notin {1, 2}
    BY <1>1, <2>2 DEF Unused
  <2> QED
    BY <2>1, <2>2
<1>3. \A v \in Virtual : m.proc[q].pte[v] = NoPte
  BY <1>2, NoPtes
<1> QED
  BY <1>2, <1>3, HonestFresh

LEMMA InfoStep == Memory /\ Vacant /\ Info /\ [Next]_vars => Info'
<1> SUFFICES ASSUME Memory, Vacant, Info, Steps, "resized" \notin upset' PROVE Info'
  BY NextIs DEF Info
<1>1. upset \subseteq upset'
  BY DEF Steps, Idles, Maps, Unmaps, Remaps, Kills, Loads, Stores, Forks, Execs, Departs, Exits, Reaps
<1>2. \A p \in Procs : m.proc[p].state = "RUNNABLE" => Honest(m.proc[p], p)
  BY <1>1 DEF Info
<1>3. Sound(m)
  BY DEF Memory
<1> SUFFICES ASSUME NEW q \in Procs, m'.proc[q].state = "RUNNABLE" PROVE Honest(m'.proc[q], q)
  BY DEF Info
<1>4. ASSUME NEW p \in Procs, Others(m, m', p), q # p PROVE Honest(m'.proc[q], q)
  BY <1>2, <1>4 DEF Others
<1>5. CASE Idles \/ Stores
  BY <1>2, <1>5, IdleProcs, StoreProcs
<1>6. CASE Maps
  <2>1a. PICK p \in Procs : \E e : Running(p) /\ NewMapping(m, m', p, e)
    BY <1>6 DEF Maps
  <2>1. PICK e : Running(p) /\ NewMapping(m, m', p, e)
    BY <2>1a
  <2>2. Honest(m'.proc[p], p)
    BY <1>2, <1>3, <2>1, HonestMapped DEF Running
  <2> QED
    BY <1>4, <2>1, <2>2 DEF NewMapping
<1>7. CASE Unmaps
  <2>0. PICK p \in Procs : \E i \in Mapped(p) : Running(p) /\ Unmapped(m, m', p, i, m.proc[p].mmaps[i])
    BY <1>7 DEF Unmaps
  <2>1. PICK i \in Mapped(p) : Running(p) /\ Unmapped(m, m', p, i, m.proc[p].mmaps[i])
    BY <2>0
  <2>2. PICK e : e = m.proc[p].mmaps[i]
    OBVIOUS
  <2>3. i \in 1 .. Len(m.proc[p].mmaps) /\ Unmapped(m, m', p, i, e) /\ Honest(m.proc[p], p)
    BY <1>2, <2>1, <2>2 DEF Mapped, Running
  <2>4. Honest(m'.proc[p], p)
    BY <1>3, <2>2, <2>3, HonestUnmapped
  <2> QED
    BY <1>4, <2>1, <2>4 DEF Unmapped
<1>8. CASE Kills
  <2>1. PICK p \in Procs : Killed(m, m', p)
    BY <1>8 DEF Kills
  <2>2. q # p
    BY <2>1 DEF Killed
  <2> QED
    BY <1>4, <2>1, <2>2 DEF Killed
<1>9. CASE Loads
  <2>1a. PICK p \in Procs, v \in Virtual : \E i : Running(p) /\ Loaded(m, m', p, v, i)
    BY <1>9 DEF Loads
  <2>1. PICK i : Running(p) /\ Loaded(m, m', p, v, i)
    BY <2>1a
  <2>2. Honest(m'.proc[p], p)
    BY <1>2, <1>3, <2>1, HonestLoaded DEF Running
  <2> QED
    BY <1>4, <2>1, <2>2 DEF Loaded
<1>10. CASE Forks
  <2>1. PICK p \in Procs, np \in Procs : Forked(m, m', p, np)
    BY <1>10 DEF Forks
  <2>2. CASE q # np
    BY <1>4, <2>1, <2>2 DEF Forked
  <2>3. CASE q = np
    <3>1. m.proc[q].state = "UNUSED" /\ \A v \in Virtual : m'.proc[q].pte[v] = NoPte
      BY <2>1, <2>3 DEF Forked
    <3>2. \A i \in 1 .. Len(m.proc[q].mmaps) : m.proc[q].mmaps[i].mapping_process = 0
      BY <3>1 DEF Vacant, Mapped
    <3>3. \A i \in 1 .. Len(m'.proc[q].mmaps) : m'.proc[q].mmaps[i].mapping_process = 0
      BY <2>1, <2>3, <3>2 DEF Forked, Grown
    <3> QED
      BY <3>1, <3>3, HonestFresh
  <2> QED
    BY <2>2, <2>3
<1>11. CASE Departs
  <2>1. PICK p \in Procs : m.proc[p].state = "EXITING" /\ Departed(m, m', p, m.proc[p].mmaps[1])
    BY <1>11 DEF Departs
  <2>2. q # p
    BY <2>1 DEF Departed, Core
  <2> QED
    BY <1>4, <2>1, <2>2 DEF Departed
<1>12. CASE Exits
  <2>1. PICK p \in Procs : Exited(m, m', p)
    BY <1>12 DEF Exits
  <2>2. q # p /\ m.proc[q].state = "RUNNABLE"
    BY <2>1 DEF Exited
  <2>3. m'.proc[q].pte = m.proc[q].pte /\ m'.proc[q].mmaps = m.proc[q].mmaps
    BY <2>1 DEF Exited
  <2>4. Honest(m.proc[q], q)
    BY <1>2, <2>2
  <2> QED
    BY ZenonT(90), <2>3, <2>4 DEF Honest, OwnApart, OwnCounted, AllCovered, Present
<1>13. CASE Reaps
  <2>1. PICK o \in Procs : Reaped(m, m', o)
    BY <1>13 DEF Reaps
  <2>2. q # o
    BY <2>1 DEF Reaped
  <2> QED
    BY <1>4, <2>1, <2>2 DEF Reaped
<1>14. ~Remaps /\ ~Execs
  BY DEF Remaps, Execs
<1> QED
  BY <1>5, <1>6, <1>7, <1>8, <1>9, <1>10, <1>11, <1>12, <1>13, <1>14 DEF Steps

LEMMA VirtualFinite == IsFiniteSet(Virtual)
<1>1. W - 1 + MaxLength \in Int
  BY Sizes
<1> QED
  BY <1>1, FS_Interval DEF Virtual

\* Where all pages fit the answer, none of them is left out.
LEMMA AllListed ==
  ASSUME NEW p, SZ - 1 + Cardinality(Upages(p)) <= MAX_UPAGE_INFO
  PROVE  sys_getpgdirinfo(p) = Upages(p)
<1>1. IsFiniteSet(Upages(p))
  <2>1. IsFiniteSet(Virtual) /\ Upages(p) \subseteq Virtual
    BY VirtualFinite DEF Upages
  <2> QED
    BY <2>1, FS_Subset
<1>2. ASSUME NEW v \in Upages(p)
      PROVE  SZ - 1 + Cardinality({u \in Upages(p) : u < v}) < MAX_UPAGE_INFO
  <2>1. PICK B : B = {u \in Upages(p) : u < v}
    OBVIOUS
  <2>2. B \subseteq Upages(p) /\ v \notin B
    BY <2>1, Sizes DEF Upages
  <2>3. B # Upages(p) /\ IsFiniteSet(B)
    BY <1>1, <2>2, FS_Subset
  <2>4. Cardinality(B) < Cardinality(Upages(p)) /\ Cardinality(B) \in Nat /\ Cardinality(Upages(p)) \in Nat
    BY <1>1, <2>2, <2>3, FS_Subset, FS_CardinalityType
  <2> QED
    BY <2>1, <2>4, WMapAssumption
<1> QED
  BY <1>2 DEF sys_getpgdirinfo

LEMMA InfoIsTrue == Info => InfoTrue
<1> SUFFICES ASSUME Info, "resized" \notin upset, NEW p \in Procs, NEW i \in Mapped(p), i <= MAX_WMMAP_INFO,
                    m.proc[p].mmaps[i].mapping_process = p, m.proc[p].state = "RUNNABLE"
             PROVE  Agree(p, i)
  BY DEF InfoTrue, Agree, sys_getwmapinfo
<1>1. Honest(m.proc[p], p)
  BY DEF Info
<1>2. i \in 1 .. Len(m.proc[p].mmaps)
  BY DEF Mapped
<1>3. PICK e, A, L : /\ e = m.proc[p].mmaps[i] /\ A = {v \in Upages(p) : Covers(e, v)}
                     /\ L = {v \in sys_getpgdirinfo(p) : Covers(e, v)}
  OBVIOUS
<1>4. e.loaded = Cardinality(A)
  <2>1. e.loaded = Cardinality(Present(m.proc[p], e))
    BY <1>1, <1>2, <1>3 DEF Honest, OwnCounted
  <2>2. Present(m.proc[p], e) = A
    BY <1>3 DEF Present, Upages
  <2> QED
    BY <2>1, <2>2
<1>5. sys_getwmapinfo(p)[i] = e.loaded
  BY <1>3 DEF sys_getwmapinfo
<1>6. Cardinality(L) <= Cardinality(A)
  <2>1. L \subseteq A /\ A \subseteq Virtual
    BY <1>3 DEF sys_getpgdirinfo, Upages
  <2> QED
    BY <2>1, VirtualFinite, FS_Subset
<1>7. SZ - 1 + Cardinality(Upages(p)) <= MAX_UPAGE_INFO => L = A
  BY <1>3, AllListed
<1> QED
  BY <1>3, <1>4, <1>5, <1>6, <1>7 DEF Agree

\* If wremap and exec have not been used, what getwmapinfo reports of an entry and the
\* pages getpgdirinfo lists agree, up to what getpgdirinfo has no room for.
THEOREM InfoCorrect == Spec => []InfoTrue
<1>1. Init => Memory /\ Vacant /\ Info
  BY MemoryInit, VacantInit, InfoInit
<1>2. Memory /\ Vacant /\ Info /\ [Next]_vars => (Memory /\ Vacant /\ Info)'
  BY MemoryStep, VacantStep, InfoStep
<1> QED
  BY <1>1, <1>2, InfoIsTrue, PTL DEF Spec

-----------------------------------------------------------------------------
(* References to the open file *)

\* How a process with record r refers to the file: 0 is its descriptor.
Held(r) == {j \in 0 .. NPAGES :
              IF j = 0 THEN r.fd
              ELSE r.state \notin {"UNUSED", "STUCK"} /\ j <= Len(r.mmaps) /\ r.mmaps[j].file}

RefsOf(s) == {h \in Procs \X (0 .. NPAGES) : h[2] \in Held(s.proc[h[1]])}

LEMMA HoldersAre == Holders = RefsOf(m)
<1>1. NPAGES \in Nat
  BY Sizes
<1>2. ASSUME NEW h \in Holders PROVE h \in RefsOf(m)
  <2>1. ASSUME NEW p \in Procs, m.proc[p].fd, h = <<p, 0>> PROVE h \in RefsOf(m)
    BY <1>1, <2>1 DEF RefsOf, Held
  <2>2. ASSUME h \in Procs \X (1 .. NPAGES),
               m.proc[h[1]].state \notin {"UNUSED", "STUCK"},
               h[2] <= Len(m.proc[h[1]].mmaps), m.proc[h[1]].mmaps[h[2]].file
        PROVE  h \in RefsOf(m)
    <3>1. PICK p \in Procs, j \in 1 .. NPAGES : h = <<p, j>>
      BY <2>2
    <3>2. j \in 0 .. NPAGES /\ j # 0 /\ h[1] = p /\ h[2] = j
      BY <1>1, <3>1
    <3>3. j \in Held(m.proc[p])
      BY <2>2, <3>2 DEF Held
    <3> QED
      BY <3>1, <3>2, <3>3 DEF RefsOf
  <2> QED
    BY <2>1, <2>2 DEF Holders
<1>3. ASSUME NEW h \in RefsOf(m) PROVE h \in Holders
  <2>1. PICK p \in Procs, j \in 0 .. NPAGES : h = <<p, j>> /\ j \in Held(m.proc[p])
    BY DEF RefsOf
  <2>2. CASE j = 0
    <3>1. m.proc[p].fd
      BY <2>1, <2>2 DEF Held
    <3> QED
      BY <2>1, <2>2, <3>1 DEF Holders
  <2>3. CASE j # 0
    <3>1. j \in 1 .. NPAGES
      BY <1>1, <2>3
    <3>2. /\ m.proc[p].state \notin {"UNUSED", "STUCK"}
          /\ j <= Len(m.proc[p].mmaps) /\ m.proc[p].mmaps[j].file
      BY <2>1, <2>3 DEF Held
    <3>3. h \in Procs \X (1 .. NPAGES) /\ h[1] = p /\ h[2] = j
      BY <2>1, <3>1
    <3> QED
      BY <3>2, <3>3 DEF Holders
  <2> QED
    BY <2>2, <2>3
<1> QED
  BY <1>2, <1>3

LEMMA HeldFinite ==
  ASSUME NEW r PROVE IsFiniteSet(Held(r)) /\ Cardinality(Held(r)) \in Nat
<1>1. IsFiniteSet(0 .. NPAGES)
  BY Sizes, FS_Interval
<1>2. Held(r) \in SUBSET (0 .. NPAGES)
  BY DEF Held
<1> QED
  BY <1>1, <1>2, FS_Subset, FS_CardinalityType

LEMMA RefsFinite ==
  ASSUME NEW s PROVE IsFiniteSet(RefsOf(s)) /\ Cardinality(RefsOf(s)) \in Nat
<1>1. IsFiniteSet(0 .. NPAGES) /\ IsFiniteSet(Procs)
  BY Sizes, FS_Interval, WMapAssumption
<1>2. IsFiniteSet(Procs \X (0 .. NPAGES))
  BY <1>1, FS_Product
<1>3. RefsOf(s) \in SUBSET (Procs \X (0 .. NPAGES))
  BY DEF RefsOf
<1> QED
  BY <1>2, <1>3, FS_Subset, FS_CardinalityType

\* The references of one process and those of the others.
LEMMA RefsSplit ==
  ASSUME NEW s, NEW p \in Procs, NEW A, A = {h \in RefsOf(s) : h[1] # p}
  PROVE  /\ IsFiniteSet(A) /\ Cardinality(A) \in Nat
         /\ Cardinality(RefsOf(s)) = Cardinality(A) + Cardinality(Held(s.proc[p]))
<1>1. PICK B : B = {h \in RefsOf(s) : h[1] = p}
  OBVIOUS
<1>2. PICK H : H = Held(s.proc[p])
  OBVIOUS
<1>3. IsFiniteSet(A) /\ IsFiniteSet(B) /\ IsFiniteSet(H)
  <2>1. A \in SUBSET RefsOf(s) /\ B \in SUBSET RefsOf(s)
    BY <1>1
  <2> QED
    BY <1>2, <2>1, RefsFinite, HeldFinite, FS_Subset
<1>4. RefsOf(s) = A \cup B /\ A \cap B = {}
  BY <1>1
<1>5. PICK f : f = [j \in H |-> <<p, j>>]
  OBVIOUS
<1>6. \A j \in H : <<p, j>> \in B
  <2>1. H \subseteq 0 .. NPAGES
    BY <1>2 DEF Held
  <2> QED
    BY <1>1, <1>2, <2>1 DEF RefsOf
<1>7. f \in Bijection(H, B)
  <2>1. f \in [H -> B] /\ (\A j \in H : f[j] = <<p, j>>) /\ DOMAIN f = H
    BY <1>5, <1>6
  <2>2. ASSUME NEW h \in B PROVE \E j \in H : f[j] = h
    <3>1. PICK q \in Procs, j \in 0 .. NPAGES : h = <<q, j>> /\ j \in Held(s.proc[q]) /\ q = p
      BY <1>1 DEF RefsOf
    <3> QED
      BY <1>2, <2>1, <3>1
  <2>3. \A j, k \in H : f[j] = f[k] => j = k
    BY <2>1
  <2> QED
    BY <2>1, <2>2, <2>3 DEF Bijection, Injection, Surjection, IsInjective
<1>8. Cardinality(B) = Cardinality(H)
  BY <1>3, <1>7, FS_Bijection DEF ExistsBijection
<1>9. Cardinality(A \cup B) = Cardinality(A) + Cardinality(B)
  <2>1. Cardinality(A \cup B) = Cardinality(A) + Cardinality(B) - Cardinality(A \cap B)
    BY <1>3, FS_Union
  <2>2. Cardinality(A \cap B) = 0 /\ Cardinality(A) \in Nat /\ Cardinality(B) \in Nat
    BY <1>3, <1>4, FS_EmptySet, FS_CardinalityType
  <2> QED
    BY <2>1, <2>2
<1> QED
  BY <1>2, <1>3, <1>4, <1>8, <1>9, FS_CardinalityType

\* If only process p's references change, so does their number.
LEMMA RefsChange ==
  ASSUME NEW s, NEW t, NEW p \in Procs, \A q \in Procs \ {p} : Held(t.proc[q]) = Held(s.proc[q]),
         NEW d \in Int, Cardinality(Held(t.proc[p])) <= Cardinality(Held(s.proc[p])) + d,
         NEW n \in Int, n >= Cardinality(RefsOf(s))
  PROVE  n + d >= Cardinality(RefsOf(t))
<1>1. PICK A : A = {h \in RefsOf(s) : h[1] # p}
  OBVIOUS
<1>2. A = {h \in RefsOf(t) : h[1] # p}
  BY <1>1 DEF RefsOf
<1>3. PICK x, y, z : x = Cardinality(A) /\ y = Cardinality(Held(s.proc[p])) /\ z = Cardinality(Held(t.proc[p]))
  OBVIOUS
<1>4. x \in Nat /\ y \in Nat /\ z \in Nat
  BY <1>1, <1>3, RefsSplit, HeldFinite
<1>5. Cardinality(RefsOf(s)) = x + y
  BY <1>1, <1>3, RefsSplit
<1>6. Cardinality(RefsOf(t)) = x + z
  BY <1>2, <1>3, RefsSplit
<1> QED
  BY <1>3, <1>4, <1>5, <1>6

\* No list is longer than there are pages.
LEMMA ListFits ==
  ASSUME NEW r \in ProcRecs, Neat(r) PROVE Len(r.mmaps) \in Nat /\ Len(r.mmaps) <= NPAGES
<1>1. PICK n \in Nat : n = Len(r.mmaps)
  BY ProcIs
<1>2. PICK f : f = [i \in 1 .. n |-> r.mmaps[i].page]
  OBVIOUS
<1>3. f \in [1 .. n -> Pages] /\ DOMAIN f = 1 .. n
  BY <1>1, <1>2, ProcIs, EntryIs
<1>4. \A i, j \in 1 .. n : f[i] = f[j] => i = j
  BY <1>1, <1>2 DEF Neat, EntriesOnce
<1>5. f \in Injection(1 .. n, Pages)
  BY <1>3, <1>4 DEF Injection, IsInjective
<1>6. IsFiniteSet(Pages) /\ Cardinality(Pages) = NPAGES
  <2>1. NPAGES \in Nat /\ ~(1 > NPAGES)
    BY Sizes
  <2>2. IsFiniteSet(1 .. NPAGES) /\ Cardinality(1 .. NPAGES) = NPAGES - 1 + 1
    BY <2>1, FS_Interval
  <2> QED
    BY <2>1, <2>2 DEF Pages
<1>7. Cardinality(1 .. n) <= NPAGES
  BY <1>5, <1>6, FS_Injection
<1>8. Cardinality(1 .. n) = n
  <2>1. CASE n = 0
    <3>1. 1 .. n = {}
      BY <2>1
    <3> QED
      BY <2>1, <3>1, FS_EmptySet
  <2>2. CASE n # 0
    <3>1. 1 \in Int /\ n \in Int /\ ~(1 > n)
      BY <2>2
    <3>2. Cardinality(1 .. n) = n - 1 + 1
      BY <3>1, FS_Interval
    <3> QED
      BY <3>2
  <2> QED
    BY <2>1, <2>2
<1> QED
  BY <1>1, <1>7, <1>8

\* References that can be told apart among others are not more.
LEMMA Fewer ==
  ASSUME NEW A, NEW B, IsFiniteSet(B), NEW f \in [A -> B], \A j, k \in A : f[j] = f[k] => j = k
  PROVE  IsFiniteSet(A) /\ Cardinality(A) <= Cardinality(B)
<1>1. DOMAIN f = A
  OBVIOUS
<1>2. f \in Injection(A, B)
  BY <1>1 DEF Injection, IsInjective
<1> QED
  BY <1>2, FS_Injection

\* The states in which a process's entries count.
Dead == {"UNUSED", "STUCK"}

LEMMA HeldIs ==
  ASSUME NEW r, NEW j
  PROVE  j \in Held(r) <=> /\ j \in 0 .. NPAGES
                           /\ IF j = 0 THEN r.fd
                              ELSE r.state \notin Dead /\ j <= Len(r.mmaps) /\ r.mmaps[j].file
BY DEF Held, Dead

\* The same entries.
LEMMA HeldSame ==
  ASSUME NEW r \in ProcRecs, NEW z, z.fd => r.fd, r.state \notin Dead,
         Len(z.mmaps) = Len(r.mmaps), \A i \in 1 .. Len(r.mmaps) : z.mmaps[i].file = r.mmaps[i].file
  PROVE  Cardinality(Held(z)) <= Cardinality(Held(r))
<1>0. Len(r.mmaps) \in Nat
  BY ProcIs
<1>1. ASSUME NEW j \in Held(z) PROVE j \in Held(r)
  <2>1. CASE j = 0
    BY <1>1, <2>1, HeldIs
  <2>2. CASE j # 0
    <3>1. j \in 0 .. NPAGES /\ j <= Len(r.mmaps) /\ z.mmaps[j].file
      BY <1>1, <2>2, HeldIs
    <3>2. j \in 1 .. Len(r.mmaps)
      BY <1>0, <2>2, <3>1
    <3> QED
      BY <2>2, <3>1, <3>2, HeldIs
  <2> QED
    BY <2>1, <2>2
<1>2. Held(z) \in SUBSET Held(r)
  BY <1>1
<1> QED
  BY <1>2, HeldFinite, FS_Subset

\* A process whose entries do not count.
LEMMA HeldDead ==
  ASSUME NEW r, NEW z, z.fd => r.fd, z.state \in Dead \/ z.mmaps = << >>
  PROVE  Cardinality(Held(z)) <= Cardinality(Held(r))
<1>1. ASSUME NEW j \in Held(z) PROVE j \in Held(r)
  <2>1. CASE j = 0
    BY <1>1, <2>1, HeldIs
  <2>2. CASE j # 0
    <3>1. j \in 0 .. NPAGES /\ z.state \notin Dead /\ j <= Len(z.mmaps)
      BY <1>1, <2>2, HeldIs
    <3>2. Len(z.mmaps) = 0
      BY <3>1
    <3> QED
      BY <2>2, <3>1, <3>2
  <2> QED
    BY <2>1, <2>2
<1>2. Held(z) \in SUBSET Held(r)
  BY <1>1
<1> QED
  BY <1>2, HeldFinite, FS_Subset

\* A new entry in front.
LEMMA HeldMapped ==
  ASSUME NEW r \in ProcRecs, NEW z, z.fd = r.fd, r.state \notin Dead, z.state = r.state,
         NEW e \in EntryRecs, z.mmaps = <<e>> \o r.mmaps
  PROVE  Cardinality(Held(z)) <= Cardinality(Held(r)) + IF e.file THEN 1 ELSE 0
<1>0. PICK ms \in Seq(EntryRecs), ns \in {z.mmaps} : ms = r.mmaps /\ ns = z.mmaps /\ Len(ms) \in Nat
  BY ProcIs
<1>1. Len(ns) = Len(ms) + 1 /\ ns[1] = e /\ \A j \in 1 .. Len(ms) : ns[j + 1] = ms[j]
  <2>1. ns = <<e>> \o ms
    BY <1>0
  <2> QED
    BY <2>1, Prepended
<1>2. PICK A : A = Held(z) \ {1}
  OBVIOUS
<1>3. PICK f : f = [j \in A |-> IF j = 0 THEN 0 ELSE j - 1]
  OBVIOUS
<1>4. ASSUME NEW j \in A PROVE f[j] \in Held(r) /\ j \in Nat /\ (j # 0 => f[j] = j - 1 /\ j > 1)
  <2>1. j \in Held(z) /\ j # 1 /\ j \in 0 .. NPAGES /\ NPAGES \in Nat
    BY <1>2, HeldIs, Sizes
  <2>2. CASE j = 0
    <3>1. f[j] = 0
      BY <1>3, <2>2
    <3>2. r.fd
      BY <2>1, <2>2, HeldIs
    <3>3. 0 \in 0 .. NPAGES
      BY <2>1
    <3> QED
      BY <2>2, <3>1, <3>2, <3>3, HeldIs
  <2>3. CASE j # 0
    <3>1. f[j] = j - 1 /\ j > 1 /\ j \in Nat
      BY <1>3, <2>1, <2>3
    <3>2. j <= Len(ns) /\ ns[j].file
      BY <1>0, <2>1, <2>3, HeldIs
    <3>3. PICK k \in 1 .. Len(ms) : k = j - 1
      BY <1>0, <1>1, <3>1, <3>2
    <3>4. ns[j] = ms[k] /\ k \in 0 .. NPAGES /\ k # 0 /\ k <= Len(ms)
      <4>1. k + 1 = j
        BY <3>1, <3>3
      <4> QED
        BY <1>0, <1>1, <2>1, <3>1, <3>3, <4>1
    <3>5. k \in Held(r)
      BY <1>0, <3>2, <3>4, HeldIs
    <3> QED
      BY <3>1, <3>3, <3>5
  <2> QED
    BY <2>2, <2>3
<1>5. ASSUME NEW j \in A, NEW k \in A, f[j] = f[k] PROVE j = k
  <2>1. j \in Nat /\ k \in Nat /\ (j # 0 => f[j] = j - 1 /\ j > 1) /\ (k # 0 => f[k] = k - 1 /\ k > 1)
    BY <1>4
  <2>2. (j = 0 => f[j] = 0) /\ (k = 0 => f[k] = 0)
    BY <1>3
  <2> QED
    BY <1>5, <2>1, <2>2
<1>6. Cardinality(A) <= Cardinality(Held(r))
  <2>1. f \in [A -> Held(r)]
    BY <1>3, <1>4
  <2> QED
    BY <1>5, <2>1, HeldFinite, Fewer
<1>7. Cardinality(A) = IF 1 \in Held(z) THEN Cardinality(Held(z)) - 1 ELSE Cardinality(Held(z))
  BY <1>2, HeldFinite, FS_RemoveElement
<1>8. 1 \in Held(z) => e.file
  <2>1. 1 # 0 /\ z.mmaps[1] = e
    BY <1>0, <1>1
  <2> QED
    BY <2>1, HeldIs
<1>9. Cardinality(Held(z)) \in Nat /\ Cardinality(Held(r)) \in Nat /\ e.file \in BOOLEAN
  BY HeldFinite, EntryIs
<1> QED
  BY <1>6, <1>7, <1>8, <1>9

\* An entry less.
LEMMA HeldUnmapped ==
  ASSUME NEW r \in ProcRecs, Neat(r), NEW z, z.fd = r.fd, r.state \notin Dead,
         NEW i \in 1 .. Len(r.mmaps), Without(r.mmaps, z.mmaps, i)
  PROVE  Cardinality(Held(z)) <= Cardinality(Held(r)) - IF r.mmaps[i].file THEN 1 ELSE 0
<1>0. PICK ms \in Seq(EntryRecs), ns \in {z.mmaps} : ms = r.mmaps /\ ns = z.mmaps /\ Len(ms) \in Nat
  BY ProcIs
<1>1. /\ Len(ns) = Len(ms) - 1 /\ i \in 1 .. Len(ms)
      /\ \A j \in 1 .. Len(ms) - 1 : ns[j] = IF j < i THEN ms[j] ELSE ms[j + 1]
  BY <1>0 DEF Without
<1>2. Len(ms) <= NPAGES /\ NPAGES \in Nat
  BY <1>0, ListFits, Sizes
<1>3. PICK f : f = [j \in Held(z) |-> IF j = 0 \/ j < i THEN j ELSE j + 1]
  OBVIOUS
<1>4. PICK B : B = Held(r) \ {i}
  OBVIOUS
<1>5. ASSUME NEW j \in Held(z)
      PROVE  /\ f[j] \in B /\ j \in Nat
             /\ f[j] = IF j = 0 \/ j < i THEN j ELSE j + 1
  <2>0. f[j] = IF j = 0 \/ j < i THEN j ELSE j + 1
    BY <1>3
  <2>1. j \in 0 .. NPAGES /\ j \in Nat
    BY <1>2, HeldIs
  <2>2. CASE j = 0
    <3>1. r.fd
      BY <2>2, HeldIs
    <3>2. j \in Held(r) /\ f[j] = j /\ j # i
      BY <2>0, <2>1, <2>2, <3>1, HeldIs
    <3> QED
      BY <1>4, <2>0, <2>1, <3>2
  <2>3. CASE j # 0
    <3>1. j <= Len(ns) /\ ns[j].file
      BY <1>0, <2>3, HeldIs
    <3>2. j \in 1 .. Len(ms) - 1
      BY <1>0, <1>1, <2>1, <2>3, <3>1
    <3>3. PICK k \in 1 .. Len(ms) : k = f[j] /\ k # i /\ ns[j] = ms[k]
      <4>1. CASE j < i
        BY <1>0, <1>1, <2>0, <3>2, <4>1
      <4>2. CASE ~(j < i)
        <5>1. f[j] = j + 1 /\ j + 1 \in 1 .. Len(ms) /\ j + 1 # i
          BY <1>0, <1>1, <2>0, <2>1, <2>3, <3>2, <4>2
        <5> QED
          BY <1>1, <3>2, <4>2, <5>1
      <4> QED
        BY <4>1, <4>2
    <3>4. k \in 0 .. NPAGES /\ k # 0 /\ k <= Len(ms)
      BY <1>0, <1>2
    <3>5. k \in Held(r)
      BY <1>0, <3>1, <3>3, <3>4, HeldIs
    <3> QED
      BY <1>4, <2>0, <2>1, <3>3, <3>5
  <2> QED
    BY <2>2, <2>3
<1>6. ASSUME NEW j \in Held(z), NEW k \in Held(z), f[j] = f[k] PROVE j = k
  <2>1. /\ j \in Nat /\ k \in Nat /\ i \in Nat /\ i >= 1
        /\ f[j] = (IF j = 0 \/ j < i THEN j ELSE j + 1)
        /\ f[k] = (IF k = 0 \/ k < i THEN k ELSE k + 1)
    BY <1>5
  <2>2. (IF j = 0 \/ j < i THEN j ELSE j + 1) = (IF k = 0 \/ k < i THEN k ELSE k + 1)
    BY <1>6, <2>1
  <2>3. j \in Nat /\ k \in Nat /\ i \in Nat /\ i >= 1
    BY <2>1
  <2> QED
    BY <2>2, <2>3
<1>7. IsFiniteSet(B) /\ Cardinality(B) = IF i \in Held(r) THEN Cardinality(Held(r)) - 1 ELSE Cardinality(Held(r))
  BY <1>4, HeldFinite, FS_RemoveElement
<1>8. Cardinality(Held(z)) <= Cardinality(B)
  <2>1. f \in [Held(z) -> B]
    BY <1>3, <1>5
  <2> QED
    BY <1>6, <1>7, <2>1, Fewer
<1>9. r.mmaps[i].file => i \in Held(r)
  <2>1. i \in 0 .. NPAGES /\ i # 0 /\ i <= Len(r.mmaps)
    BY <1>0, <1>2
  <2> QED
    BY <2>1, HeldIs
<1>10. Cardinality(Held(z)) \in Nat /\ Cardinality(Held(r)) \in Nat /\ r.mmaps[i].file \in BOOLEAN
  BY HeldFinite, ProcIs, EntryIs
<1> QED
  BY <1>7, <1>8, <1>9, <1>10

\* Entries that replace others.
LEMMA HeldRemapped ==
  ASSUME NEW r \in ProcRecs, Neat(r), NEW z \in ProcRecs, z.fd = r.fd, r.state \notin Dead,
         FilesFrom(r.mmaps, z.mmaps)
  PROVE  Cardinality(Held(z)) <= Cardinality(Held(r))
<1>1. PICK f : /\ f \in [1 .. Len(z.mmaps) -> 1 .. Len(r.mmaps)]
               /\ \A j, k \in 1 .. Len(z.mmaps) : f[j] = f[k] => j = k
               /\ \A j \in 1 .. Len(z.mmaps) : z.mmaps[j].file => r.mmaps[f[j]].file
  BY DEF FilesFrom
<1>2. Len(r.mmaps) \in Nat /\ Len(r.mmaps) <= NPAGES /\ NPAGES \in Nat /\ Len(z.mmaps) \in Nat
  BY ListFits, Sizes, ProcIs
<1>3. PICK g : g = [j \in Held(z) |-> IF j = 0 THEN 0 ELSE f[j]]
  OBVIOUS
<1>4. ASSUME NEW j \in Held(z)
      PROVE  /\ g[j] \in Held(r) /\ g[j] = (IF j = 0 THEN 0 ELSE f[j])
             /\ j # 0 => j \in 1 .. Len(z.mmaps) /\ f[j] # 0
  <2>0. g[j] = IF j = 0 THEN 0 ELSE f[j]
    BY <1>3
  <2>1. CASE j = 0
    <3>1. r.fd /\ 0 \in 0 .. NPAGES
      BY <1>2, <2>1, HeldIs
    <3>2. 0 \in Held(r)
      BY <3>1, HeldIs
    <3> QED
      BY <2>0, <2>1, <3>2
  <2>2. CASE j # 0
    <3>1. j \in 0 .. NPAGES /\ j <= Len(z.mmaps) /\ z.mmaps[j].file
      BY <2>2, HeldIs
    <3>2. j \in 1 .. Len(z.mmaps)
      BY <1>2, <2>2, <3>1
    <3>3. PICK k \in 1 .. Len(r.mmaps) : k = f[j] /\ r.mmaps[k].file
      BY <1>1, <3>1, <3>2
    <3>4. k \in 0 .. NPAGES /\ k # 0 /\ k <= Len(r.mmaps)
      BY <1>2
    <3>5. k \in Held(r)
      BY <3>3, <3>4, HeldIs
    <3> QED
      BY <2>0, <2>2, <3>2, <3>3, <3>4, <3>5
  <2> QED
    BY <2>1, <2>2
<1>5. ASSUME NEW j \in Held(z), NEW k \in Held(z), g[j] = g[k] PROVE j = k
  BY <1>1, <1>4, <1>5
<1>6. g \in [Held(z) -> Held(r)]
  BY <1>3, <1>4
<1> QED
  BY <1>5, <1>6, HeldFinite, Fewer

\* A child without entries of the file.
LEMMA HeldForked ==
  ASSUME NEW r, NEW z, z.fd \in BOOLEAN, \A i \in 1 .. Len(z.mmaps) : ~z.mmaps[i].file,
         z.mmaps \in Seq(EntryRecs)
  PROVE  Cardinality(Held(z)) <= Cardinality(Held(r)) + IF z.fd THEN 1 ELSE 0
<1>0. Len(z.mmaps) \in Nat /\ NPAGES \in Nat
  BY Sizes
<1>1. ASSUME NEW j \in Held(z) PROVE j = 0 /\ z.fd
  <2>1. CASE j # 0
    <3>1. j \in 0 .. NPAGES /\ j <= Len(z.mmaps) /\ z.mmaps[j].file
      BY <2>1, HeldIs
    <3>2. j \in 1 .. Len(z.mmaps)
      BY <1>0, <2>1, <3>1
    <3> QED
      BY <3>1, <3>2
  <2> QED
    BY <2>1, HeldIs
<1>2. Cardinality(Held(z)) \in Nat /\ Cardinality(Held(r)) \in Nat
  BY HeldFinite
<1>3. CASE z.fd
  <2>1. Held(z) \in SUBSET {0}
    BY <1>1
  <2>2. IsFiniteSet({0}) /\ Cardinality({0}) = 1
    BY FS_Singleton
  <2>3. Cardinality(Held(z)) <= 1
    BY <2>1, <2>2, FS_Subset
  <2> QED
    BY <1>2, <1>3, <2>3
<1>4. CASE ~z.fd
  <2>1. Held(z) = {}
    BY <1>1, <1>4
  <2>2. Cardinality(Held(z)) = 0
    BY <2>1, FS_EmptySet
  <2> QED
    BY <1>2, <1>4, <2>2
<1> QED
  BY <1>3, <1>4

\* A process that has exited.
LEMMA HeldExited ==
  ASSUME NEW r, r.fd \in BOOLEAN, NEW z, ~z.fd, z.mmaps = << >>
  PROVE  Cardinality(Held(z)) <= Cardinality(Held(r)) - IF r.fd THEN 1 ELSE 0
<1>0. NPAGES \in Nat /\ 0 \in 0 .. NPAGES
  BY Sizes
<1>1. ASSUME NEW j \in Held(z) PROVE FALSE
  <2>1. j # 0
    BY HeldIs
  <2>2. j \in 0 .. NPAGES /\ j <= Len(z.mmaps)
    BY <2>1, HeldIs
  <2> QED
    BY <1>0, <2>1, <2>2
<1>2. Cardinality(Held(z)) = 0 /\ Cardinality(Held(r)) \in Nat
  BY <1>1, FS_EmptySet, HeldFinite
<1>3. CASE r.fd
  <2>1. 0 \in Held(r)
    BY <1>0, <1>3, HeldIs
  <2>2. Cardinality(Held(r)) # 0
    BY <2>1, HeldFinite, FS_EmptySet
  <2> QED
    BY <1>2, <1>3, <2>2
<1>4. CASE ~r.fd
  BY <1>2, <1>4
<1> QED
  BY <1>3, <1>4

\* Unused slots have no entry of the file, and as long as fork copies none, every
\* reference is counted.
NoLeft(s) == \A q \in Procs : s.proc[q].state = "UNUSED"
               => \A i \in 1 .. Len(s.proc[q].mmaps) : ~s.proc[q].mmaps[i].file
Refs == "copied" \in upset \/ (m.file.ref >= Cardinality(RefsOf(m)) /\ NoLeft(m))

LEMMA RefsInit == Init => Refs
<1> SUFFICES ASSUME Init PROVE m.file.ref >= Cardinality(RefsOf(m)) /\ NoLeft(m)
  BY DEF Refs
<1>1. m.proc = [p \in Procs |->
                   CASE p = 1 -> [Unused EXCEPT !.state = "RUNNABLE", !.image = 1]
                     [] p = 2 -> [Unused EXCEPT !.state = "RUNNABLE", !.image = 2,
                                                !.parent = initproc, !.fd = TRUE]
                     [] OTHER -> Unused]
  BY DEF Init
<1>2. \A q \in Procs : m.proc[q].mmaps = << >> /\ (m.proc[q].fd => q = 2)
  <2> SUFFICES ASSUME NEW q \in Procs PROVE m.proc[q].mmaps = << >> /\ (m.proc[q].fd => q = 2)
    OBVIOUS
  <2>1. CASE q \in {1, 2}
    BY <1>1, <2>1 DEF Unused
  <2>2. CASE q \notin {1, 2}
    BY <1>1, <2>2 DEF Unused
  <2> QED
    BY <2>1, <2>2
<1>3. NoLeft(m)
  BY <1>2 DEF NoLeft
<1>4. RefsOf(m) \in SUBSET {<<2, 0>>}
  <2>1. ASSUME NEW h \in RefsOf(m) PROVE h = <<2, 0>>
    <3>1. PICK q \in Procs, j \in 0 .. NPAGES : h = <<q, j>> /\ j \in Held(m.proc[q])
      BY DEF RefsOf
    <3>2. j = 0
      <4>1. CASE j # 0
        <5>1. j <= Len(m.proc[q].mmaps) /\ Len(m.proc[q].mmaps) = 0
          BY <1>2, <3>1, <4>1, HeldIs
        <5> QED
          BY <4>1, <5>1, Sizes
      <4> QED
        BY <4>1
    <3>3. q = 2
      BY <1>2, <3>1, <3>2, HeldIs
    <3> QED
      BY <3>1, <3>2, <3>3
  <2> QED
    BY <2>1
<1>5. Cardinality(RefsOf(m)) <= 1
  <2>1. IsFiniteSet({<<2, 0>>}) /\ Cardinality({<<2, 0>>}) = 1
    BY FS_Singleton
  <2> QED
    BY <1>4, <2>1, FS_Subset
<1>6. m.file.ref = 1
  BY DEF Init
<1>7. Cardinality(RefsOf(m)) \in Nat
  BY RefsFinite
<1> QED
  BY <1>3, <1>5, <1>6, <1>7

\* One process changes.
LEMMA RefsStepOf ==
  ASSUME Memory, NEW p \in Procs, Others(m, m', p), m.file.ref >= Cardinality(RefsOf(m)),
         NEW d \in Int, m'.file.ref = m.file.ref + d,
         Cardinality(Held(m'.proc[p])) <= Cardinality(Held(m.proc[p])) + d
  PROVE  m'.file.ref >= Cardinality(RefsOf(m'))
<1>1. \A q \in Procs \ {p} : Held(m'.proc[q]) = Held(m.proc[q])
  BY DEF Others
<1>2. m.file.ref \in Int
  BY FileIs DEF Memory, Sound
<1>3. m.file.ref + d >= Cardinality(RefsOf(m'))
  BY <1>1, <1>2, RefsChange
<1> QED
  BY <1>3

LEMMA RefsStep == Memory /\ Vacant /\ Refs /\ [Next]_vars => Refs'
<1> SUFFICES ASSUME Memory, Vacant, Refs, Steps, "copied" \notin upset'
             PROVE  m'.file.ref >= Cardinality(RefsOf(m')) /\ NoLeft(m')
  BY NextIs DEF Refs
<1>1. upset \subseteq upset'
  BY DEF Steps, Idles, Maps, Unmaps, Remaps, Kills, Loads, Stores, Forks, Execs, Departs, Exits, Reaps
<1>2. m.file.ref >= Cardinality(RefsOf(m)) /\ NoLeft(m)
  BY <1>1 DEF Refs
<1>3. Sound(m) /\ m.file.ref \in Int /\ \A q \in Procs : m.proc[q] \in ProcRecs /\ Neat(m.proc[q])
  BY MachineIs, FileIs DEF Memory, Sound, Apart
<1>4. ASSUME NEW p \in Procs, Others(m, m', p), m'.proc[p].state # "UNUSED" PROVE NoLeft(m')
  BY <1>2, <1>4 DEF Others, NoLeft
<1>5. CASE Idles \/ Stores
  <2>1. m'.proc = m.proc /\ m'.file.ref = m.file.ref
    BY <1>5, IdleProcs, StoreProcs
  <2> QED
    BY <1>2, <2>1 DEF RefsOf, NoLeft
<1>6. CASE Maps
  <2>1a. PICK p \in Procs : \E e : Running(p) /\ NewMapping(m, m', p, e)
    BY <1>6 DEF Maps
  <2>1. PICK e : Running(p) /\ NewMapping(m, m', p, e)
    BY <2>1a
  <2>2. PICK d \in Int : d = IF e.file THEN 1 ELSE 0
    OBVIOUS
  <2>3. /\ Others(m, m', p) /\ m'.file.ref = m.file.ref + d /\ m'.proc[p].state = "RUNNABLE"
        /\ e \in EntryRecs /\ m'.proc[p].mmaps = <<e>> \o m.proc[p].mmaps
        /\ m'.proc[p].fd = m.proc[p].fd /\ m.proc[p].state = "RUNNABLE"
    BY <1>3, <2>1, <2>2 DEF NewMapping, Core, Running
  <2>4. Cardinality(Held(m'.proc[p])) <= Cardinality(Held(m.proc[p])) + d
    <3>1. PICK r \in ProcRecs, z \in {m'.proc[p]} : r = m.proc[p] /\ z = m'.proc[p]
      BY <1>3
    <3>2. /\ z.fd = r.fd /\ r.state \notin Dead /\ z.state = r.state /\ z.mmaps = <<e>> \o r.mmaps
      BY <2>3, <3>1 DEF Dead
    <3> QED
      BY <2>2, <2>3, <3>1, <3>2, HeldMapped
  <2> QED
    BY <1>2, <1>4, <2>3, <2>4, RefsStepOf
<1>7. CASE Unmaps
  <2>0. PICK p \in Procs : \E i \in Mapped(p) : Running(p) /\ Unmapped(m, m', p, i, m.proc[p].mmaps[i])
    BY <1>7 DEF Unmaps
  <2>1. PICK i \in Mapped(p) : Running(p) /\ Unmapped(m, m', p, i, m.proc[p].mmaps[i])
    BY <2>0
  <2>2. PICK e \in EntryRecs : e = m.proc[p].mmaps[i]
    BY <1>3, ProcIs DEF Mapped
  <2>3. PICK d \in Int : d = IF e.shared /\ e.file THEN -1 ELSE 0
    OBVIOUS
  <2>4. /\ Others(m, m', p) /\ m'.file.ref = m.file.ref + d /\ m'.proc[p].state = "RUNNABLE"
        /\ m'.proc[p].fd = m.proc[p].fd /\ m.proc[p].state = "RUNNABLE"
        /\ Without(m.proc[p].mmaps, m'.proc[p].mmaps, i) /\ i \in 1 .. Len(m.proc[p].mmaps)
    BY <1>3, <2>1, <2>2, <2>3 DEF Unmapped, Core, Running, Mapped
  <2>5. Cardinality(Held(m'.proc[p])) <= Cardinality(Held(m.proc[p])) + d
    <3>1. PICK r \in ProcRecs, z \in {m'.proc[p]} : r = m.proc[p] /\ z = m'.proc[p]
      BY <1>3
    <3>2. /\ Neat(r) /\ z.fd = r.fd /\ r.state \notin Dead /\ i \in 1 .. Len(r.mmaps)
          /\ Without(r.mmaps, z.mmaps, i)
      BY <1>3, <2>4, <3>1 DEF Dead
    <3>3. Cardinality(Held(z)) <= Cardinality(Held(r)) - IF r.mmaps[i].file THEN 1 ELSE 0
      BY <3>2, HeldUnmapped
    <3>4. /\ Cardinality(Held(z)) \in Nat /\ Cardinality(Held(r)) \in Nat
          /\ e.file \in BOOLEAN /\ e.shared \in BOOLEAN
      BY HeldFinite, EntryIs
    <3> QED
      BY <2>2, <2>3, <3>1, <3>3, <3>4
  <2> QED
    BY <1>2, <1>4, <2>4, <2>5, RefsStepOf
<1>8. CASE Remaps \/ Kills \/ Loads \/ Execs
  <2>1. PICK p \in Procs : \/ Running(p) /\ Remapped(m, m', p)
                           \/ Running(p) /\ Killed(m, m', p)
                           \/ \E v \in Virtual : \E i : Running(p) /\ Loaded(m, m', p, v, i)
                           \/ Running(p) /\ Execed(m, m', p)
    BY <1>8 DEF Remaps, Kills, Loads, Execs
  <2>2. /\ Others(m, m', p) /\ m'.file.ref = m.file.ref /\ m'.proc[p].state # "UNUSED"
        /\ m.proc[p].state = "RUNNABLE" /\ m'.proc[p].fd = m.proc[p].fd /\ Sound(m')
        /\ \/ m'.proc[p].state = "STUCK"
           \/ FilesFrom(m.proc[p].mmaps, m'.proc[p].mmaps)
           \/ m'.proc[p].mmaps = m.proc[p].mmaps
           \/ /\ Len(m'.proc[p].mmaps) = Len(m.proc[p].mmaps)
              /\ \A j \in 1 .. Len(m.proc[p].mmaps) : m'.proc[p].mmaps[j].file = m.proc[p].mmaps[j].file
    <3>1. CASE Running(p) /\ Remapped(m, m', p)
      BY <3>1 DEF Remapped, Running
    <3>2. CASE Running(p) /\ Killed(m, m', p)
      BY <3>2 DEF Killed, Running, SameFile
    <3>3. CASE \E v \in Virtual : \E i : Running(p) /\ Loaded(m, m', p, v, i)
      BY <3>3 DEF Loaded, Bumped, Core, Running, SameFile
    <3>4. CASE Running(p) /\ Execed(m, m', p)
      BY <3>4 DEF Execed, Running
    <3> QED
      BY <2>1, <3>1, <3>2, <3>3, <3>4
  <2>3. Cardinality(Held(m'.proc[p])) <= Cardinality(Held(m.proc[p]))
    <3>1. PICK r \in ProcRecs, z \in ProcRecs : r = m.proc[p] /\ z = m'.proc[p]
      BY <1>3, <2>2, MachineIs DEF Sound
    <3>2. Neat(r) /\ z.fd = r.fd /\ r.state \notin Dead
      BY <1>3, <2>2, <3>1 DEF Dead
    <3>3. CASE z.state = "STUCK"
      BY <3>1, <3>2, <3>3, HeldDead DEF Dead
    <3>4. CASE FilesFrom(r.mmaps, z.mmaps)
      BY <3>1, <3>2, <3>4, HeldRemapped
    <3>5. CASE Len(z.mmaps) = Len(r.mmaps) /\ \A j \in 1 .. Len(r.mmaps) : z.mmaps[j].file = r.mmaps[j].file
      BY <3>1, <3>2, <3>5, HeldSame
    <3> QED
      BY <2>2, <3>1, <3>3, <3>4, <3>5
  <2>4. PICK d \in Int : d = 0
    OBVIOUS
  <2>5. m'.file.ref = m.file.ref + d /\ Cardinality(Held(m'.proc[p])) <= Cardinality(Held(m.proc[p])) + d
    BY <1>3, <2>2, <2>3, <2>4, HeldFinite
  <2> QED
    BY <1>2, <1>4, <2>2, <2>5, RefsStepOf
<1>9. CASE Forks
  <2>1. PICK p \in Procs, np \in Procs :
          /\ Running(p) /\ Forked(m, m', p, np) /\ \A i \in Mapped(p) : ~m.proc[p].mmaps[i].file
    BY <1>9 DEF Forks
  <2>2. PICK r \in ProcRecs, z \in ProcRecs : r = m.proc[np] /\ z = m'.proc[np]
    BY <1>3, <2>1, MachineIs DEF Sound, Forked
  <2>3. \A i \in 1 .. Len(z.mmaps) : ~z.mmaps[i].file
    BY <1>2, <2>1, <2>2 DEF Forked, Grown, NoLeft, Mapped
  <2>4. z.mmaps \in Seq(EntryRecs) /\ z.fd \in BOOLEAN /\ Others(m, m', np)
    BY <2>1, ProcIs DEF Forked
  <2>5. NoLeft(m')
    BY <1>2, <2>2, <2>3, <2>4 DEF Others, NoLeft
  <2>6. CASE z.state = "UNUSED"
    <3>1. z.fd = r.fd /\ m'.file.ref = m.file.ref
      BY <2>1, <2>2, <2>6 DEF Forked
    <3>2. Cardinality(Held(z)) <= Cardinality(Held(r))
      BY <2>6, <3>1, HeldDead DEF Dead
    <3>3. PICK d \in Int : d = 0
      OBVIOUS
    <3>4. m'.file.ref = m.file.ref + d /\ Cardinality(Held(m'.proc[np])) <= Cardinality(Held(m.proc[np])) + d
      BY <1>3, <2>2, <3>1, <3>2, <3>3, HeldFinite
    <3> QED
      BY <1>2, <2>4, <2>5, <3>4, RefsStepOf
  <2>7. CASE z.state = "RUNNABLE"
    <3>1. PICK d \in Int : d = IF z.fd THEN 1 ELSE 0
      OBVIOUS
    <3>2. m'.file.ref = m.file.ref + d
      BY <1>3, <2>1, <2>2, <2>7, <3>1 DEF Forked
    <3>3. Cardinality(Held(z)) <= Cardinality(Held(r)) + d
      BY <2>3, <2>4, <3>1, HeldForked
    <3> QED
      BY <1>2, <2>2, <2>4, <2>5, <3>2, <3>3, RefsStepOf
  <2> QED
    BY <2>1, <2>2, <2>6, <2>7 DEF Forked
<1>10. CASE Departs
  <2>1. PICK p \in Procs :
          /\ m.proc[p].state = "EXITING" /\ 1 \in Mapped(p) /\ Departed(m, m', p, m.proc[p].mmaps[1])
    BY <1>10 DEF Departs
  <2>2. PICK r \in ProcRecs, z \in ProcRecs : r = m.proc[p] /\ z = m'.proc[p]
    BY <1>3, <2>1, MachineIs DEF Sound, Departed
  <2>3. /\ Neat(r) /\ z.fd = r.fd /\ r.state \notin Dead /\ z.state # "UNUSED" /\ Others(m, m', p)
        /\ 1 \in 1 .. Len(r.mmaps)
    BY <1>3, <2>1, <2>2 DEF Departed, Core, Dead, Mapped
  <2>4. PICK e \in EntryRecs : e = r.mmaps[1]
    BY <2>3, ProcIs
  <2>5. Cardinality(Held(z)) \in Nat /\ Cardinality(Held(r)) \in Nat
    BY HeldFinite
  <2>6. CASE z.mmaps = r.mmaps /\ m'.file.ref = m.file.ref
    <3>1. Cardinality(Held(z)) <= Cardinality(Held(r))
      BY <2>3, <2>6, HeldSame
    <3>2. PICK d \in Int : d = 0
      OBVIOUS
    <3>3. m'.file.ref = m.file.ref + d /\ Cardinality(Held(m'.proc[p])) <= Cardinality(Held(m.proc[p])) + d
      BY <1>3, <2>2, <2>5, <2>6, <3>1, <3>2
    <3> QED
      BY <1>2, <1>4, <2>2, <2>3, <3>3, RefsStepOf
  <2>7. CASE /\ Without(r.mmaps, z.mmaps, 1)
             /\ m'.file.ref = IF e.file THEN m.file.ref - 1 ELSE m.file.ref
    <3>1. PICK i : i = 1
      OBVIOUS
    <3>2. Cardinality(Held(z)) <= Cardinality(Held(r)) - IF r.mmaps[i].file THEN 1 ELSE 0
      BY <2>3, <2>7, <3>1, HeldUnmapped
    <3>3. PICK d \in Int : d = IF e.file THEN -1 ELSE 0
      OBVIOUS
    <3>4. m'.file.ref = m.file.ref + d /\ Cardinality(Held(m'.proc[p])) <= Cardinality(Held(m.proc[p])) + d
      BY <1>3, <2>2, <2>4, <2>5, <2>7, <3>1, <3>2, <3>3
    <3> QED
      BY <1>2, <1>4, <2>2, <2>3, <3>4, RefsStepOf
  <2> QED
    BY <2>1, <2>2, <2>4, <2>6, <2>7 DEF Departed
<1>11. CASE Exits
  <2>1. PICK p \in Procs : m.proc[p].mmaps = << >> /\ Exited(m, m', p)
    BY <1>11 DEF Exits
  <2>2. PICK r \in ProcRecs, z \in {m'.proc[p]} : r = m.proc[p] /\ z = m'.proc[p]
    BY <1>3
  <2>3. r.fd \in BOOLEAN /\ ~z.fd /\ z.mmaps = << >>
    BY <2>1, <2>2, ProcIs DEF Exited
  <2>4. PICK d \in Int : d = IF r.fd THEN -1 ELSE 0
    OBVIOUS
  <2>5. Cardinality(Held(z)) <= Cardinality(Held(r)) + d
    <3>1. Cardinality(Held(z)) <= Cardinality(Held(r)) - IF r.fd THEN 1 ELSE 0
      BY <2>3, HeldExited
    <3>2. Cardinality(Held(z)) \in Nat /\ Cardinality(Held(r)) \in Nat
      BY HeldFinite
    <3> QED
      BY <2>3, <2>4, <3>1, <3>2
  <2>6. \A q \in Procs \ {p} : Held(m'.proc[q]) = Held(m.proc[q])
    BY <2>1 DEF Exited, Held
  <2>7. m'.file.ref = m.file.ref + d
    BY <1>3, <2>1, <2>2, <2>3, <2>4 DEF Exited
  <2>8. m.file.ref + d >= Cardinality(RefsOf(m'))
    BY <1>2, <1>3, <2>2, <2>5, <2>6, RefsChange
  <2>9. NoLeft(m')
    <3> SUFFICES ASSUME NEW q \in Procs, m'.proc[q].state = "UNUSED",
                        NEW i \in 1 .. Len(m'.proc[q].mmaps)
                 PROVE  ~m'.proc[q].mmaps[i].file
      BY DEF NoLeft
    <3>1. q # p /\ m.proc[q].state = "UNUSED" /\ m'.proc[q].mmaps = m.proc[q].mmaps
      BY <2>1 DEF Exited
    <3> QED
      BY <1>2, <3>1 DEF NoLeft
  <2> QED
    BY <2>7, <2>8, <2>9
<1>12. CASE Reaps
  <2>1. PICK o \in Procs : m.proc[o].state = "ZOMBIE" /\ Reaped(m, m', o)
    BY <1>12 DEF Reaps
  <2>2. PICK r \in ProcRecs, z \in {m'.proc[o]} : r = m.proc[o] /\ z = m'.proc[o]
    BY <1>3
  <2>3. z.fd = r.fd /\ z.mmaps = << >> /\ z.state = "UNUSED" /\ Others(m, m', o) /\ m'.file = m.file
    BY <2>1, <2>2 DEF Reaped, Vacant
  <2>4. Cardinality(Held(z)) <= Cardinality(Held(r))
    BY <2>3, HeldDead
  <2>5. PICK d \in Int : d = 0
    OBVIOUS
  <2>6. m'.file.ref = m.file.ref + d /\ Cardinality(Held(m'.proc[o])) <= Cardinality(Held(m.proc[o])) + d
    BY <1>3, <2>2, <2>3, <2>4, <2>5, HeldFinite
  <2>7. NoLeft(m')
    <3>1. Len(m'.proc[o].mmaps) = 0
      BY <2>2, <2>3
    <3> QED
      BY <1>2, <2>3, <3>1 DEF NoLeft, Others
  <2> QED
    BY <1>2, <2>3, <2>6, <2>7, RefsStepOf
<1> QED
  BY <1>5, <1>6, <1>7, <1>8, <1>9, <1>10, <1>11, <1>12 DEF Steps

\* The file is not closed under anybody who refers to it, as long as fork has not copied
\* a mapping of the file.
THEOREM FileCorrect == Spec => []FileAlive
<1>1. Init => Memory /\ Vacant /\ Refs
  BY MemoryInit, VacantInit, RefsInit
<1>2. Memory /\ Vacant /\ Refs /\ [Next]_vars => (Memory /\ Vacant /\ Refs)'
  BY MemoryStep, VacantStep, RefsStep
<1>3. Refs => FileAlive
  BY HoldersAre DEF Refs, FileAlive, RefsCounted
<1> QED
  BY <1>1, <1>2, <1>3, PTL DEF Spec

-----------------------------------------------------------------------------
(* What was stored *)

\* The file contains l, and zeros are what has not been written.
Based(s, l) == \A k \in FilePages : IF k < s.file.size THEN s.file.page[k] = l[k] ELSE l[k] = 0

\* The record has an entry for the file; it has at most one.
FileIn(r) == \E i \in 1 .. Len(r.mmaps) : r.mmaps[i].file
Single(r) == \A i, j \in 1 .. Len(r.mmaps) : r.mmaps[i].file /\ r.mmaps[j].file => i = j

\* The pages of p's mapping of the file, and the file where there are none, contain l.
Fits(s, p, l) ==
  \A i \in 1 .. Len(s.proc[p].mmaps) : s.proc[p].mmaps[i].file =>
    /\ s.proc[p].mmaps[i].mapping_process = p
    /\ IF s.proc[p].mmaps[i].shared THEN Synced(s, p, s.proc[p].mmaps[i], l) ELSE Based(s, l)

Alive == {"UNUSED", "RUNNABLE", "EXITING"}

SavedIn(s, l) ==
  /\ \A p \in Procs : s.proc[p].state \in Alive /\ Single(s.proc[p])
  /\ \A p, q \in Procs : FileIn(s.proc[p]) /\ FileIn(s.proc[q]) => p = q
  /\ (\A p \in Procs : ~FileIn(s.proc[p])) => Based(s, l)
  /\ \A p \in Procs : s.proc[p].state = "RUNNABLE" => Fits(s, p, l)

\* What was stored is in the pages of the file's only mapping or, if there is none, in
\* the file.
Saved == ~writable \/ upset # {} \/ SavedIn(m, last)

LEMMA SyncedKept ==
  ASSUME NEW s, NEW t, NEW p \in Procs, NEW e \in EntryRecs, NEW l, Synced(s, p, e, l),
         t.file.size = s.file.size, t.file.page = s.file.page,
         \A v \in Virtual : Covers(e, v) =>
           /\ t.proc[p].pte[v] = s.proc[p].pte[v]
           /\ s.proc[p].pte[v] # NoPte
                => t.data[s.proc[p].pte[v].page] = s.data[s.proc[p].pte[v].page]
  PROVE  Synced(t, p, e, l)
<1> SUFFICES ASSUME NEW k \in FilePages PROVE PageSynced(t, p, e, l, k)
  BY DEF Synced
<1>1. PageSynced(s, p, e, l, k)
  BY DEF Synced
<1>2. CASE k < e.length
  <2>1. k \in 0 .. e.length - 1 /\ e.addr \in Nat /\ e.length \in Nat /\ k \in Nat
    BY <1>2, EntryIs, Sizes DEF FilePages
  <2>2. PICK v \in Virtual : v = e.addr + k
    BY <2>1, EntryIs
  <2>3. Covers(e, v)
    BY <1>2, <2>1, <2>2 DEF Covers
  <2> QED
    BY <1>1, <1>2, <2>2, <2>3 DEF PageSynced
<1>3. CASE ~(k < e.length)
  BY <1>1, <1>3 DEF PageSynced
<1> QED
  BY <1>2, <1>3

\* A mapping none of whose pages is loaded.
LEMMA SyncedBare ==
  ASSUME NEW s, NEW p \in Procs, NEW e \in EntryRecs, NEW l,
         \A v \in Virtual : Covers(e, v) => s.proc[p].pte[v] = NoPte
  PROVE  Synced(s, p, e, l) <=> Based(s, l)
<1>1. ASSUME NEW k \in FilePages
      PROVE  PageSynced(s, p, e, l, k) <=> IF k < s.file.size THEN s.file.page[k] = l[k] ELSE l[k] = 0
  <2>1. CASE k < e.length
    <3>1. k \in 0 .. e.length - 1 /\ e.addr \in Nat /\ e.length \in Nat /\ k \in Nat
      BY <2>1, EntryIs, Sizes DEF FilePages
    <3>2. PICK v \in Virtual : v = e.addr + k
      BY <3>1, EntryIs
    <3>3. Covers(e, v)
      BY <2>1, <3>1, <3>2 DEF Covers
    <3> QED
      BY <3>2, <3>3 DEF PageSynced
  <2>2. CASE ~(k < e.length)
    BY <2>2 DEF PageSynced
  <2> QED
    BY <2>1, <2>2
<1> QED
  BY <1>1 DEF Synced, Based

\* A process the step does not touch.
LEMMA FitsKept ==
  ASSUME NEW s, Sound(s), NEW t, NEW o \in Procs, t.proc[o] = s.proc[o], NEW l, Fits(s, o, l),
         t.file.size = s.file.size, t.file.page = s.file.page,
         \A v \in Virtual : s.proc[o].pte[v] # NoPte
           => t.data[s.proc[o].pte[v].page] = s.data[s.proc[o].pte[v].page]
  PROVE  Fits(t, o, l)
<1> SUFFICES ASSUME NEW i \in 1 .. Len(s.proc[o].mmaps), s.proc[o].mmaps[i].file
             PROVE  /\ s.proc[o].mmaps[i].mapping_process = o
                    /\ IF s.proc[o].mmaps[i].shared THEN Synced(t, o, s.proc[o].mmaps[i], l)
                       ELSE Based(t, l)
  BY DEF Fits
<1>1. PICK e \in EntryRecs : e = s.proc[o].mmaps[i]
  BY MachineIs, ProcIs DEF Sound
<1>2. e.mapping_process = o /\ IF e.shared THEN Synced(s, o, e, l) ELSE Based(s, l)
  BY <1>1 DEF Fits
<1>3. CASE e.shared
  BY <1>1, <1>2, <1>3, SyncedKept
<1>4. CASE ~e.shared
  BY <1>1, <1>2, <1>4 DEF Based
<1> QED
  BY <1>3, <1>4

\* A step of p.
LEMMA SavedStepOf ==
  ASSUME NEW s, NEW t, NEW l, NEW n, SavedIn(s, l), NEW p \in Procs, Others(s, t, p),
         \A o \in Procs \ {p} : s.proc[o].state = "RUNNABLE" /\ FileIn(s.proc[o]) => Fits(t, o, n),
         t.proc[p].state \in Alive, Single(t.proc[p]),
         FileIn(t.proc[p]) => \A o \in Procs \ {p} : ~FileIn(s.proc[o]),
         t.proc[p].state = "RUNNABLE" => Fits(t, p, n),
         (\A q \in Procs : ~FileIn(t.proc[q])) => Based(t, n)
  PROVE  SavedIn(t, n)
<1>1. ASSUME NEW o \in Procs \ {p}
      PROVE  /\ t.proc[o] = s.proc[o] /\ s.proc[o].state \in Alive /\ Single(s.proc[o])
             /\ s.proc[o].state = "RUNNABLE" => Fits(t, o, n)
  <2>1. ~FileIn(t.proc[o]) => Fits(t, o, n)
    BY DEF FileIn, Fits
  <2> QED
    BY <2>1 DEF Others, SavedIn
<1>2. \A q \in Procs : t.proc[q].state \in Alive /\ Single(t.proc[q])
  BY <1>1
<1>3. \A q \in Procs : t.proc[q].state = "RUNNABLE" => Fits(t, q, n)
  BY <1>1
<1>4. ASSUME NEW q \in Procs, NEW o \in Procs, FileIn(t.proc[q]), FileIn(t.proc[o]) PROVE q = o
  BY <1>1, <1>4 DEF SavedIn
<1> QED
  BY <1>2, <1>3, <1>4 DEF SavedIn

LEMMA SavedMapped ==
  ASSUME NEW s, Sound(s), NEW l, SavedIn(s, l), NEW p \in Procs, s.proc[p].state = "RUNNABLE",
         Honest(s.proc[p], p), NEW t, NEW e, NewMapping(s, t, p, e),
         e.file => \A q \in Procs : ~FileIn(s.proc[q])
  PROVE  SavedIn(t, l)
<1>1. PICK r \in ProcRecs, z \in ProcRecs : r = s.proc[p] /\ z = t.proc[p]
  BY MachineIs DEF Sound, NewMapping
<1>2a. PICK ms \in Seq(EntryRecs) : \E ns : ms = r.mmaps /\ ns = z.mmaps /\ Len(ms) \in Nat
  BY <1>1, ProcIs
<1>2. PICK ns : ms = r.mmaps /\ ns = z.mmaps /\ Len(ms) \in Nat
  BY <1>2a
<1>3. e \in EntryRecs /\ e.mapping_process = p /\ ns = <<e>> \o ms
  BY <1>1, <1>2 DEF NewMapping
<1>4. /\ Len(ns) = Len(ms) + 1 /\ ns[1] = e
      /\ \A j \in 1 .. Len(ms) : ns[j + 1] = ms[j]
  BY <1>3, Prepended
<1>5. ASSUME NEW j \in 1 .. Len(ns), j # 1
      PROVE j - 1 \in 1 .. Len(ms) /\ ns[j] = ms[j - 1] /\ ms[j - 1] \in EntryRecs
  <2>1. j - 1 \in 1 .. Len(ms) /\ j - 1 + 1 = j
    BY <1>2, <1>4, <1>5
  <2> QED
    BY <1>1, <1>2, <1>4, <2>1, ProcIs
<1>6. /\ Others(s, t, p) /\ t.data = s.data /\ t.file.page = s.file.page
      /\ t.file.size = s.file.size /\ z.state = "RUNNABLE"
  BY <1>1 DEF NewMapping, Core
<1>7. \A v \in Virtual : t.proc[p].pte[v] = s.proc[p].pte[v] /\ (Covers(e, v) => t.proc[p].pte[v] = NoPte)
  BY HonestMapped
<1>8. ASSUME NEW o \in Procs \ {p}, s.proc[o].state = "RUNNABLE" PROVE Fits(t, o, l)
  <2>1. Fits(s, o, l) /\ t.proc[o] = s.proc[o]
    BY <1>6, <1>8 DEF SavedIn, Others
  <2> QED
    BY <1>6, <2>1, FitsKept
<1>9. Single(r) /\ Fits(s, p, l)
  BY <1>1 DEF SavedIn
<1>10. CASE e.file
  <2>1. \A j \in 1 .. Len(ms) : ~ms[j].file
    BY <1>1, <1>2, <1>10 DEF FileIn
  <2>2. \A j \in 1 .. Len(ns) : ns[j].file => j = 1
    BY <1>5, <2>1
  <2>3. Single(z)
    BY <1>2, <2>2 DEF Single
  <2>4. Based(t, l)
    BY <1>6, <1>10 DEF SavedIn, Based
  <2>5. Synced(t, p, e, l)
    BY <1>3, <1>7, <2>4, SyncedBare
  <2>6. Fits(t, p, l)
    BY <1>1, <1>2, <1>3, <1>4, <2>2, <2>4, <2>5 DEF Fits
  <2>7. t.proc[p].state \in Alive /\ Single(t.proc[p])
    BY <1>1, <1>6, <2>3 DEF Alive
  <2> QED
    BY <1>6, <1>8, <1>10, <2>4, <2>6, <2>7, SavedStepOf
<1>11. CASE ~e.file
  <2>1. \A j \in 1 .. Len(ns) : ns[j].file => j # 1 /\ ms[j - 1].file
    BY <1>4, <1>5, <1>11
  <2>2. Single(z)
    <3> SUFFICES ASSUME NEW i \in 1 .. Len(ns), NEW j \in 1 .. Len(ns), ns[i].file, ns[j].file PROVE i = j
      BY <1>2 DEF Single
    <3>1. i - 1 = j - 1
      BY <1>2, <1>5, <1>9, <2>1 DEF Single
    <3> QED
      BY <3>1
  <2>3. FileIn(z) <=> FileIn(r)
    <3>1. FileIn(z) => FileIn(r)
      BY <1>2, <1>5, <2>1 DEF FileIn
    <3>2. ASSUME FileIn(r) PROVE FileIn(z)
      <4>1. PICK j \in 1 .. Len(ms) : ms[j].file
        BY <1>2, <3>2 DEF FileIn
      <4>2. j + 1 \in 1 .. Len(ns) /\ ns[j + 1].file
        BY SMTT(60), <1>2, <1>4, <4>1
      <4> QED
        BY <1>2, <4>2 DEF FileIn
    <3> QED
      BY <3>1, <3>2
  <2>4. ASSUME NEW i \in 1 .. Len(ns), ns[i].file
        PROVE  ns[i].mapping_process = p /\ IF ns[i].shared THEN Synced(t, p, ns[i], l) ELSE Based(t, l)
    <3>1. PICK j \in 1 .. Len(ms), f \in EntryRecs : f = ms[j] /\ f = ns[i] /\ f.file
      BY <1>5, <2>1, <2>4
    <3>2. f.mapping_process = p /\ IF f.shared THEN Synced(s, p, f, l) ELSE Based(s, l)
      BY <1>1, <1>2, <1>9, <3>1 DEF Fits
    <3>3. CASE f.shared
      <4>1. Synced(t, p, f, l)
        BY <1>6, <1>7, <3>2, <3>3, SyncedKept
      <4> QED
        BY <3>1, <3>2, <3>3, <4>1
    <3>4. CASE ~f.shared
      BY <1>6, <3>1, <3>2, <3>4 DEF Based
    <3> QED
      BY <3>3, <3>4
  <2>5. Fits(t, p, l)
    BY <1>1, <1>2, <2>4 DEF Fits
  <2>6. t.proc[p].state \in Alive /\ Single(t.proc[p])
    BY <1>1, <1>6, <2>2 DEF Alive
  <2>7. FileIn(t.proc[p]) => \A o \in Procs \ {p} : ~FileIn(s.proc[o])
    BY <1>1, <2>3 DEF SavedIn
  <2>8. (\A q \in Procs : ~FileIn(t.proc[q])) => Based(t, l)
    BY <1>1, <1>6, <2>3 DEF SavedIn, Based, Others
  <2> QED
    BY <1>6, <1>8, <2>5, <2>6, <2>7, <2>8, SavedStepOf
<1> QED
  BY <1>10, <1>11

\* A page of another process.
LEMMA PageApart ==
  ASSUME NEW s, Sound(s), NEW p \in Procs, NEW o \in Procs \ {p}, NEW v \in Virtual,
         s.proc[o].pte[v] # NoPte
  PROVE  /\ s.proc[o].pte[v].page \in Pages /\ ~Has(s.proc[p], s.proc[o].pte[v].page)
<1>1. s.proc[o].pte[v] \in PteRecs
  BY MachineIs, ProcIs DEF Sound
<1>2. s.proc[o].pte[v].page \in Pages
  BY <1>1, PteIs
<1>3. Has(s.proc[o], s.proc[o].pte[v].page)
  BY DEF Has
<1> QED
  BY <1>2, <1>3 DEF Sound, Apart

LEMMA SavedUnmapped ==
  ASSUME NEW s, Sound(s), NEW l, SavedIn(s, l), NEW p \in Procs, s.proc[p].state = "RUNNABLE",
         Honest(s.proc[p], p), NEW i \in 1 .. Len(s.proc[p].mmaps), NEW t, NEW e,
         e = s.proc[p].mmaps[i], Unmapped(s, t, p, i, e),
         writable
  PROVE  SavedIn(t, l)
<1>1. PICK r \in ProcRecs, z \in ProcRecs : r = s.proc[p] /\ z = t.proc[p]
  BY MachineIs DEF Sound, Unmapped
<1>2a. PICK ms \in Seq(EntryRecs) : \E ns : ms = r.mmaps /\ ns = z.mmaps /\ Len(ms) \in Nat
  BY <1>1, ProcIs
<1>2. PICK ns : ms = r.mmaps /\ ns = z.mmaps /\ Len(ms) \in Nat
  BY <1>2a
<1>3. i \in 1 .. Len(ms) /\ e = ms[i] /\ e \in EntryRecs /\ \A j \in 1 .. Len(ms) : ms[j] \in EntryRecs
  BY <1>1, <1>2, ProcIs
<1>4. /\ Len(ns) = Len(ms) - 1
      /\ \A j \in 1 .. Len(ms) - 1 : ns[j] = IF j < i THEN ms[j] ELSE ms[j + 1]
  BY <1>1, <1>2 DEF Unmapped, Without
<1>5. /\ Others(s, t, p) /\ z.state = "RUNNABLE"
      /\ \A v \in Virtual : z.pte[v] = IF Covers(e, v) THEN NoPte ELSE r.pte[v]
  BY <1>1 DEF Unmapped, Core
<1>6. OwnApart(r, p) /\ AllCovered(r) /\ Single(r) /\ Fits(s, p, l) /\ Neat(r)
  BY <1>1 DEF Honest, SavedIn, Sound, Apart
<1>7. ASSUME NEW j \in 1 .. Len(ns)
      PROVE  \E k \in 1 .. Len(ms) : k # i /\ ns[j] = ms[k] /\ k = IF j < i THEN j ELSE j + 1
  <2>1. CASE j < i
    BY <1>2, <1>3, <1>4, <2>1
  <2>2. CASE ~(j < i)
    BY <1>2, <1>3, <1>4, <2>2
  <2> QED
    BY <2>1, <2>2
<1>8. t.proc[p].state \in Alive
  BY <1>1, <1>5 DEF Alive
<1>9. CASE e.file
  <2>1. \A k \in 1 .. Len(ms) : ms[k].file => k = i
    BY <1>2, <1>3, <1>6, <1>9 DEF Single
  <2>2. \A j \in 1 .. Len(ns) : ~ns[j].file
    BY <1>7, <2>1
  <2>3. ~FileIn(z) /\ Single(z) /\ Fits(t, p, l)
    BY <1>1, <1>2, <2>2 DEF FileIn, Single, Fits
  <2>4. FileIn(r)
    BY <1>2, <1>3, <1>9 DEF FileIn
  <2>5. \A o \in Procs \ {p} : ~FileIn(s.proc[o])
    BY <1>1, <2>4 DEF SavedIn
  <2>6. Based(t, l)
    <3>1. IF e.shared THEN Synced(s, p, e, l) ELSE Based(s, l)
      BY <1>1, <1>2, <1>3, <1>6, <1>9 DEF Fits
    <3>2. CASE e.shared
      <4>1. Writable(s, p)
        BY <1>1, <1>6 DEF Writable, AllCovered
      <4>2. Synced(t, p, e, l)
        BY <1>9, <3>1, <3>2, <4>1 DEF Unmapped
      <4>3. \A v \in Virtual : Covers(e, v) => t.proc[p].pte[v] = NoPte
        BY <1>1, <1>5
      <4> QED
        BY <1>3, <4>2, <4>3, SyncedBare
    <3>3. CASE ~e.shared
      <4>1. t.file.size = s.file.size /\ t.file.page = s.file.page
        BY <3>3 DEF Unmapped
      <4> QED
        BY <3>1, <3>3, <4>1 DEF Based
    <3> QED
      BY <3>2, <3>3
  <2> QED
    BY <1>1, <1>5, <1>8, <2>3, <2>5, <2>6, SavedStepOf
<1>10. CASE ~e.file
  <2>0. t.file.size = s.file.size /\ t.file.page = s.file.page
    BY <1>10 DEF Unmapped
  <2>1. \A h \in Pages : \/ t.data[h] = s.data[h] \/ h = e.page
                         \/ \E v \in Virtual : Covers(e, v) /\ r.pte[v].page = h
    BY <1>1 DEF Unmapped
  <2>2. \A h \in Pages : ~Has(r, h) => t.data[h] = s.data[h]
    BY <1>2, <1>3, <2>1 DEF Has
  <2>3. ASSUME NEW o \in Procs \ {p}, s.proc[o].state = "RUNNABLE" PROVE Fits(t, o, l)
    <3>1. Fits(s, o, l) /\ t.proc[o] = s.proc[o]
      BY <1>5, <2>3 DEF SavedIn, Others
    <3>2. \A v \in Virtual : s.proc[o].pte[v] # NoPte
            => t.data[s.proc[o].pte[v].page] = s.data[s.proc[o].pte[v].page]
      BY <1>1, <2>2, PageApart
    <3> QED
      BY <2>0, <3>1, <3>2, FitsKept
  <2>4. Single(z)
    <3> SUFFICES ASSUME NEW a \in 1 .. Len(ns), NEW b \in 1 .. Len(ns), ns[a].file, ns[b].file PROVE a = b
      BY <1>2 DEF Single
    <3>1. PICK j \in 1 .. Len(ms) : ns[a] = ms[j] /\ j = IF a < i THEN a ELSE a + 1
      BY <1>7
    <3>2. PICK k \in 1 .. Len(ms) : ns[b] = ms[k] /\ k = IF b < i THEN b ELSE b + 1
      BY <1>7
    <3>3. j = k
      BY <1>2, <1>6, <3>1, <3>2 DEF Single
    <3>4. a \in Int /\ b \in Int /\ i \in Int
      BY <1>2, <1>3, <1>4
    <3> QED
      BY <3>1, <3>2, <3>3, <3>4
  <2>5. FileIn(z) => FileIn(r)
    BY <1>2, <1>7 DEF FileIn
  <2>6. FileIn(r) => FileIn(z)
    <3> SUFFICES ASSUME NEW k \in 1 .. Len(ms), ms[k].file PROVE FileIn(z)
      BY <1>2 DEF FileIn
    <3>1. k # i
      BY <1>3, <1>10
    <3>2. CASE k < i
      <4>1. k \in 1 .. Len(ns) /\ ns[k] = ms[k]
        BY <1>2, <1>3, <1>4, <3>2
      <4> QED
        BY <1>2, <4>1 DEF FileIn
    <3>3. CASE k > i
      <4>1. k - 1 \in 1 .. Len(ns) /\ ~(k - 1 < i) /\ k - 1 + 1 = k
        BY <1>2, <1>3, <1>4, <3>3
      <4>2. ns[k - 1] = ms[k]
        BY <1>4, <4>1
      <4> QED
        BY <1>2, <4>1, <4>2 DEF FileIn
    <3> QED
      BY <1>2, <1>3, <3>1, <3>2, <3>3
  <2>7. ASSUME NEW j \in 1 .. Len(ns), ns[j].file
        PROVE  ns[j].mapping_process = p /\ IF ns[j].shared THEN Synced(t, p, ns[j], l) ELSE Based(t, l)
    <3>1a. PICK k \in 1 .. Len(ms) : k # i /\ ns[j] = ms[k]
      BY <1>7
    <3>1. PICK f \in EntryRecs : f = ns[j] /\ f = ms[k] /\ f.file
      BY <1>3, <2>7, <3>1a
    <3>2. f.mapping_process = p /\ IF f.shared THEN Synced(s, p, f, l) ELSE Based(s, l)
      BY <1>1, <1>2, <1>6, <3>1 DEF Fits
    <3>3. Disjoint(f, e)
      BY <1>2, <1>3, <1>6, <3>1a, <3>1, <3>2 DEF OwnApart
    <3>4. CASE f.shared
      <4>1. ASSUME NEW v \in Virtual, Covers(f, v)
            PROVE  /\ t.proc[p].pte[v] = s.proc[p].pte[v]
                   /\ s.proc[p].pte[v] # NoPte
                        => t.data[s.proc[p].pte[v].page] = s.data[s.proc[p].pte[v].page]
        <5>1. ~Covers(e, v)
          BY <3>3, <4>1 DEF Disjoint
        <5>2. t.proc[p].pte[v] = s.proc[p].pte[v]
          BY <1>1, <1>5, <5>1
        <5>3. ASSUME r.pte[v] # NoPte PROVE t.data[r.pte[v].page] = s.data[r.pte[v].page]
          <6>1. r.pte[v] \in PteRecs
            BY ProcIs
          <6>2. r.pte[v].page \in Pages /\ r.pte[v].page # 0
            BY <5>3, <6>1, PteIs, Sizes
          <6>3. r.pte[v].page # e.page
            BY <1>2, <1>3, <1>6 DEF Neat, KindsApart
          <6>4. \A w \in Virtual : r.pte[w].page = r.pte[v].page => w = v
            BY <1>6, <6>2 DEF Neat, PtesOnce
          <6> QED
            BY <2>1, <5>1, <6>2, <6>3, <6>4
        <5> QED
          BY <1>1, <5>2, <5>3
      <4>2. Synced(t, p, f, l)
        <5>1. Synced(s, p, f, l)
          BY Zenon, <3>2, <3>4
        <5>2. t.file.size = s.file.size /\ t.file.page = s.file.page
          BY <2>0
        <5> QED
          BY ZenonT(60), <4>1, <5>1, <5>2, SyncedKept
      <4> QED
        BY <3>1, <3>2, <3>4, <4>2
    <3>5. CASE ~f.shared
      BY <2>0, <3>1, <3>2, <3>5 DEF Based
    <3> QED
      BY <3>4, <3>5
  <2>8. Fits(t, p, l)
    BY <1>1, <1>2, <2>7 DEF Fits
  <2>9. FileIn(t.proc[p]) => \A o \in Procs \ {p} : ~FileIn(s.proc[o])
    BY <1>1, <2>5 DEF SavedIn
  <2>10. (\A q \in Procs : ~FileIn(t.proc[q])) => Based(t, l)
    BY <1>1, <1>5, <2>0, <2>6 DEF SavedIn, Based, Others
  <2> QED
    BY <1>1, <1>5, <1>8, <2>3, <2>4, <2>8, <2>9, <2>10, SavedStepOf
<1> QED
  BY <1>9, <1>10

LEMMA SavedLoaded ==
  ASSUME NEW s, Sound(s), NEW l, SavedIn(s, l), NEW p \in Procs, s.proc[p].state = "RUNNABLE",
         Honest(s.proc[p], p), NEW v \in Virtual, NEW i, NEW t, Loaded(s, t, p, v, i)
  PROVE  SavedIn(t, l)
<1>1. PICK r \in ProcRecs, z \in ProcRecs : r = s.proc[p] /\ z = t.proc[p]
  BY MachineIs DEF Sound, Loaded
<1>2a. PICK ms \in Seq(EntryRecs) : \E ns : ms = r.mmaps /\ ns = z.mmaps /\ Len(ms) \in Nat
  BY <1>1, ProcIs
<1>2. PICK ns : ms = r.mmaps /\ ns = z.mmaps /\ Len(ms) \in Nat
  BY <1>2a
<1>3. /\ r.pte[v] = NoPte /\ i \in 1 .. Len(ms) /\ Covers(ms[i], v)
      /\ z.pte[v].w /\ \A w \in Virtual \ {v} : z.pte[w] = r.pte[w]
  BY <1>1, <1>2 DEF Loaded
<1>4. /\ Len(ns) = Len(ms)
      /\ \A j \in 1 .. Len(ms) : /\ ns[j].addr = ms[j].addr /\ ns[j].length = ms[j].length
                                 /\ ns[j].mapping_process = ms[j].mapping_process
                                 /\ ns[j].file = ms[j].file /\ ns[j].shared = ms[j].shared
                                 /\ ms[j] \in EntryRecs /\ ns[j] \in EntryRecs
  <2>1. Bumped(ms, ns, i)
    BY <1>1, <1>2 DEF Loaded
  <2>2. Len(ns) = Len(ms)
    BY <2>1 DEF Bumped
  <2>3. \A j \in 1 .. Len(ms) : ms[j] \in EntryRecs /\ ns[j] \in EntryRecs
    BY <1>1, <1>2, <2>2, ProcIs
  <2> QED
    BY <2>1, <2>2, <2>3 DEF Bumped
<1>5. PICK g \in Pages : g = z.pte[v].page
  <2>1. z.pte[v] \in PteRecs
    BY ProcIs
  <2> QED
    BY <1>3, <2>1, PteIs
<1>5a. z.pte[v] # NoPte
  <2>1. z.pte[v] \in PteRecs
    BY ProcIs
  <2> QED
    BY <1>5, <2>1, PteIs, Sizes
<1>6. /\ Others(s, t, p) /\ z.state = "RUNNABLE" /\ Sound(t) /\ Sound(s)
      /\ t.file.size = s.file.size /\ t.file.page = s.file.page
      /\ \A h \in Pages : h # g => t.data[h] = s.data[h]
  BY <1>1, <1>5 DEF Loaded, Core, SameFile
<1>7. /\ ms[i].file => v - ms[i].addr <= s.file.size
      /\ Content(s, ms[i], v - ms[i].addr, t.data[g])
  BY <1>1, <1>2, <1>5 DEF Loaded
<1>8. OwnApart(r, p) /\ Single(r) /\ Fits(s, p, l)
  BY <1>1 DEF Honest, SavedIn
<1>9. ASSUME NEW o \in Procs \ {p}, s.proc[o].state = "RUNNABLE" PROVE Fits(t, o, l)
  <2>1. Fits(s, o, l) /\ t.proc[o] = s.proc[o]
    BY <1>6, <1>9 DEF SavedIn, Others
  <2>2. Has(t.proc[p], g)
    BY <1>1, <1>5 DEF Has
  <2>3. \A w \in Virtual : s.proc[o].pte[w] # NoPte
          => s.proc[o].pte[w].page \in Pages /\ s.proc[o].pte[w].page # g
    BY <1>6, <2>1, <2>2, PageApart
  <2>4. \A w \in Virtual : s.proc[o].pte[w] # NoPte
          => t.data[s.proc[o].pte[w].page] = s.data[s.proc[o].pte[w].page]
    BY <1>6, <2>3
  <2> QED
    BY <1>6, <2>1, <2>4, FitsKept
<1>10. ASSUME NEW w \in Virtual \ {v}, r.pte[w] # NoPte
       PROVE  t.data[r.pte[w].page] = s.data[r.pte[w].page]
  <2>1. r.pte[w] \in PteRecs /\ z.pte[w] = r.pte[w]
    BY <1>3, ProcIs
  <2>2. r.pte[w].page \in Pages
    BY <1>10, <2>1, PteIs
  <2>3. Neat(z)
    BY <1>1, <1>6 DEF Sound, Apart
  <2>4. r.pte[w].page # g
    BY <1>5, <2>1, <2>2, <2>3, Sizes DEF Neat, PtesOnce
  <2> QED
    BY <1>6, <2>2, <2>4
<1>11. ASSUME NEW j \in 1 .. Len(ms), ms[j].file
       PROVE  /\ ms[j].mapping_process = p
              /\ IF ms[j].shared THEN Synced(t, p, ns[j], l) ELSE Based(t, l)
  <2>1. PICK e \in EntryRecs, f \in EntryRecs : e = ms[j] /\ f = ns[j] /\ f.addr = e.addr /\ f.length = e.length
    BY <1>4
  <2>2. e.mapping_process = p /\ IF e.shared THEN Synced(s, p, e, l) ELSE Based(s, l)
    BY <1>1, <1>2, <1>8, <1>11, <2>1 DEF Fits
  <2>3. CASE e.shared /\ j # i
    <3>1. Disjoint(e, ms[i])
      BY <1>2, <1>3, <1>8, <2>1, <2>2, <2>3 DEF OwnApart
    <3>2. ~Covers(e, v)
      BY <1>3, <3>1 DEF Disjoint
    <3>3. ASSUME NEW w \in Virtual, Covers(e, w)
          PROVE  /\ t.proc[p].pte[w] = s.proc[p].pte[w]
                 /\ s.proc[p].pte[w] # NoPte
                      => t.data[s.proc[p].pte[w].page] = s.data[s.proc[p].pte[w].page]
      BY <1>1, <1>3, <1>10, <3>2, <3>3
    <3>4. Synced(t, p, e, l)
      BY <1>6, <2>2, <2>3, <3>3, SyncedKept
    <3>5. Synced(t, p, f, l)
      BY <2>1, <3>4 DEF Synced, PageSynced
    <3> QED
      BY <2>1, <2>2, <2>3, <3>5
  <2>4. CASE e.shared /\ j = i
    <3>1. ASSUME NEW k \in FilePages PROVE PageSynced(t, p, e, l, k)
      <4>0. k \in Int /\ e.addr \in Nat /\ e.length \in Nat /\ v \in Nat /\ k >= 0
        BY EntryIs, Sizes DEF FilePages
      <4>1. PageSynced(s, p, e, l, k)
        BY <2>2, <2>4 DEF Synced
      <4>2. CASE e.addr + k = v
        <5>1. k = v - e.addr
          BY <4>0, <4>2
        <5>2. k < e.length
          BY <1>3, <2>1, <2>4, <4>0, <5>1 DEF Covers
        <5>3. k <= s.file.size /\ (IF k < s.file.size THEN t.data[g] = s.file.page[k] ELSE t.data[g] = 0)
          BY <1>7, <1>11, <2>1, <2>4, <5>1 DEF Content
        <5>4. IF k < s.file.size THEN s.file.page[k] = l[k] ELSE l[k] = 0
          BY <1>1, <1>3, <4>1, <4>2 DEF PageSynced
        <5>5. t.data[g] = l[k]
          BY <5>3, <5>4
        <5> QED
          BY <1>1, <1>5, <1>5a, <1>6, <4>2, <5>2, <5>3, <5>5 DEF PageSynced
      <4>3. CASE e.addr + k # v /\ k < e.length
        <5>1. k \in 0 .. e.length - 1
          BY <4>0, <4>3
        <5>2. PICK w \in Virtual \ {v} : w = e.addr + k
          BY <4>3, <5>1, EntryIs
        <5>3. t.proc[p].pte[w] = s.proc[p].pte[w]
          BY <1>1, <1>3
        <5>4. s.proc[p].pte[w] # NoPte => t.data[s.proc[p].pte[w].page] = s.data[s.proc[p].pte[w].page]
          BY <1>1, <1>10
        <5> QED
          BY <1>6, <4>1, <4>3, <5>2, <5>3, <5>4 DEF PageSynced
      <4>4. CASE ~(k < e.length)
        BY <1>6, <4>1, <4>4 DEF PageSynced
      <4> QED
        BY <4>2, <4>3, <4>4
    <3>2. Synced(t, p, e, l)
      BY <3>1 DEF Synced
    <3>3. Synced(t, p, f, l)
      BY <2>1, <3>2 DEF Synced, PageSynced
    <3> QED
      BY <2>1, <2>2, <2>4, <3>3
  <2>5. CASE ~e.shared
    BY <1>6, <2>1, <2>2, <2>5 DEF Based
  <2> QED
    BY <2>3, <2>4, <2>5
<1>12. Fits(t, p, l)
  <2> SUFFICES ASSUME NEW j \in 1 .. Len(ns), ns[j].file
               PROVE  ns[j].mapping_process = p /\ IF ns[j].shared THEN Synced(t, p, ns[j], l) ELSE Based(t, l)
    BY <1>1, <1>2 DEF Fits
  <2> QED
    BY <1>4, <1>11
<1>13. Single(z)
  BY <1>2, <1>4, <1>8 DEF Single
<1>14. FileIn(z) <=> FileIn(r)
  BY <1>2, <1>4 DEF FileIn
<1>15. t.proc[p].state \in Alive /\ Single(t.proc[p])
  BY <1>1, <1>6, <1>13 DEF Alive
<1>16. FileIn(t.proc[p]) => \A o \in Procs \ {p} : ~FileIn(s.proc[o])
  BY <1>1, <1>14 DEF SavedIn
<1>17. (\A q \in Procs : ~FileIn(t.proc[q])) => Based(t, l)
  BY <1>1, <1>6, <1>14 DEF SavedIn, Based, Others
<1> QED
  BY <1>6, <1>9, <1>12, <1>15, <1>16, <1>17, SavedStepOf

\* A process stores 1 in page k of the file, through its mapping i.
LEMMA SavedStored ==
  ASSUME NEW s, Sound(s), NEW l, SavedIn(s, l), NEW p \in Procs,
         s.proc[p].state = "RUNNABLE",
         NEW i \in 1 .. Len(s.proc[p].mmaps), NEW e \in EntryRecs, e = s.proc[p].mmaps[i],
         e.shared, e.file, NEW k \in Nat, k < e.length, NEW v \in Virtual, v = e.addr + k,
         NEW g \in Pages, s.proc[p].pte[v].page = g, NEW t, t = PutData(s, g, 1),
         NEW n, \A j \in FilePages : n[j] = IF j = k THEN 1 ELSE l[j]
  PROVE  SavedIn(t, n)
<1>1. PICK r \in ProcRecs : r = s.proc[p] /\ e = r.mmaps[i]
  BY MachineIs, ProcIs DEF Sound
<1>2. e.addr \in Nat /\ e.length \in Nat
  BY <1>1, EntryIs
<1>3. r.pte[v] # NoPte /\ r.pte[v].page = g
  <2>1. r.pte[v].page = g
    BY Zenon, <1>1
  <2>2. g # 0 /\ NoPte.page = 0
    BY Sizes DEF NoPte
  <2> QED
    BY Zenon, <2>1, <2>2
<1>4. s.data \in [Pages -> Data] /\ s \in Machines
  BY MachineIs DEF Sound
<1>5. t.proc = s.proc /\ t.file = s.file /\ t.data = [s.data EXCEPT ![g] = 1]
  BY <1>4 DEF PutData, Machines
<1>6. FileIn(r) /\ Single(r) /\ Fits(s, p, l) /\ Neat(r)
  BY <1>1, <1>2 DEF FileIn, SavedIn, Sound, Apart
<1>7. \A o \in Procs \ {p} : ~FileIn(s.proc[o])
  BY <1>1, <1>6 DEF SavedIn
<1>8. Synced(s, p, e, l)
  BY <1>1, <1>2, <1>6 DEF Fits
<1>9. ASSUME NEW j \in FilePages PROVE PageSynced(t, p, e, n, j)
  <2>0. j \in Nat
    BY Sizes DEF FilePages
  <2>1. PageSynced(s, p, e, l, j)
    BY <1>8 DEF Synced
  <2>2. CASE j = k
    <3>1. n[j] = 1
      BY <2>2
    <3>2. t.data[r.pte[v].page] = 1
      BY SMTT(60), <1>3, <1>4, <1>5
    <3>3. k <= s.file.size
      BY <1>1, <1>3, <2>1, <2>2 DEF PageSynced
    <3> QED
      BY <1>1, <1>3, <1>5, <2>2, <3>1, <3>2, <3>3 DEF PageSynced
  <2>3. CASE j # k
    <3>1. n[j] = l[j]
      BY <2>3
    <3>2. CASE j < e.length
      <4>1. j \in 0 .. e.length - 1
        BY <1>2, <2>0, <3>2
      <4>2. PICK w \in Virtual : w = e.addr + j
        BY <4>1, EntryIs
      <4>3. w # v
        BY SMTT(60), <1>2, <2>0, <2>3, <4>2
      <4>4. ASSUME r.pte[w] # NoPte PROVE t.data[r.pte[w].page] = s.data[r.pte[w].page]
        <5>1. r.pte[w] \in PteRecs
          BY ProcIs
        <5>2. r.pte[w].page \in Pages
          BY <4>4, <5>1, PteIs
        <5>3. r.pte[w].page # g
          BY <1>3, <1>6, <4>3, <5>2, Sizes DEF Neat, PtesOnce
        <5> QED
          BY <1>4, <1>5, <5>2, <5>3
      <4>5. t.proc[p].pte[w] = r.pte[w] /\ s.proc[p].pte[w] = r.pte[w] /\ t.file = s.file
        BY <1>1, <1>5
      <4>6. CASE r.pte[w] = NoPte
        BY <2>1, <3>1, <4>2, <4>5, <4>6 DEF PageSynced
      <4>7. CASE r.pte[w] # NoPte
        <5>1. t.data[r.pte[w].page] = s.data[r.pte[w].page]
          BY <4>4, <4>7
        <5>2. s.data[r.pte[w].page] = l[j] /\ j <= s.file.size
          BY <2>1, <3>2, <4>2, <4>5, <4>7 DEF PageSynced
        <5>3. t.data[r.pte[w].page] = n[j]
          BY <3>1, <5>1, <5>2
        <5> QED
          BY <3>2, <4>2, <4>5, <4>7, <5>2, <5>3 DEF PageSynced
      <4> QED
        BY <4>6, <4>7
    <3>3. CASE ~(j < e.length)
      BY <1>5, <2>1, <3>1, <3>3 DEF PageSynced
    <3> QED
      BY <3>2, <3>3
  <2> QED
    BY <2>2, <2>3
<1>10. Synced(t, p, e, n)
  BY <1>9 DEF Synced
<1>11. Fits(t, p, n)
  <2> SUFFICES ASSUME NEW j \in 1 .. Len(r.mmaps), r.mmaps[j].file
               PROVE  /\ r.mmaps[j].mapping_process = p
                      /\ IF r.mmaps[j].shared THEN Synced(t, p, r.mmaps[j], n) ELSE Based(t, n)
    BY <1>1, <1>5 DEF Fits
  <2>1. j = i
    BY <1>1, <1>2, <1>6 DEF Single
  <2>2. e.mapping_process = p
    BY <1>1, <1>2, <1>6 DEF Fits
  <2> QED
    BY <1>1, <1>2, <1>10, <2>1, <2>2
<1>12. Others(s, t, p)
  BY <1>5 DEF Others
<1>13. t.proc[p].state \in Alive /\ Single(t.proc[p]) /\ FileIn(t.proc[p])
  BY <1>1, <1>5, <1>6 DEF Alive
<1> QED
  BY <1>7, <1>11, <1>12, <1>13, SavedStepOf

LEMMA SavedKilled ==
  ASSUME NEW s, Sound(s), NEW l, SavedIn(s, l), NEW p \in Procs, NEW t, Killed(s, t, p)
  PROVE  SavedIn(t, l)
<1>1. /\ Others(s, t, p) /\ t.proc[p].state = "EXITING" /\ t.proc[p].mmaps = s.proc[p].mmaps
      /\ t.file.size = s.file.size /\ t.file.page = s.file.page /\ t.data = s.data
  BY DEF Killed, SameFile
<1>2. \A o \in Procs \ {p} : s.proc[o].state = "RUNNABLE" => Fits(t, o, l)
  <2> SUFFICES ASSUME NEW o \in Procs \ {p}, s.proc[o].state = "RUNNABLE" PROVE Fits(t, o, l)
    OBVIOUS
  <2>1. Fits(s, o, l) /\ t.proc[o] = s.proc[o]
    BY <1>1 DEF SavedIn, Others
  <2> QED
    BY <1>1, <2>1, FitsKept
<1>3. FileIn(t.proc[p]) <=> FileIn(s.proc[p])
  BY <1>1 DEF FileIn
<1>4. t.proc[p].state \in Alive /\ Single(t.proc[p]) /\ t.proc[p].state # "RUNNABLE"
  BY <1>1 DEF Alive, Single, SavedIn
<1>5. FileIn(t.proc[p]) => \A o \in Procs \ {p} : ~FileIn(s.proc[o])
  BY <1>3 DEF SavedIn
<1>6. (\A q \in Procs : ~FileIn(t.proc[q])) => Based(t, l)
  BY <1>1, <1>3 DEF SavedIn, Based, Others
<1> QED
  BY <1>1, <1>2, <1>4, <1>5, <1>6, SavedStepOf

LEMMA SavedForked ==
  ASSUME NEW s, Sound(s), NEW l, SavedIn(s, l), NoLeft(s), NEW p \in Procs, NEW np \in Procs,
         NEW t, Forked(s, t, p, np), ~FileIn(s.proc[p])
  PROVE  SavedIn(t, l)
<1>1. /\ Others(s, t, np) /\ t.file.size = s.file.size /\ t.file.page = s.file.page
      /\ t.data = s.data /\ s.proc[np].state = "UNUSED"
  BY DEF Forked
<1>2. \A o \in Procs \ {np} : s.proc[o].state = "RUNNABLE" => Fits(t, o, l)
  <2> SUFFICES ASSUME NEW o \in Procs \ {np}, s.proc[o].state = "RUNNABLE" PROVE Fits(t, o, l)
    OBVIOUS
  <2>1. Fits(s, o, l) /\ t.proc[o] = s.proc[o]
    BY <1>1 DEF SavedIn, Others
  <2> QED
    BY <1>1, <2>1, FitsKept
<1>3. ~FileIn(s.proc[np])
  BY <1>1 DEF FileIn, NoLeft
<1>4. \A j \in 1 .. Len(t.proc[np].mmaps) : ~t.proc[np].mmaps[j].file
  BY <1>3 DEF FileIn, Forked, Grown
<1>5. ~FileIn(t.proc[np]) /\ Single(t.proc[np]) /\ Fits(t, np, l)
  BY <1>4 DEF FileIn, Single, Fits
<1>6. t.proc[np].state \in Alive
  BY DEF Forked, Alive
<1>7. (\A q \in Procs : ~FileIn(t.proc[q])) => Based(t, l)
  BY <1>1, <1>3 DEF SavedIn, Based, Others
<1> QED
  BY <1>1, <1>2, <1>5, <1>6, <1>7, SavedStepOf

\* A machine in which only the flag of a panic differs.
LEMMA SavedSame ==
  ASSUME NEW s, Sound(s), NEW t, NEW l, SavedIn(s, l), t.proc = s.proc, t.file = s.file, t.data = s.data
  PROVE  SavedIn(t, l)
<1>1. \A o \in Procs : s.proc[o].state = "RUNNABLE" => Fits(t, o, l)
  <2> SUFFICES ASSUME NEW o \in Procs, s.proc[o].state = "RUNNABLE" PROVE Fits(t, o, l)
    OBVIOUS
  <2>1. Fits(s, o, l)
    BY DEF SavedIn
  <2> QED
    BY <2>1, FitsKept
<1>2. Based(s, l) => Based(t, l)
  BY DEF Based
<1> QED
  BY <1>1, <1>2 DEF SavedIn

\* Nobody can use a mapping of the file: there is none.
LEMMA NoFilesIs ==
  ASSUME Memory, SavedIn(m, last), NoLeft(m), NoFiles
  PROVE  \A q \in Procs : ~FileIn(m.proc[q])
<1> SUFFICES ASSUME NEW q \in Procs, NEW i \in 1 .. Len(m.proc[q].mmaps), m.proc[q].mmaps[i].file
             PROVE  FALSE
  BY DEF FileIn
<1>1. m.proc[q] \in ProcRecs /\ Neat(m.proc[q])
  BY MachineIs DEF Memory, Sound, Apart
<1>2. Len(m.proc[q].mmaps) \in Nat /\ Len(m.proc[q].mmaps) <= NPAGES
  BY <1>1, ListFits
<1>3. i \in 1 .. NPAGES /\ i \in Nat /\ i # 0 /\ i <= Len(m.proc[q].mmaps)
  BY <1>2, Sizes
<1>4. m.proc[q].state \notin {"UNUSED", "STUCK"}
  BY DEF NoLeft, SavedIn, Alive
<1>5. PICK h : h = <<q, i>>
  OBVIOUS
<1>6. h \in Procs \X (1 .. NPAGES) /\ h[1] = q /\ h[2] = i
  BY <1>3, <1>5
<1>7. h \in Holders
  BY <1>3, <1>4, <1>6 DEF Holders
<1> QED
  BY <1>3, <1>6, <1>7 DEF NoFiles

LEMMA SavedInit == Init => Saved
<1> SUFFICES ASSUME Init PROVE SavedIn(m, last)
  BY DEF Saved
<1>1. ASSUME NEW p \in Procs PROVE m.proc[p].state \in Alive /\ m.proc[p].mmaps = << >>
  BY WMapAssumption DEF Init, Unused, Alive
<1>2. ASSUME NEW p \in Procs PROVE ~FileIn(m.proc[p]) /\ Single(m.proc[p]) /\ Fits(m, p, last)
  <2>1. \A i \in 1 .. Len(m.proc[p].mmaps) : FALSE
    BY <1>1
  <2> QED
    BY <2>1 DEF FileIn, Single, Fits
<1>3. Based(m, last)
  BY DEF Init, Based, FilePages
<1> QED
  BY <1>1, <1>2, <1>3 DEF SavedIn

LEMMA SavedStep == Memory /\ Vacant /\ Info /\ Refs /\ Saved /\ [Next]_vars => Saved'
<1> SUFFICES ASSUME Memory, Vacant, Info, Refs, Saved, [Next]_vars, writable, upset' = {}
             PROVE  SavedIn(m', last')
  BY DEF Saved
<1>1. Steps
  BY NextIs
<1>2. Sound(m)
  BY DEF Memory
<1>3. ASSUME upset = {}
      PROVE  /\ SavedIn(m, last) /\ NoLeft(m)
             /\ \A p \in Procs : m.proc[p].state = "RUNNABLE" => Honest(m.proc[p], p)
  BY <1>3 DEF Saved, Refs, Info
<1>4. CASE Idles
  <2>1. upset = {} /\ last' = last
    BY <1>4 DEF Idles
  <2>2. m'.proc = m.proc /\ m'.file = m.file /\ m'.data = m.data
    BY <1>4, IdleProcs
  <2> QED
    BY <1>2, <1>3, <2>1, <2>2, SavedSame
<1>5. CASE Maps
  <2>1a. PICK p \in Procs : \E e :
           /\ Running(p) /\ NewMapping(m, m', p, e) /\ last' = last /\ upset \subseteq upset'
           /\ e.file /\ upset' = {} => NoFiles
    BY <1>5 DEF Maps
  <2>1. PICK e :
          /\ Running(p) /\ NewMapping(m, m', p, e) /\ last' = last /\ upset \subseteq upset'
          /\ e.file /\ upset' = {} => NoFiles
    BY <2>1a
  <2>2. upset = {}
    BY <2>1
  <2>3. e.file => \A q \in Procs : ~FileIn(m.proc[q])
    BY <1>3, <2>1, <2>2, NoFilesIs
  <2>4. m.proc[p].state = "RUNNABLE" /\ Honest(m.proc[p], p) /\ SavedIn(m, last)
    BY <1>3, <2>1, <2>2 DEF Running
  <2> QED
    BY <1>2, <2>1, <2>3, <2>4, SavedMapped
<1>6. CASE Unmaps
  <2>1. PICK p \in Procs : \E i \in Mapped(p) :
          Running(p) /\ Unmapped(m, m', p, i, m.proc[p].mmaps[i]) /\ last' = last /\ upset' = upset
    BY <1>6 DEF Unmaps
  <2>2. PICK i \in 1 .. Len(m.proc[p].mmaps) :
          Running(p) /\ Unmapped(m, m', p, i, m.proc[p].mmaps[i]) /\ last' = last /\ upset' = upset
    BY <2>1 DEF Mapped
  <2>3. m.proc[p].state = "RUNNABLE" /\ Honest(m.proc[p], p) /\ SavedIn(m, last)
    BY <1>3, <2>2 DEF Running
  <2> QED
    BY <1>2, <2>2, <2>3, SavedUnmapped
<1>7. CASE Kills
  <2>1. PICK p \in Procs : Killed(m, m', p) /\ last' = last /\ upset' = upset
    BY <1>7 DEF Kills
  <2> QED
    BY <1>2, <1>3, <2>1, SavedKilled
<1>8. CASE Loads
  <2>1. PICK p \in Procs, v \in Virtual : \E i :
          Running(p) /\ Loaded(m, m', p, v, i) /\ last' = last /\ upset' = upset
    BY <1>8 DEF Loads
  <2>2. m.proc[p].state = "RUNNABLE" /\ Honest(m.proc[p], p) /\ SavedIn(m, last)
    BY <1>3, <2>1 DEF Running
  <2> QED
    BY <1>2, <2>1, <2>2, SavedLoaded
<1>9. CASE Stores
  <2>1. PICK p \in Procs : \E i \in Mapped(p) : \E k \in 0 .. m.proc[p].mmaps[i].length - 1 : \E v \in Virtual :
          /\ Running(p) /\ m.proc[p].mmaps[i].shared /\ m.proc[p].mmaps[i].file
          /\ v = m.proc[p].mmaps[i].addr + k
          /\ m.proc[p].pte[v] # NoPte /\ m' = PutData(m, m.proc[p].pte[v].page, 1)
          /\ last' = (IF k \in FilePages THEN [last EXCEPT ![k] = 1] ELSE last) /\ upset' = upset
    BY <1>9 DEF Stores
  <2>2. PICK i \in 1 .. Len(m.proc[p].mmaps) : \E k \in 0 .. m.proc[p].mmaps[i].length - 1 : \E v \in Virtual :
          /\ Running(p) /\ m.proc[p].mmaps[i].shared /\ m.proc[p].mmaps[i].file
          /\ v = m.proc[p].mmaps[i].addr + k
          /\ m.proc[p].pte[v] # NoPte /\ m' = PutData(m, m.proc[p].pte[v].page, 1)
          /\ last' = (IF k \in FilePages THEN [last EXCEPT ![k] = 1] ELSE last) /\ upset' = upset
    BY <2>1 DEF Mapped
  <2>3. PICK e \in EntryRecs : e = m.proc[p].mmaps[i]
    BY <1>2, MachineIs, ProcIs DEF Sound
  <2>4. PICK k \in 0 .. e.length - 1, v \in Virtual :
          /\ Running(p) /\ e.shared /\ e.file /\ v = e.addr + k
          /\ m.proc[p].pte[v] # NoPte /\ m' = PutData(m, m.proc[p].pte[v].page, 1)
          /\ last' = (IF k \in FilePages THEN [last EXCEPT ![k] = 1] ELSE last) /\ upset' = upset
    BY <2>2, <2>3
  <2>5. m.proc[p].pte[v] \in PteRecs
    BY <1>2, MachineIs, ProcIs DEF Sound
  <2>6. PICK g \in Pages : m.proc[p].pte[v].page = g
    BY <2>4, <2>5, PteIs
  <2>7. m.proc[p].state = "RUNNABLE" /\ SavedIn(m, last)
    BY <1>3, <2>4 DEF Running
  <2>8. last \in [FilePages -> Data]
    BY DEF Memory
  <2>9. \A j \in FilePages : last'[j] = IF j = k THEN 1 ELSE last[j]
    BY <2>4, <2>8
  <2>10. k \in Nat /\ k < e.length
    BY EntryIs
  <2>11. m' = PutData(m, g, 1)
    BY <2>4, <2>6
  <2>12. e.shared /\ e.file /\ v = e.addr + k
    BY <2>4
  <2> QED
    BY SMTT(60), <1>2, <2>3, <2>6, <2>7, <2>9, <2>10, <2>11, <2>12, SavedStored
<1>10. CASE Forks
  <2>1. PICK p \in Procs, np \in Procs :
          /\ Forked(m, m', p, np) /\ last' = last /\ upset \subseteq upset'
          /\ "copied" \in upset' \/ \A i \in Mapped(p) : ~m.proc[p].mmaps[i].file
    BY <1>10 DEF Forks
  <2>2. ~FileIn(m.proc[p]) /\ upset = {}
    BY <2>1 DEF FileIn, Mapped
  <2> QED
    BY <1>2, <1>3, <2>1, <2>2, SavedForked
<1>11. ~Reaps
  BY DEF Reaps, Vacant
<1>12. ~Remaps /\ ~Execs /\ ~Departs /\ ~Exits
  BY DEF Remaps, Execs, Departs, Exits
<1> QED
  BY <1>1, <1>4, <1>5, <1>6, <1>7, <1>8, <1>9, <1>10, <1>11, <1>12 DEF Steps

\* What was stored through a shared mapping of the file is in the file once the mapping
\* has been removed with wunmap, unless it cannot be written, was mapped twice or a process that maps
\* it forked, exited, or used wremap or exec.
THEOREM StoresCorrect == Spec => []StoresReachFile
<1>1. Init => Memory /\ Vacant /\ Info /\ Refs /\ Saved
  BY MemoryInit, VacantInit, InfoInit, RefsInit, SavedInit
<1>2. Memory /\ Vacant /\ Info /\ Refs /\ Saved /\ [Next]_vars
        => (Memory /\ Vacant /\ Info /\ Refs /\ Saved)'
  BY MemoryStep, VacantStep, InfoStep, RefsStep, SavedStep
<1>3. Memory /\ Refs /\ Saved => StoresReachFile
  <2> SUFFICES ASSUME Memory, Refs, Saved, writable, upset = {}, NoFiles
               PROVE  \A k \in FilePages : k < m.file.size => m.file.page[k] = last[k]
    BY DEF StoresReachFile, Current, NoFiles
  <2>1. SavedIn(m, last) /\ NoLeft(m)
    BY DEF Saved, Refs
  <2>2. Based(m, last)
    BY <2>1, NoFilesIs DEF SavedIn
  <2> QED
    BY <2>2 DEF Based
<1> QED
  BY <1>1, <1>2, <1>3, PTL DEF Spec
=============================================================================

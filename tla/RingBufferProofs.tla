-------------------------- MODULE RingBufferProofs --------------------------
(***************************************************************************)
(* Proofs, for any numbers of producers and consumers and any RING_SIZE,   *)
(* that the ring of p6 accounts for every slot, that no two threads ever   *)
(* copy from or to the same slot at once, and that the ring implements a   *)
(* bounded queue.                                                          *)
(*                                                                         *)
(* The inductive invariant is Typed (TypeOK without the upper bounds of    *)
(* the semaphores, which only follow from the accounting), Owners (who     *)
(* holds a mutex is where the mutex is held) and SlotAccounting; for the   *)
(* queue also Carried, what the threads inside a call carry.               *)
(***************************************************************************)
EXTENDS RingBuffer, FiniteSetTheorems, SequenceTheorems, TLAPS

Typed == /\ p_head \in Slots /\ c_tail \in Slots
         /\ buffer \in [Slots -> Items \cup {NoItem}]
         /\ sem_not_full \in Nat /\ sem_not_empty \in Nat
         /\ s_mutex \in Producers \cup {NoThread}
         /\ g_mutex \in Consumers \cup {NoThread}
         /\ pc \in [Threads -> Labels]
         /\ bd \in [Threads -> Items \cup {NoItem}]

Critical == {"copy", "advance", "unlock"}

Owners == /\ \A p \in Producers : pc[p] \in Critical => s_mutex = p
          /\ \A c \in Consumers : pc[c] \in Critical => g_mutex = c

IInv == Typed /\ Owners /\ SlotAccounting

\* The threads of S whose entry in f is in L.
At(f, S, L) == {u \in S : f[u] \in L}

Claim == {"lock", "copy", "advance"}
Owe   == {"unlock", "post"}
One(x, L) == IF x \in L THEN 1 ELSE 0

\* Of the threads of S, only t differs between f and g.
OnlyMoves(t, S, f, g) == \A u \in S \ {t} : g[u] = f[u]

-----------------------------------------------------------------------------
(* Counting threads by where they are *)

\* A set of threads picked out by their pc is finite, its size a number.
LEMMA AtFinite ==
  ASSUME NEW S, IsFiniteSet(S), NEW f, NEW L
  PROVE  IsFiniteSet(At(f, S, L)) /\ Cardinality(At(f, S, L)) \in Nat
<1>1. At(f, S, L) \in SUBSET S
  BY DEF At
<1>2. IsFiniteSet(At(f, S, L))
  BY <1>1, FS_Subset
<1> QED
  BY <1>2, FS_CardinalityType

\* When only thread t of S moves, the number of threads of S in L changes by what
\* t contributes.
LEMMA AtMoves ==
  ASSUME NEW S, IsFiniteSet(S), NEW f, NEW g, NEW t \in S,
         OnlyMoves(t, S, f, g), NEW L
  PROVE  Cardinality(At(g, S, L))
           = Cardinality(At(f, S, L)) + One(g[t], L) - One(f[t], L)
<1> DEFINE B == At(g, S, L)
           A == At(f, S, L)
<1>1. IsFiniteSet(A) /\ Cardinality(A) \in Nat
  BY AtFinite
<1>2. t \in A <=> f[t] \in L
  BY DEF At
<1>3. B = IF g[t] \in L THEN A \cup {t} ELSE A \ {t}
  BY DEF At, OnlyMoves
<1>4. Cardinality(A \cup {t}) = IF t \in A THEN Cardinality(A) ELSE Cardinality(A) + 1
  BY <1>1, FS_AddElement
<1>5. Cardinality(A \ {t}) = IF t \in A THEN Cardinality(A) - 1 ELSE Cardinality(A)
  BY <1>1, FS_RemoveElement
<1> HIDE DEF A, B
<1>6. Cardinality(B) = Cardinality(A) + One(g[t], L) - One(f[t], L)
  BY <1>1, <1>2, <1>3, <1>4, <1>5 DEF One
<1> QED
  BY <1>6 DEF A, B

\* The four counts of the accounting are natural numbers.
LEMMA CountsNat ==
  /\ Cardinality(Filling) \in Nat /\ Cardinality(Filled) \in Nat
  /\ Cardinality(Emptying) \in Nat /\ Cardinality(Emptied) \in Nat
<1>1. /\ Filling = At(pc, Producers, Claim) /\ Filled = At(pc, Producers, Owe)
      /\ Emptying = At(pc, Consumers, Claim) /\ Emptied = At(pc, Consumers, Owe)
  BY DEF Filling, Filled, Emptying, Emptied, At, Claim, Owe
<1> QED
  BY <1>1, AtFinite, RingAssumption

\* How a producer's step from one statement to the next changes the four counts.
LEMMA ProducerMoves ==
  ASSUME pc \in [Threads -> Labels], NEW p \in Producers, NEW a, NEW b \in Labels,
         Goto(p, a, b)
  PROVE  /\ Cardinality(Filling') = Cardinality(Filling) + One(b, Claim) - One(a, Claim)
         /\ Cardinality(Filled') = Cardinality(Filled) + One(b, Owe) - One(a, Owe)
         /\ Emptying' = Emptying /\ Emptied' = Emptied
<1> SUFFICES ASSUME NEW f, NEW g, f = pc, g = pc'
             PROVE  /\ Cardinality(Filling') = Cardinality(Filling) + One(b, Claim) - One(a, Claim)
                    /\ Cardinality(Filled') = Cardinality(Filled) + One(b, Owe) - One(a, Owe)
                    /\ Emptying' = Emptying /\ Emptied' = Emptied
  OBVIOUS
<1>1. /\ Filling = At(f, Producers, Claim) /\ Filling' = At(g, Producers, Claim)
      /\ Filled = At(f, Producers, Owe) /\ Filled' = At(g, Producers, Owe)
      /\ Emptying = At(f, Consumers, Claim) /\ Emptying' = At(g, Consumers, Claim)
      /\ Emptied = At(f, Consumers, Owe) /\ Emptied' = At(g, Consumers, Owe)
  BY DEF Filling, Filled, Emptying, Emptied, At, Claim, Owe
<1>2. /\ Producers \in SUBSET Threads /\ Consumers \in SUBSET Threads
      /\ p \in Threads /\ p \notin Consumers /\ IsFiniteSet(Producers)
  BY RingAssumption DEF Threads
<1>3. /\ f[p] = a /\ g[p] = b
      /\ \A u \in Producers \ {p} : g[u] = f[u]
      /\ \A u \in Consumers : g[u] = f[u]
  <2>1. f \in [Threads -> Labels] /\ f[p] = a /\ g = [f EXCEPT ![p] = b]
    BY DEF Goto
  <2>2. \A u \in Threads : g[u] = IF u = p THEN b ELSE f[u]
    BY ONLY <1>2, <2>1
  <2> QED
    BY ONLY <1>2, <2>1, <2>2
<1>4. ASSUME NEW L
      PROVE  /\ Cardinality(At(g, Producers, L))
                  = Cardinality(At(f, Producers, L)) + One(b, L) - One(a, L)
             /\ At(g, Consumers, L) = At(f, Consumers, L)
  <2>1. IsFiniteSet(Producers) /\ p \in Producers /\ OnlyMoves(p, Producers, f, g)
    BY <1>2, <1>3 DEF OnlyMoves
  <2>2. Cardinality(At(g, Producers, L))
          = Cardinality(At(f, Producers, L)) + One(g[p], L) - One(f[p], L)
    BY ONLY <2>1, AtMoves
  <2>3. \A u \in Consumers : g[u] = f[u]
    BY <1>3
  <2>4. At(g, Consumers, L) = At(f, Consumers, L)
    BY ONLY <2>3 DEF At
  <2> QED
    BY <1>3, <2>2, <2>4
<1> QED
  BY <1>1, <1>4

\* The same for a consumer's step.
LEMMA ConsumerMoves ==
  ASSUME pc \in [Threads -> Labels], NEW c \in Consumers, NEW a, NEW b \in Labels,
         Goto(c, a, b)
  PROVE  /\ Cardinality(Emptying') = Cardinality(Emptying) + One(b, Claim) - One(a, Claim)
         /\ Cardinality(Emptied') = Cardinality(Emptied) + One(b, Owe) - One(a, Owe)
         /\ Filling' = Filling /\ Filled' = Filled
<1> SUFFICES ASSUME NEW f, NEW g, f = pc, g = pc'
             PROVE  /\ Cardinality(Emptying') = Cardinality(Emptying) + One(b, Claim) - One(a, Claim)
                    /\ Cardinality(Emptied') = Cardinality(Emptied) + One(b, Owe) - One(a, Owe)
                    /\ Filling' = Filling /\ Filled' = Filled
  OBVIOUS
<1>1. /\ Emptying = At(f, Consumers, Claim) /\ Emptying' = At(g, Consumers, Claim)
      /\ Emptied = At(f, Consumers, Owe) /\ Emptied' = At(g, Consumers, Owe)
      /\ Filling = At(f, Producers, Claim) /\ Filling' = At(g, Producers, Claim)
      /\ Filled = At(f, Producers, Owe) /\ Filled' = At(g, Producers, Owe)
  BY DEF Filling, Filled, Emptying, Emptied, At, Claim, Owe
<1>2. /\ Consumers \in SUBSET Threads /\ Producers \in SUBSET Threads
      /\ c \in Threads /\ c \notin Producers /\ IsFiniteSet(Consumers)
  BY RingAssumption DEF Threads
<1>3. /\ f[c] = a /\ g[c] = b
      /\ \A u \in Consumers \ {c} : g[u] = f[u]
      /\ \A u \in Producers : g[u] = f[u]
  <2>1. f \in [Threads -> Labels] /\ f[c] = a /\ g = [f EXCEPT ![c] = b]
    BY DEF Goto
  <2>2. \A u \in Threads : g[u] = IF u = c THEN b ELSE f[u]
    BY ONLY <1>2, <2>1
  <2> QED
    BY ONLY <1>2, <2>1, <2>2
<1>4. ASSUME NEW L
      PROVE  /\ Cardinality(At(g, Consumers, L))
                  = Cardinality(At(f, Consumers, L)) + One(b, L) - One(a, L)
             /\ At(g, Producers, L) = At(f, Producers, L)
  <2>1. IsFiniteSet(Consumers) /\ c \in Consumers /\ OnlyMoves(c, Consumers, f, g)
    BY <1>2, <1>3 DEF OnlyMoves
  <2>2. Cardinality(At(g, Consumers, L))
          = Cardinality(At(f, Consumers, L)) + One(g[c], L) - One(f[c], L)
    BY ONLY <2>1, AtMoves
  <2>3. \A u \in Producers : g[u] = f[u]
    BY <1>3
  <2>4. At(g, Producers, L) = At(f, Producers, L)
    BY ONLY <2>3 DEF At
  <2> QED
    BY <1>3, <2>2, <2>4
<1> QED
  BY <1>1, <1>4

\* (x + 1) % RING_SIZE is the next slot, slot 0 after the last one.
LEMMA NextSlot ==
  ASSUME NEW x \in Slots
  PROVE  (x + 1) % RING_SIZE = IF x + 1 = RING_SIZE THEN 0 ELSE x + 1
<1>1. RING_SIZE \in Nat /\ RING_SIZE > 0 /\ x \in Nat /\ x < RING_SIZE
  BY RingAssumption DEF Slots
<1>2. CASE x + 1 = RING_SIZE
  BY <1>1, <1>2
<1>3. CASE x + 1 < RING_SIZE
  BY <1>1, <1>3
<1> QED
  BY <1>1, <1>2, <1>3

\* A thread of S in L makes the number of those threads positive.
LEMMA AtPositive ==
  ASSUME NEW S, IsFiniteSet(S), NEW f, NEW L, NEW t \in S, f[t] \in L
  PROVE  Cardinality(At(f, S, L)) > 0
<1>1. t \in At(f, S, L)
  BY DEF At
<1>2. IsFiniteSet(At(f, S, L)) /\ Cardinality(At(f, S, L)) \in Nat
  BY AtFinite
<1>3. Cardinality(At(f, S, L)) # 0
  BY <1>1, <1>2, FS_EmptySet
<1> QED
  BY <1>2, <1>3

\* A producer that has claimed a slot leaves Free positive, a consumer that has
\* claimed one leaves Count positive.
LEMMA Claimed ==
  ASSUME Typed
  PROVE  /\ Count \in Nat /\ Free \in Nat
         /\ \A p \in Producers : pc[p] \in Claim => Free > 0
         /\ \A c \in Consumers : pc[c] \in Claim => Count > 0
<1>1. /\ Filling = At(pc, Producers, Claim) /\ Emptying = At(pc, Consumers, Claim)
      /\ sem_not_full \in Nat /\ sem_not_empty \in Nat
  BY DEF Filling, Emptying, At, Claim, Typed
<1>2. \A p \in Producers : pc[p] \in Claim => Cardinality(Filling) > 0
  BY <1>1, AtPositive, RingAssumption
<1>3. \A c \in Consumers : pc[c] \in Claim => Cardinality(Emptying) > 0
  BY <1>1, AtPositive, RingAssumption
<1> QED
  BY <1>1, <1>2, <1>3, CountsNat DEF Count, Free

-----------------------------------------------------------------------------
(* The arithmetic of the accounting *)

\* k slots from t up to h, round the end of the buffer, and f others.
Accounts(h, t, k, f) == /\ k + f = RING_SIZE
                        /\ h = IF t + k < RING_SIZE THEN t + k
                                                    ELSE t + k - RING_SIZE

\* Advancing p_head turns a free slot into an occupied one.
LEMMA FillSlot ==
  ASSUME NEW h \in Slots, NEW t \in Slots, NEW k \in Nat, NEW f \in Nat, f > 0,
         Accounts(h, t, k, f)
  PROVE  Accounts((h + 1) % RING_SIZE, t, k + 1, f - 1)
<1>1. (h + 1) % RING_SIZE = IF h + 1 = RING_SIZE THEN 0 ELSE h + 1
  BY NextSlot
<1> QED
  BY <1>1, RingAssumption DEF Accounts, Slots

\* Advancing c_tail turns an occupied slot into a free one.
LEMMA EmptySlot ==
  ASSUME NEW h \in Slots, NEW t \in Slots, NEW k \in Nat, NEW f \in Nat, k > 0,
         Accounts(h, t, k, f)
  PROVE  Accounts(h, (t + 1) % RING_SIZE, k - 1, f + 1)
<1>1. (t + 1) % RING_SIZE = IF t + 1 = RING_SIZE THEN 0 ELSE t + 1
  BY NextSlot
<1> QED
  BY <1>1, RingAssumption DEF Accounts, Slots

\* In a ring neither empty nor full the two indices differ.
LEMMA HeadNotTail ==
  ASSUME NEW h \in Slots, NEW t \in Slots, NEW k \in Nat, NEW f \in Nat,
         k > 0, f > 0, Accounts(h, t, k, f)
  PROVE  h # t
BY RingAssumption DEF Accounts, Slots

-----------------------------------------------------------------------------
(* The inductive invariant *)

\* It holds when init_ring has run.
LEMMA InitInv == Init => IInv
<1> SUFFICES ASSUME Init PROVE IInv
  OBVIOUS
<1>1. Typed
  BY RingAssumption DEF Init, Typed, Slots, Threads, Labels
<1>2. Owners
  BY DEF Init, Owners, Critical, Threads
<1>3. Filling = {} /\ Filled = {} /\ Emptying = {} /\ Emptied = {}
  BY DEF Init, Filling, Filled, Emptying, Emptied, Threads
<1>4. SlotAccounting
  BY <1>3, FS_EmptySet, RingAssumption DEF Init, SlotAccounting, Count, Free
<1> QED
  BY <1>1, <1>2, <1>4 DEF IInv

\* Every statement of ring_submit and of ring_get preserves it.
LEMMA NextInv == IInv /\ [Next]_vars => IInv'
<1> SUFFICES ASSUME IInv, [Next]_vars PROVE IInv'
  OBVIOUS
<1> USE DEF IInv
<1>1. ASSUME NEW p \in Producers, NEW i \in Items, SubmitCall(p, i)
      PROVE  IInv'
  <2>1. Typed'
    BY <1>1, RingAssumption DEF Typed, SubmitCall, Goto, Threads, Labels
  <2>2. Owners'
    BY <1>1, RingAssumption DEF Typed, Owners, Critical, SubmitCall, Goto, Threads
  <2>3. /\ Cardinality(Filling') = Cardinality(Filling)
        /\ Cardinality(Filled') = Cardinality(Filled)
        /\ Emptying' = Emptying /\ Emptied' = Emptied
    <3>1. Goto(p, "idle", "wait") /\ "wait" \in Labels
      BY <1>1 DEF SubmitCall, Labels
    <3>2. /\ Cardinality(Filling') = Cardinality(Filling) + One("wait", Claim) - One("idle", Claim)
          /\ Cardinality(Filled') = Cardinality(Filled) + One("wait", Owe) - One("idle", Owe)
          /\ Emptying' = Emptying /\ Emptied' = Emptied
      BY <3>1, ProducerMoves DEF Typed
    <3> QED
      BY <3>2, CountsNat DEF One, Claim, Owe
  <2>4. Count' = Count /\ Free' = Free
    BY <1>1, <2>3, CountsNat DEF Typed, Count, Free, SubmitCall
  <2>5. SlotAccounting'
    BY <1>1, <2>4 DEF SlotAccounting, SubmitCall
  <2> QED
    BY <2>1, <2>2, <2>5
<1>2. ASSUME NEW p \in Producers, SubmitWait(p)
      PROVE  IInv'
  <2>1. Typed'
    BY <1>2, RingAssumption DEF Typed, SubmitWait, Goto, Threads, Labels
  <2>2. Owners'
    BY <1>2, RingAssumption DEF Typed, Owners, Critical, SubmitWait, Goto, Threads
  <2>3. /\ Cardinality(Filling') = Cardinality(Filling) + 1
        /\ Cardinality(Filled') = Cardinality(Filled)
        /\ Emptying' = Emptying /\ Emptied' = Emptied
    <3>1. Goto(p, "wait", "lock") /\ "lock" \in Labels
      BY <1>2 DEF SubmitWait, Labels
    <3>2. /\ Cardinality(Filling') = Cardinality(Filling) + One("lock", Claim) - One("wait", Claim)
          /\ Cardinality(Filled') = Cardinality(Filled) + One("lock", Owe) - One("wait", Owe)
          /\ Emptying' = Emptying /\ Emptied' = Emptied
      BY <3>1, ProducerMoves DEF Typed
    <3> QED
      BY <3>2, CountsNat DEF One, Claim, Owe
  <2>4. Count' = Count /\ Free' = Free
    BY <1>2, <2>3, CountsNat DEF Typed, Count, Free, SubmitWait
  <2>5. SlotAccounting'
    BY <1>2, <2>4 DEF SlotAccounting, SubmitWait
  <2> QED
    BY <2>1, <2>2, <2>5
<1>3. ASSUME NEW p \in Producers, SubmitLock(p)
      PROVE  IInv'
  <2>1. Typed'
    BY <1>3, RingAssumption DEF Typed, SubmitLock, Goto, Threads, Labels
  <2>2. Owners'
    BY <1>3, RingAssumption DEF Typed, Owners, Critical, SubmitLock, Goto, Threads
  <2>3. /\ Cardinality(Filling') = Cardinality(Filling)
        /\ Cardinality(Filled') = Cardinality(Filled)
        /\ Emptying' = Emptying /\ Emptied' = Emptied
    <3>1. Goto(p, "lock", "copy") /\ "copy" \in Labels
      BY <1>3 DEF SubmitLock, Labels
    <3>2. /\ Cardinality(Filling') = Cardinality(Filling) + One("copy", Claim) - One("lock", Claim)
          /\ Cardinality(Filled') = Cardinality(Filled) + One("copy", Owe) - One("lock", Owe)
          /\ Emptying' = Emptying /\ Emptied' = Emptied
      BY <3>1, ProducerMoves DEF Typed
    <3> QED
      BY <3>2, CountsNat DEF One, Claim, Owe
  <2>4. Count' = Count /\ Free' = Free
    BY <1>3, <2>3, CountsNat DEF Typed, Count, Free, SubmitLock
  <2>5. SlotAccounting'
    BY <1>3, <2>4 DEF SlotAccounting, SubmitLock
  <2> QED
    BY <2>1, <2>2, <2>5
<1>4. ASSUME NEW p \in Producers, SubmitCopy(p)
      PROVE  IInv'
  <2>1. Typed'
    BY <1>4, RingAssumption DEF Typed, SubmitCopy, Goto, Threads, Labels, Slots
  <2>2. Owners'
    BY <1>4, RingAssumption DEF Typed, Owners, Critical, SubmitCopy, Goto, Threads
  <2>3. /\ Cardinality(Filling') = Cardinality(Filling)
        /\ Cardinality(Filled') = Cardinality(Filled)
        /\ Emptying' = Emptying /\ Emptied' = Emptied
    <3>1. Goto(p, "copy", "advance") /\ "advance" \in Labels
      BY <1>4 DEF SubmitCopy, Labels
    <3>2. /\ Cardinality(Filling') = Cardinality(Filling) + One("advance", Claim) - One("copy", Claim)
          /\ Cardinality(Filled') = Cardinality(Filled) + One("advance", Owe) - One("copy", Owe)
          /\ Emptying' = Emptying /\ Emptied' = Emptied
      BY <3>1, ProducerMoves DEF Typed
    <3> QED
      BY <3>2, CountsNat DEF One, Claim, Owe
  <2>4. Count' = Count /\ Free' = Free
    BY <1>4, <2>3, CountsNat DEF Typed, Count, Free, SubmitCopy
  <2>5. SlotAccounting'
    BY <1>4, <2>4 DEF SlotAccounting, SubmitCopy
  <2> QED
    BY <2>1, <2>2, <2>5
<1>5. ASSUME NEW p \in Producers, SubmitAdvance(p)
      PROVE  IInv'
  <2>1. Typed'
    BY <1>5, NextSlot, RingAssumption DEF Typed, SubmitAdvance, Goto, Threads, Labels, Slots
  <2>2. Owners'
    BY <1>5, RingAssumption DEF Typed, Owners, Critical, SubmitAdvance, Goto, Threads
  <2>3. /\ Cardinality(Filling') = Cardinality(Filling) - 1
        /\ Cardinality(Filled') = Cardinality(Filled) + 1
        /\ Emptying' = Emptying /\ Emptied' = Emptied
    <3>1. Goto(p, "advance", "unlock") /\ "unlock" \in Labels
      BY <1>5 DEF SubmitAdvance, Labels
    <3>2. /\ Cardinality(Filling') = Cardinality(Filling) + One("unlock", Claim) - One("advance", Claim)
          /\ Cardinality(Filled') = Cardinality(Filled) + One("unlock", Owe) - One("advance", Owe)
          /\ Emptying' = Emptying /\ Emptied' = Emptied
      BY <3>1, ProducerMoves DEF Typed
    <3> QED
      BY <3>2, CountsNat DEF One, Claim, Owe
  <2>4. Count' = Count + 1 /\ Free' = Free - 1
    BY <1>5, <2>3, CountsNat DEF Typed, Count, Free, SubmitAdvance
  <2>5. Count \in Nat /\ Free \in Nat /\ Free > 0
    BY <1>5, Claimed DEF SubmitAdvance, Goto, Claim
  <2>6. Accounts(p_head, c_tail, Count, Free)
    BY DEF SlotAccounting, Accounts
  <2>7. Accounts((p_head + 1) % RING_SIZE, c_tail, Count + 1, Free - 1)
    BY <2>5, <2>6, FillSlot DEF Typed
  <2>8. SlotAccounting'
    BY <1>5, <2>4, <2>7 DEF SlotAccounting, Accounts, SubmitAdvance
  <2> QED
    BY <2>1, <2>2, <2>8
<1>6. ASSUME NEW p \in Producers, SubmitUnlock(p)
      PROVE  IInv'
  <2>1. Typed'
    BY <1>6, RingAssumption DEF Typed, SubmitUnlock, Goto, Threads, Labels
  <2>2. Owners'
    BY <1>6, RingAssumption DEF Typed, Owners, Critical, SubmitUnlock, Goto, Threads
  <2>3. /\ Cardinality(Filling') = Cardinality(Filling)
        /\ Cardinality(Filled') = Cardinality(Filled)
        /\ Emptying' = Emptying /\ Emptied' = Emptied
    <3>1. Goto(p, "unlock", "post") /\ "post" \in Labels
      BY <1>6 DEF SubmitUnlock, Labels
    <3>2. /\ Cardinality(Filling') = Cardinality(Filling) + One("post", Claim) - One("unlock", Claim)
          /\ Cardinality(Filled') = Cardinality(Filled) + One("post", Owe) - One("unlock", Owe)
          /\ Emptying' = Emptying /\ Emptied' = Emptied
      BY <3>1, ProducerMoves DEF Typed
    <3> QED
      BY <3>2, CountsNat DEF One, Claim, Owe
  <2>4. Count' = Count /\ Free' = Free
    BY <1>6, <2>3, CountsNat DEF Typed, Count, Free, SubmitUnlock
  <2>5. SlotAccounting'
    BY <1>6, <2>4 DEF SlotAccounting, SubmitUnlock
  <2> QED
    BY <2>1, <2>2, <2>5
<1>7. ASSUME NEW p \in Producers, SubmitPost(p)
      PROVE  IInv'
  <2>1. Typed'
    BY <1>7, RingAssumption DEF Typed, SubmitPost, Goto, Threads, Labels
  <2>2. Owners'
    BY <1>7, RingAssumption DEF Typed, Owners, Critical, SubmitPost, Goto, Threads
  <2>3. /\ Cardinality(Filling') = Cardinality(Filling)
        /\ Cardinality(Filled') = Cardinality(Filled) - 1
        /\ Emptying' = Emptying /\ Emptied' = Emptied
    <3>1. Goto(p, "post", "idle") /\ "idle" \in Labels
      BY <1>7 DEF SubmitPost, Labels
    <3>2. /\ Cardinality(Filling') = Cardinality(Filling) + One("idle", Claim) - One("post", Claim)
          /\ Cardinality(Filled') = Cardinality(Filled) + One("idle", Owe) - One("post", Owe)
          /\ Emptying' = Emptying /\ Emptied' = Emptied
      BY <3>1, ProducerMoves DEF Typed
    <3> QED
      BY <3>2, CountsNat DEF One, Claim, Owe
  <2>4. Count' = Count /\ Free' = Free
    BY <1>7, <2>3, CountsNat DEF Typed, Count, Free, SubmitPost
  <2>5. SlotAccounting'
    BY <1>7, <2>4 DEF SlotAccounting, SubmitPost
  <2> QED
    BY <2>1, <2>2, <2>5
<1>8. ASSUME NEW c \in Consumers, GetCall(c)
      PROVE  IInv'
  <2>1. Typed'
    BY <1>8, RingAssumption DEF Typed, GetCall, Goto, Threads, Labels
  <2>2. Owners'
    BY <1>8, RingAssumption DEF Typed, Owners, Critical, GetCall, Goto, Threads
  <2>3. /\ Cardinality(Emptying') = Cardinality(Emptying)
        /\ Cardinality(Emptied') = Cardinality(Emptied)
        /\ Filling' = Filling /\ Filled' = Filled
    <3>1. Goto(c, "idle", "wait") /\ "wait" \in Labels
      BY <1>8 DEF GetCall, Labels
    <3>2. /\ Cardinality(Emptying') = Cardinality(Emptying) + One("wait", Claim) - One("idle", Claim)
          /\ Cardinality(Emptied') = Cardinality(Emptied) + One("wait", Owe) - One("idle", Owe)
          /\ Filling' = Filling /\ Filled' = Filled
      BY <3>1, ConsumerMoves DEF Typed
    <3> QED
      BY <3>2, CountsNat DEF One, Claim, Owe
  <2>4. Count' = Count /\ Free' = Free
    BY <1>8, <2>3, CountsNat DEF Typed, Count, Free, GetCall
  <2>5. SlotAccounting'
    BY <1>8, <2>4 DEF SlotAccounting, GetCall
  <2> QED
    BY <2>1, <2>2, <2>5
<1>9. ASSUME NEW c \in Consumers, GetWait(c)
      PROVE  IInv'
  <2>1. Typed'
    BY <1>9, RingAssumption DEF Typed, GetWait, Goto, Threads, Labels
  <2>2. Owners'
    BY <1>9, RingAssumption DEF Typed, Owners, Critical, GetWait, Goto, Threads
  <2>3. /\ Cardinality(Emptying') = Cardinality(Emptying) + 1
        /\ Cardinality(Emptied') = Cardinality(Emptied)
        /\ Filling' = Filling /\ Filled' = Filled
    <3>1. Goto(c, "wait", "lock") /\ "lock" \in Labels
      BY <1>9 DEF GetWait, Labels
    <3>2. /\ Cardinality(Emptying') = Cardinality(Emptying) + One("lock", Claim) - One("wait", Claim)
          /\ Cardinality(Emptied') = Cardinality(Emptied) + One("lock", Owe) - One("wait", Owe)
          /\ Filling' = Filling /\ Filled' = Filled
      BY <3>1, ConsumerMoves DEF Typed
    <3> QED
      BY <3>2, CountsNat DEF One, Claim, Owe
  <2>4. Count' = Count /\ Free' = Free
    BY <1>9, <2>3, CountsNat DEF Typed, Count, Free, GetWait
  <2>5. SlotAccounting'
    BY <1>9, <2>4 DEF SlotAccounting, GetWait
  <2> QED
    BY <2>1, <2>2, <2>5
<1>10. ASSUME NEW c \in Consumers, GetLock(c)
      PROVE  IInv'
  <2>1. Typed'
    BY <1>10, RingAssumption DEF Typed, GetLock, Goto, Threads, Labels
  <2>2. Owners'
    BY <1>10, RingAssumption DEF Typed, Owners, Critical, GetLock, Goto, Threads
  <2>3. /\ Cardinality(Emptying') = Cardinality(Emptying)
        /\ Cardinality(Emptied') = Cardinality(Emptied)
        /\ Filling' = Filling /\ Filled' = Filled
    <3>1. Goto(c, "lock", "copy") /\ "copy" \in Labels
      BY <1>10 DEF GetLock, Labels
    <3>2. /\ Cardinality(Emptying') = Cardinality(Emptying) + One("copy", Claim) - One("lock", Claim)
          /\ Cardinality(Emptied') = Cardinality(Emptied) + One("copy", Owe) - One("lock", Owe)
          /\ Filling' = Filling /\ Filled' = Filled
      BY <3>1, ConsumerMoves DEF Typed
    <3> QED
      BY <3>2, CountsNat DEF One, Claim, Owe
  <2>4. Count' = Count /\ Free' = Free
    BY <1>10, <2>3, CountsNat DEF Typed, Count, Free, GetLock
  <2>5. SlotAccounting'
    BY <1>10, <2>4 DEF SlotAccounting, GetLock
  <2> QED
    BY <2>1, <2>2, <2>5
<1>11. ASSUME NEW c \in Consumers, GetCopy(c)
      PROVE  IInv'
  <2>1. Typed'
    BY <1>11, RingAssumption DEF Typed, GetCopy, Goto, Threads, Labels, Slots
  <2>2. Owners'
    BY <1>11, RingAssumption DEF Typed, Owners, Critical, GetCopy, Goto, Threads
  <2>3. /\ Cardinality(Emptying') = Cardinality(Emptying)
        /\ Cardinality(Emptied') = Cardinality(Emptied)
        /\ Filling' = Filling /\ Filled' = Filled
    <3>1. Goto(c, "copy", "advance") /\ "advance" \in Labels
      BY <1>11 DEF GetCopy, Labels
    <3>2. /\ Cardinality(Emptying') = Cardinality(Emptying) + One("advance", Claim) - One("copy", Claim)
          /\ Cardinality(Emptied') = Cardinality(Emptied) + One("advance", Owe) - One("copy", Owe)
          /\ Filling' = Filling /\ Filled' = Filled
      BY <3>1, ConsumerMoves DEF Typed
    <3> QED
      BY <3>2, CountsNat DEF One, Claim, Owe
  <2>4. Count' = Count /\ Free' = Free
    BY <1>11, <2>3, CountsNat DEF Typed, Count, Free, GetCopy
  <2>5. SlotAccounting'
    BY <1>11, <2>4 DEF SlotAccounting, GetCopy
  <2> QED
    BY <2>1, <2>2, <2>5
<1>12. ASSUME NEW c \in Consumers, GetAdvance(c)
      PROVE  IInv'
  <2>1. Typed'
    BY <1>12, NextSlot, RingAssumption DEF Typed, GetAdvance, Goto, Threads, Labels, Slots
  <2>2. Owners'
    BY <1>12, RingAssumption DEF Typed, Owners, Critical, GetAdvance, Goto, Threads
  <2>3. /\ Cardinality(Emptying') = Cardinality(Emptying) - 1
        /\ Cardinality(Emptied') = Cardinality(Emptied) + 1
        /\ Filling' = Filling /\ Filled' = Filled
    <3>1. Goto(c, "advance", "unlock") /\ "unlock" \in Labels
      BY <1>12 DEF GetAdvance, Labels
    <3>2. /\ Cardinality(Emptying') = Cardinality(Emptying) + One("unlock", Claim) - One("advance", Claim)
          /\ Cardinality(Emptied') = Cardinality(Emptied) + One("unlock", Owe) - One("advance", Owe)
          /\ Filling' = Filling /\ Filled' = Filled
      BY <3>1, ConsumerMoves DEF Typed
    <3> QED
      BY <3>2, CountsNat DEF One, Claim, Owe
  <2>4. Count' = Count - 1 /\ Free' = Free + 1
    BY <1>12, <2>3, CountsNat DEF Typed, Count, Free, GetAdvance
  <2>5. Count \in Nat /\ Free \in Nat /\ Count > 0
    BY <1>12, Claimed DEF GetAdvance, Goto, Claim
  <2>6. Accounts(p_head, c_tail, Count, Free)
    BY DEF SlotAccounting, Accounts
  <2>7. Accounts(p_head, (c_tail + 1) % RING_SIZE, Count - 1, Free + 1)
    BY <2>5, <2>6, EmptySlot DEF Typed
  <2>8. SlotAccounting'
    BY <1>12, <2>4, <2>7 DEF SlotAccounting, Accounts, GetAdvance
  <2> QED
    BY <2>1, <2>2, <2>8
<1>13. ASSUME NEW c \in Consumers, GetUnlock(c)
      PROVE  IInv'
  <2>1. Typed'
    BY <1>13, RingAssumption DEF Typed, GetUnlock, Goto, Threads, Labels
  <2>2. Owners'
    BY <1>13, RingAssumption DEF Typed, Owners, Critical, GetUnlock, Goto, Threads
  <2>3. /\ Cardinality(Emptying') = Cardinality(Emptying)
        /\ Cardinality(Emptied') = Cardinality(Emptied)
        /\ Filling' = Filling /\ Filled' = Filled
    <3>1. Goto(c, "unlock", "post") /\ "post" \in Labels
      BY <1>13 DEF GetUnlock, Labels
    <3>2. /\ Cardinality(Emptying') = Cardinality(Emptying) + One("post", Claim) - One("unlock", Claim)
          /\ Cardinality(Emptied') = Cardinality(Emptied) + One("post", Owe) - One("unlock", Owe)
          /\ Filling' = Filling /\ Filled' = Filled
      BY <3>1, ConsumerMoves DEF Typed
    <3> QED
      BY <3>2, CountsNat DEF One, Claim, Owe
  <2>4. Count' = Count /\ Free' = Free
    BY <1>13, <2>3, CountsNat DEF Typed, Count, Free, GetUnlock
  <2>5. SlotAccounting'
    BY <1>13, <2>4 DEF SlotAccounting, GetUnlock
  <2> QED
    BY <2>1, <2>2, <2>5
<1>14. ASSUME NEW c \in Consumers, GetPost(c)
      PROVE  IInv'
  <2>1. Typed'
    BY <1>14, RingAssumption DEF Typed, GetPost, Goto, Threads, Labels
  <2>2. Owners'
    BY <1>14, RingAssumption DEF Typed, Owners, Critical, GetPost, Goto, Threads
  <2>3. /\ Cardinality(Emptying') = Cardinality(Emptying)
        /\ Cardinality(Emptied') = Cardinality(Emptied) - 1
        /\ Filling' = Filling /\ Filled' = Filled
    <3>1. Goto(c, "post", "idle") /\ "idle" \in Labels
      BY <1>14 DEF GetPost, Labels
    <3>2. /\ Cardinality(Emptying') = Cardinality(Emptying) + One("idle", Claim) - One("post", Claim)
          /\ Cardinality(Emptied') = Cardinality(Emptied) + One("idle", Owe) - One("post", Owe)
          /\ Filling' = Filling /\ Filled' = Filled
      BY <3>1, ConsumerMoves DEF Typed
    <3> QED
      BY <3>2, CountsNat DEF One, Claim, Owe
  <2>4. Count' = Count /\ Free' = Free
    BY <1>14, <2>3, CountsNat DEF Typed, Count, Free, GetPost
  <2>5. SlotAccounting'
    BY <1>14, <2>4 DEF SlotAccounting, GetPost
  <2> QED
    BY <2>1, <2>2, <2>5
<1>15. CASE UNCHANGED vars
  <2>1. Typed' /\ Owners'
    BY <1>15 DEF Typed, Owners, vars
  <2>2. SlotAccounting'
    BY <1>15 DEF SlotAccounting, Count, Free, Filling, Filled, Emptying, Emptied, vars
  <2> QED
    BY <2>1, <2>2
<1> QED
  BY <1>1, <1>2, <1>3, <1>4, <1>5, <1>6, <1>7, <1>8, <1>9, <1>10, <1>11, <1>12, <1>13, <1>14, <1>15
     DEF Next, SubmitStep, GetStep

\* In the states of the invariant the semaphores are bounded by RING_SIZE too.
LEMMA InvTypeOK == IInv => TypeOK
BY CountsNat, RingAssumption DEF IInv, Typed, SlotAccounting, Count, Free, TypeOK

\* In the states of the invariant two threads that are copying are at different
\* slots: two of one side would both own its mutex, and a producer and a consumer
\* have claimed one slot each, so the ring is neither empty nor full.
LEMMA InvNoSlotConflict == IInv => NoSlotConflict
<1> SUFFICES ASSUME IInv, NEW t \in Threads, NEW u \in Threads,
                    t # u, pc[t] = "copy", pc[u] = "copy"
             PROVE  SlotOf(t) # SlotOf(u)
  BY DEF NoSlotConflict
<1>1. ASSUME NEW p \in Producers, NEW c \in Consumers, pc[p] = "copy", pc[c] = "copy"
      PROVE  p_head # c_tail
  <2>1. Count \in Nat /\ Free \in Nat /\ Count > 0 /\ Free > 0
    BY <1>1, Claimed DEF IInv, Claim
  <2>2. Accounts(p_head, c_tail, Count, Free)
    BY DEF IInv, SlotAccounting, Accounts
  <2> QED
    BY <2>1, <2>2, HeadNotTail DEF IInv, Typed
<1>2. ~(t \in Producers /\ u \in Producers) /\ ~(t \in Consumers /\ u \in Consumers)
  BY DEF IInv, Owners, Critical
<1>3. Producers \cap Consumers = {}
  BY RingAssumption
<1> QED
  BY <1>1, <1>2, <1>3 DEF Threads, SlotOf

-----------------------------------------------------------------------------
(* The theorems *)

\* The invariant holds in every reachable state.
LEMMA SpecInv == Spec => []IInv
BY InitInv, NextInv, PTL DEF Spec

\* Both indices of struct ring stay inside the buffer and both semaphores stay
\* within 0 .. RING_SIZE.
THEOREM TypeCorrect == Spec => []TypeOK
BY SpecInv, InvTypeOK, PTL

\* The semaphores and the threads between a sem_wait and the matching sem_post
\* account for every slot, and p_head is as far ahead of c_tail as they say.
THEOREM SlotsAccounted == Spec => []SlotAccounting
<1>1. IInv => SlotAccounting
  BY DEF IInv
<1> QED
  BY <1>1, SpecInv, PTL

\* No two threads ever copy into or out of the same slot at the same time, though
\* ring_submit and ring_get use different mutexes.
THEOREM NoConflict == Spec => []NoSlotConflict
BY SpecInv, InvNoSlotConflict, PTL

-----------------------------------------------------------------------------
(* The ring implements the bounded queue *)

\* The slot that is k slots after t.
Slot(t, k) == IF t + k < RING_SIZE THEN t + k ELSE t + k - RING_SIZE

\* What a thread between its copy and the advance of its index relies on: the slot
\* still holds what was copied.
Carried == /\ \A p \in Producers : pc[p] = "advance" => buffer[p_head] = bd[p]
           /\ \A c \in Consumers : pc[c] = "advance" => buffer[c_tail] = bd[c]

\* Less than two rounds away, a slot's number is its distance or that less RING_SIZE.
LEMMA SlotIs ==
  ASSUME NEW t \in Slots, NEW k \in 0 .. RING_SIZE - 1
  PROVE  (t + k) % RING_SIZE = Slot(t, k) /\ Slot(t, k) \in Slots
<1>1. RING_SIZE \in Nat /\ RING_SIZE > 0 /\ t \in Nat /\ t < RING_SIZE /\ k \in Nat /\ k < RING_SIZE
  BY RingAssumption DEF Slots
<1>2. CASE t + k < RING_SIZE
  BY <1>1, <1>2 DEF Slot, Slots
<1>3. CASE ~(t + k < RING_SIZE)
  <2> DEFINE r == t + k - RING_SIZE
  <2>1. r \in 0 .. RING_SIZE - 1 /\ t + k = 1 * RING_SIZE + r
    BY <1>1, <1>3
  <2>2. (t + k) % RING_SIZE = r
    BY <1>1, <2>1
  <2> QED
    BY <1>1, <1>3, <2>1, <2>2 DEF Slot, Slots
<1> QED
  BY <1>2, <1>3

\* No slot is written while it holds an item: the slot a producer copies to is not
\* one of the Count slots from c_tail on.
LEMMA FreshSlot ==
  ASSUME IInv, NEW p \in Producers, pc[p] = "copy"
  PROVE  \A k \in 0 .. Count - 1 : Slot(c_tail, k) # p_head
<1>1. Count \in Nat /\ Free \in Nat /\ Free > 0
  BY Claimed DEF IInv, Claim
<1>2. Accounts(p_head, c_tail, Count, Free) /\ p_head \in Slots /\ c_tail \in Slots
  BY DEF IInv, SlotAccounting, Accounts, Typed
<1> QED
  BY <1>1, <1>2, RingAssumption DEF Accounts, Slot, Slots

\* A copy is not disturbed before its index has been advanced.
LEMMA NextCarried == IInv /\ Carried /\ [Next]_vars => Carried'
<1> SUFFICES ASSUME IInv, Carried, [Next]_vars PROVE Carried'
  OBVIOUS
<1>1. Producers \cap Consumers = {} /\ Producers \subseteq Threads /\ Consumers \subseteq Threads
  BY RingAssumption DEF Threads
<1> USE <1>1 DEF IInv
<1>2. ASSUME NEW p \in Producers, NEW i \in Items, SubmitCall(p, i)
      PROVE  Carried'
  BY <1>2 DEF Typed, Carried, SubmitCall, Goto
<1>3. ASSUME NEW p \in Producers, SubmitWait(p)
      PROVE  Carried'
  BY <1>3 DEF Typed, Carried, SubmitWait, Goto
<1>4. ASSUME NEW p \in Producers, SubmitLock(p)
      PROVE  Carried'
  BY <1>4 DEF Typed, Carried, SubmitLock, Goto
<1>5. ASSUME NEW p \in Producers, SubmitCopy(p)
      PROVE  Carried'
  <2>1. /\ pc[p] = "copy" /\ buffer'[p_head] = bd[p] /\ p_head' = p_head /\ c_tail' = c_tail
        /\ bd' = bd /\ \A s \in Slots \ {p_head} : buffer'[s] = buffer[s]
        /\ \A u \in Threads \ {p} : pc'[u] = pc[u]
        /\ p_head \in Slots /\ c_tail \in Slots
    BY <1>5 DEF Typed, SubmitCopy, Goto
  <2>2. \A q \in Producers : pc'[q] = "advance" => q = p
    BY <2>1 DEF Owners, Critical
  <2>3. ASSUME NEW c \in Consumers, pc[c] = "advance"
        PROVE  p_head # c_tail
    <3>1. Count \in Nat /\ Count > 0
      BY <2>3, Claimed DEF Claim
    <3>2. Slot(c_tail, 0) # p_head
      BY <2>1, <3>1, FreshSlot
    <3> QED
      BY <2>1, <3>2, RingAssumption DEF Slot, Slots
  <2>4. \A c \in Consumers : pc'[c] = "advance" => buffer'[c_tail'] = bd'[c]
    BY <2>1, <2>3 DEF Carried
  <2> QED
    BY <2>1, <2>2, <2>4 DEF Carried
<1>6. ASSUME NEW p \in Producers, SubmitAdvance(p)
      PROVE  Carried'
  BY <1>6 DEF Typed, Owners, Critical, Carried, SubmitAdvance, Goto
<1>7. ASSUME NEW p \in Producers, SubmitUnlock(p)
      PROVE  Carried'
  BY <1>7 DEF Typed, Carried, SubmitUnlock, Goto
<1>8. ASSUME NEW p \in Producers, SubmitPost(p)
      PROVE  Carried'
  BY <1>8 DEF Typed, Carried, SubmitPost, Goto
<1>9. ASSUME NEW c \in Consumers, GetCall(c)
      PROVE  Carried'
  BY <1>9 DEF Typed, Carried, GetCall, Goto
<1>10. ASSUME NEW c \in Consumers, GetWait(c)
      PROVE  Carried'
  BY <1>10 DEF Typed, Carried, GetWait, Goto
<1>11. ASSUME NEW c \in Consumers, GetLock(c)
      PROVE  Carried'
  BY <1>11 DEF Typed, Carried, GetLock, Goto
<1>12. ASSUME NEW c \in Consumers, GetCopy(c)
      PROVE  Carried'
  BY <1>12 DEF Typed, Carried, GetCopy, Goto
<1>13. ASSUME NEW c \in Consumers, GetAdvance(c)
      PROVE  Carried'
  BY <1>13 DEF Typed, Owners, Critical, Carried, GetAdvance, Goto
<1>14. ASSUME NEW c \in Consumers, GetUnlock(c)
      PROVE  Carried'
  BY <1>14 DEF Typed, Carried, GetUnlock, Goto
<1>15. ASSUME NEW c \in Consumers, GetPost(c)
      PROVE  Carried'
  BY <1>15 DEF Typed, Carried, GetPost, Goto
<1>16. CASE UNCHANGED vars
  BY <1>16 DEF Carried, vars
<1> QED
  BY <1>2, <1>3, <1>4, <1>5, <1>6, <1>7, <1>8, <1>9, <1>10, <1>11, <1>12, <1>13, <1>14, <1>15, <1>16
     DEF Next, SubmitStep, GetStep

\* A copied descriptor stays in its slot in every reachable state.
LEMMA SpecCarried == Spec => [](IInv /\ Carried)
<1>1. Init => Carried
  BY DEF Init, Carried, Threads
<1> QED
  BY <1>1, InitInv, NextInv, NextCarried, PTL DEF Spec

\* How a producer's step changes the number of occupied slots.
LEMMA ProducerCount ==
  ASSUME IInv, NEW p \in Producers, NEW a, NEW b \in Labels, Goto(p, a, b),
         NEW x \in Int, sem_not_empty' = sem_not_empty + x
  PROVE  Count' = Count + x + One(b, Owe) - One(a, Owe)
<1>1. /\ Cardinality(Filled') = Cardinality(Filled) + One(b, Owe) - One(a, Owe)
      /\ Emptying' = Emptying
  BY ProducerMoves DEF IInv, Typed
<1>2. One(b, Owe) \in Int /\ One(a, Owe) \in Int
  BY DEF One
<1> QED
  BY <1>1, <1>2, CountsNat DEF Count, IInv, Typed

\* How a consumer's step changes it.
LEMMA ConsumerCount ==
  ASSUME IInv, NEW c \in Consumers, NEW a, NEW b \in Labels, Goto(c, a, b),
         NEW x \in Int, sem_not_empty' = sem_not_empty + x
  PROVE  Count' = Count + x + One(b, Claim) - One(a, Claim)
<1>1. /\ Cardinality(Emptying') = Cardinality(Emptying) + One(b, Claim) - One(a, Claim)
      /\ Filled' = Filled
  BY ConsumerMoves DEF IInv, Typed
<1>2. One(b, Claim) \in Int /\ One(a, Claim) \in Int
  BY DEF One
<1> QED
  BY <1>1, <1>2, CountsNat DEF Count, IInv, Typed

\* The mapped queue as a function of the slots it occupies.
Listed(f, t, n) == [i \in 1 .. n |-> f[Slot(t, i - 1)]]

\* The items read off the buffer are the contents of the n slots from t on.
LEMMA ListedIs ==
  ASSUME NEW f, NEW t \in Slots, NEW n \in 0 .. RING_SIZE
  PROVE  [i \in 1 .. n |-> f[(t + i - 1) % RING_SIZE]] = Listed(f, t, n)
<1>1. ASSUME NEW i \in 1 .. n
      PROVE  (t + i - 1) % RING_SIZE = Slot(t, i - 1)
  <2>1. i - 1 \in 0 .. RING_SIZE - 1 /\ t + (i - 1) = t + i - 1
    BY RingAssumption DEF Slots
  <2> QED
    BY <2>1, SlotIs
<1> QED
  BY <1>1 DEF Listed

\* The queue in a state of the invariant, and its bounds.
LEMMA QueueIs ==
  ASSUME IInv
  PROVE  Count \in 0 .. RING_SIZE /\ c_tail \in Slots /\ Queue = Listed(buffer, c_tail, Count)
<1>1. Count \in 0 .. RING_SIZE /\ c_tail \in Slots
  BY Claimed, RingAssumption DEF IInv, SlotAccounting, Typed
<1> QED
  BY <1>1, ListedIs DEF Queue

\* The same in the next state.
LEMMA QueueNext ==
  ASSUME IInv, IInv', NEW n \in Nat, Count' = n
  PROVE  n <= RING_SIZE /\ c_tail' \in Slots /\ Queue' = Listed(buffer', c_tail', n)
<1>1. n \in 0 .. RING_SIZE /\ c_tail' \in Slots
  <2>1. Count' + Free' = RING_SIZE /\ c_tail' \in Slots
    BY DEF IInv, SlotAccounting, Typed
  <2>2. Free' \in Nat
    <3>1. /\ Filling' = At(pc', Producers, Claim) /\ Emptied' = At(pc', Consumers, Owe)
          /\ sem_not_full' \in Nat
      BY DEF Filling, Emptied, At, Claim, Owe, IInv, Typed
    <3>2. Cardinality(Filling') \in Nat /\ Cardinality(Emptied') \in Nat
      BY <3>1, AtFinite, RingAssumption
    <3> QED
      BY <3>1, <3>2 DEF Free
  <2>3. n + Free' = RING_SIZE
    BY <2>1
  <2>4. ASSUME NEW f \in Nat, n + f = RING_SIZE PROVE n \in 0 .. RING_SIZE
    BY <2>4, RingAssumption
  <2>5. n \in 0 .. RING_SIZE
    BY <2>2, <2>3, <2>4
  <2> QED
    BY <2>1, <2>5
<1>2. Queue' = [i \in 1 .. n |-> buffer'[(c_tail' + i - 1) % RING_SIZE]]
  BY DEF Queue
<1>3. n <= RING_SIZE
  BY <1>1, RingAssumption
<1>4. Queue' = Listed(buffer', c_tail', n)
  BY <1>1, <1>2, ListedIs
<1> QED
  BY <1>1, <1>3, <1>4

\* The listed items form a sequence.
LEMMA ListedSeq ==
  ASSUME NEW S, NEW f \in [Slots -> S], NEW t \in Slots, NEW n \in 0 .. RING_SIZE
  PROVE  /\ Listed(f, t, n) \in Seq(S) /\ Len(Listed(f, t, n)) = n
         /\ \A i \in 1 .. n : Listed(f, t, n)[i] = f[Slot(t, i - 1)]
<1>1. n \in Nat
  BY RingAssumption
<1>2. \A i \in 1 .. n : Slot(t, i - 1) \in Slots
  BY RingAssumption DEF Slot, Slots
<1>3. Listed(f, t, n) \in [1 .. n -> S]
  BY <1>2 DEF Listed
<1> QED
  BY <1>1, <1>3 DEF Listed

\* One slot more at the end is an item appended.
LEMMA ListedAppend ==
  ASSUME NEW S, NEW f \in [Slots -> S], NEW t \in Slots, NEW n \in 0 .. RING_SIZE - 1
  PROVE  Listed(f, t, n + 1) = Append(Listed(f, t, n), f[Slot(t, n)])
<1>1. n \in 0 .. RING_SIZE /\ n + 1 \in 0 .. RING_SIZE /\ Slot(t, n) \in Slots /\ n \in Nat
  BY RingAssumption DEF Slot, Slots
<1> DEFINE s == Listed(f, t, n)
           r == Listed(f, t, n + 1)
<1>2. s \in Seq(S) /\ Len(s) = n /\ \A i \in 1 .. n : s[i] = f[Slot(t, i - 1)]
  BY ZenonT(60), <1>1, ListedSeq
<1>3. r \in Seq(S) /\ Len(r) = n + 1 /\ \A i \in 1 .. n + 1 : r[i] = f[Slot(t, i - 1)]
  BY <1>1, ListedSeq
<1>4. f[Slot(t, n)] \in S /\ (n + 1) - 1 = n
  BY <1>1
<1> HIDE DEF s, r
<1>5. \A i \in 1 .. n + 1 : r[i] = Append(s, f[Slot(t, n)])[i]
  BY <1>1, <1>2, <1>3, <1>4
<1>6. Append(s, f[Slot(t, n)]) \in Seq(S) /\ Len(Append(s, f[Slot(t, n)])) = n + 1
  BY <1>1, <1>2, <1>4
<1>7. r = Append(s, f[Slot(t, n)])
  BY <1>3, <1>5, <1>6, SeqEqual
<1> QED
  BY <1>7 DEF s, r

\* One slot less at the start is an item taken.
LEMMA ListedTail ==
  ASSUME NEW S, NEW f \in [Slots -> S], NEW t \in Slots, NEW n \in 1 .. RING_SIZE
  PROVE  /\ Listed(f, t, n) # << >> /\ Head(Listed(f, t, n)) = f[t]
         /\ Listed(f, (t + 1) % RING_SIZE, n - 1) = Tail(Listed(f, t, n))
<1> DEFINE u == (t + 1) % RING_SIZE
           s == Listed(f, t, n)
           r == Listed(f, u, n - 1)
<1>1. /\ n \in 0 .. RING_SIZE /\ n - 1 \in 0 .. RING_SIZE /\ n \in Nat /\ n > 0
      /\ t \in Nat /\ t < RING_SIZE /\ RING_SIZE \in Nat
  BY RingAssumption DEF Slots
<1>2. u = (IF t + 1 = RING_SIZE THEN 0 ELSE t + 1) /\ u \in Slots
  BY <1>1, NextSlot DEF Slots
<1>3. \A i \in 1 .. n - 1 : Slot(u, i - 1) = Slot(t, (i + 1) - 1)
  BY <1>1, <1>2 DEF Slot
<1>4. Slot(t, 1 - 1) = t
  BY <1>1 DEF Slot
<1> HIDE DEF u
<1>5. s \in Seq(S) /\ Len(s) = n /\ \A i \in 1 .. n : s[i] = f[Slot(t, i - 1)]
  BY <1>1, ListedSeq
<1>6. r \in Seq(S) /\ Len(r) = n - 1 /\ \A i \in 1 .. n - 1 : r[i] = f[Slot(u, i - 1)]
  BY ZenonT(60), <1>1, <1>2, ListedSeq
<1> HIDE DEF s, r
<1>7. s # << >>
  BY <1>1, <1>5, EmptySeq
<1>8. Tail(s) \in Seq(S) /\ Len(Tail(s)) = n - 1 /\ \A i \in 1 .. n - 1 : Tail(s)[i] = s[i + 1]
  BY <1>5, <1>7, HeadTailProperties
<1>9. \A i \in 1 .. n - 1 : r[i] = Tail(s)[i]
  <2>1. ASSUME NEW i \in 1 .. n - 1 PROVE r[i] = Tail(s)[i]
    <3>1. i + 1 \in 1 .. n
      BY <1>1
    <3> QED
      BY <1>3, <1>5, <1>6, <1>8, <3>1
  <2> QED
    BY <2>1
<1>10. r = Tail(s)
  BY <1>6, <1>8, <1>9, SeqEqual
<1>11. Head(s) = s[1] /\ 1 \in 1 .. n
  BY <1>1, <1>5, <1>7
<1>12. Head(s) = f[t]
  BY <1>4, <1>5, <1>11
<1> QED
  BY <1>7, <1>10, <1>12 DEF s, r, u

\* A step that keeps c_tail, the number of items and the slots that hold them keeps
\* the queue.
LEMMA QueueSame ==
  ASSUME IInv, IInv', Count' = Count, c_tail' = c_tail,
         \A k \in 0 .. Count - 1 : buffer'[Slot(c_tail, k)] = buffer[Slot(c_tail, k)]
  PROVE  Queue' = Queue
<1>1. Count \in Nat /\ Queue = Listed(buffer, c_tail, Count)
  BY QueueIs, RingAssumption
<1>2. Queue' = Listed(buffer', c_tail', Count)
  BY <1>1, QueueNext
<1>3. \A i \in 1 .. Count : i - 1 \in 0 .. Count - 1
  BY <1>1
<1>4. Listed(buffer', c_tail', Count) = Listed(buffer, c_tail, Count)
  BY <1>3 DEF Listed
<1> QED
  BY <1>1, <1>2, <1>4

\* The stage of a call, and the descriptor it carries, by where it is.
Stage(l) == IF l = "idle" THEN "idle" ELSE IF l \in Owe THEN "done" ELSE "called"

CarriedIn(l, d)  == IF l \in Owe THEN NoItem ELSE d
CarriedOut(l, d) == IF l \in Owe THEN d ELSE NoItem

\* A step of t changes the abstract call of t and no other.
LEMMA CallMoves ==
  ASSUME IInv, NEW t \in Threads, NEW a, NEW b \in Labels, Goto(t, a, b),
         \A u \in Threads \ {t} : bd'[u] = bd[u]
  PROVE  /\ Mode[t] = Stage(a) /\ Mode' = [Mode EXCEPT ![t] = Stage(b)]
         /\ t \in Producers => /\ Value[t] = CarriedIn(a, bd[t])
                               /\ Value' = [Value EXCEPT ![t] = CarriedIn(b, bd'[t])]
         /\ t \in Consumers => /\ Value[t] = CarriedOut(a, bd[t])
                               /\ Value' = [Value EXCEPT ![t] = CarriedOut(b, bd'[t])]
<1>1. /\ pc[t] = a /\ pc'[t] = b /\ \A u \in Threads \ {t} : pc'[u] = pc[u]
  BY DEF Goto, IInv, Typed
<1>2. Mode[t] = Stage(a) /\ Mode'[t] = Stage(b) /\ \A u \in Threads \ {t} : Mode'[u] = Mode[u]
  BY <1>1 DEF Mode, Stage, Owe
<1>3. Mode' = [Mode EXCEPT ![t] = Stage(b)]
  <2>1. Mode = [u \in Threads |-> Mode[u]] /\ Mode' = [u \in Threads |-> Mode'[u]]
    BY DEF Mode
  <2> QED
    BY <1>2, <2>1
<1>4. \A u \in Threads \ {t} : Value'[u] = Value[u]
  BY <1>1 DEF Value
<1>5. Value = [u \in Threads |-> Value[u]] /\ Value' = [u \in Threads |-> Value'[u]]
  BY DEF Value
<1>6. t \in Producers => Value[t] = CarriedIn(a, bd[t]) /\ Value'[t] = CarriedIn(b, bd'[t])
  BY <1>1 DEF Value, CarriedIn, Owe
<1>7. t \in Consumers => Value[t] = CarriedOut(a, bd[t]) /\ Value'[t] = CarriedOut(b, bd'[t])
  BY <1>1, RingAssumption DEF Value, CarriedOut, Owe
<1> QED
  BY <1>2, <1>3, <1>4, <1>5, <1>6, <1>7

\* A step inside a call that changes neither its stage nor what it carries, and
\* neither c_tail nor the number of items, is invisible in the queue.
LEMMA InsideCall ==
  ASSUME IInv, IInv', NEW t \in Threads, NEW a, NEW b \in Labels, Goto(t, a, b),
         Stage(a) = Stage(b), \A u \in Threads \ {t} : bd'[u] = bd[u],
         t \in Producers => bd'[t] = bd[t],
         t \in Consumers => CarriedOut(a, bd[t]) = CarriedOut(b, bd'[t]),
         Count' = Count, c_tail' = c_tail,
         \A k \in 0 .. Count - 1 : buffer'[Slot(c_tail, k)] = buffer[Slot(c_tail, k)]
  PROVE  UNCHANGED BQ!vars
<1>1. Queue' = Queue
  BY QueueSame
<1>2. a \in Owe <=> b \in Owe
  BY DEF Stage, Owe
<1>3. CarriedIn(a, bd[t]) = CarriedIn(b, bd[t])
  BY <1>2 DEF CarriedIn
<1>4. Mode = [u \in Threads |-> Mode[u]] /\ Value = [u \in Threads |-> Value[u]]
  BY DEF Mode, Value
<1>5. Mode' = Mode
  BY <1>4, CallMoves
<1>6. Value' = Value
  <2>1. CASE t \in Producers
    BY <1>3, <1>4, <2>1, CallMoves
  <2>2. CASE t \in Consumers
    BY <1>4, <2>2, CallMoves
  <2> QED
    BY <2>1, <2>2 DEF Threads
<1> QED
  BY <1>1, <1>5, <1>6 DEF BQ!vars

\* Every step of ring_submit is a step of the queue or invisible.
LEMMA SubmitMap ==
  ASSUME IInv, IInv', Carried, NEW p \in Producers,
         SubmitStep(p) \/ \E i \in Items : SubmitCall(p, i)
  PROVE  BQ!Next \/ UNCHANGED BQ!vars
<1> p \in Threads /\ p \notin Consumers
  BY RingAssumption DEF Threads
<1>0. /\ Labels = {"idle", "wait", "lock", "copy", "advance", "unlock", "post"}
      /\ sem_not_empty \in Nat /\ bd \in [Threads -> Items \cup {NoItem}]
      /\ Count \in Nat /\ Free \in Nat
  BY Claimed DEF Labels, IInv, Typed
<1>1. ASSUME NEW i \in Items, SubmitCall(p, i)
      PROVE  BQ!SubmitCall(p, i)
  <2>1. /\ Goto(p, "idle", "wait") /\ "wait" \in Labels /\ sem_not_empty' = sem_not_empty + 0
        /\ bd'[p] = i /\ \A u \in Threads \ {p} : bd'[u] = bd[u]
        /\ c_tail' = c_tail /\ buffer' = buffer
    BY <1>0, <1>1 DEF SubmitCall
  <2>2. Count' = Count
    <3>1. Count' = Count + 0 + One("wait", Owe) - One("idle", Owe)
      BY <2>1, ProducerCount
    <3> QED
      BY <1>0, <3>1 DEF One, Owe
  <2>3. Queue' = Queue
    BY <2>1, <2>2, QueueSame
  <2>4. /\ Mode[p] = "idle" /\ Mode' = [Mode EXCEPT ![p] = "called"]
        /\ Value' = [Value EXCEPT ![p] = i]
    BY <2>1, CallMoves DEF Stage, CarriedIn, Owe
  <2> QED
    BY <2>3, <2>4 DEF BQ!SubmitCall
<1>2. CASE SubmitWait(p)
  <2>1. /\ Goto(p, "wait", "lock") /\ "lock" \in Labels /\ sem_not_empty' = sem_not_empty + 0
        /\ bd' = bd /\ c_tail' = c_tail /\ buffer' = buffer
    BY <1>0, <1>2 DEF SubmitWait
  <2>2. Count' = Count
    <3>1. Count' = Count + 0 + One("lock", Owe) - One("wait", Owe)
      BY <2>1, ProducerCount
    <3> QED
      BY <1>0, <3>1 DEF One, Owe
  <2> QED
    BY <2>1, <2>2, InsideCall DEF Stage, Owe
<1>3. CASE SubmitLock(p)
  <2>1. /\ Goto(p, "lock", "copy") /\ "copy" \in Labels /\ sem_not_empty' = sem_not_empty + 0
        /\ bd' = bd /\ c_tail' = c_tail /\ buffer' = buffer
    BY <1>0, <1>3 DEF SubmitLock
  <2>2. Count' = Count
    <3>1. Count' = Count + 0 + One("copy", Owe) - One("lock", Owe)
      BY <2>1, ProducerCount
    <3> QED
      BY <1>0, <3>1 DEF One, Owe
  <2> QED
    BY <2>1, <2>2, InsideCall DEF Stage, Owe
<1>4. CASE SubmitCopy(p)
  <2>1. /\ Goto(p, "copy", "advance") /\ "advance" \in Labels /\ sem_not_empty' = sem_not_empty + 0
        /\ bd' = bd /\ c_tail' = c_tail /\ pc[p] = "copy"
    BY <1>0, <1>4 DEF SubmitCopy, Goto
  <2>2. Count' = Count
    <3>1. Count' = Count + 0 + One("advance", Owe) - One("copy", Owe)
      BY <2>1, ProducerCount
    <3> QED
      BY <1>0, <3>1 DEF One, Owe
  <2>3. \A k \in 0 .. Count - 1 : buffer'[Slot(c_tail, k)] = buffer[Slot(c_tail, k)]
    <3>1. \A k \in 0 .. Count - 1 : Slot(c_tail, k) # p_head
      BY <2>1, FreshSlot
    <3>2. \A s : s # p_head => buffer'[s] = buffer[s]
      BY <1>4 DEF SubmitCopy, IInv, Typed
    <3> QED
      BY <3>1, <3>2
  <2> QED
    BY <2>1, <2>2, <2>3, InsideCall DEF Stage, Owe
<1>5. CASE SubmitAdvance(p)
  <2>1. /\ Goto(p, "advance", "unlock") /\ "unlock" \in Labels /\ sem_not_empty' = sem_not_empty + 0
        /\ bd' = bd /\ c_tail' = c_tail /\ buffer' = buffer /\ pc[p] = "advance"
    BY <1>0, <1>5 DEF SubmitAdvance, Goto
  <2>2. Count' = Count + 1
    <3>1. Count' = Count + 0 + One("unlock", Owe) - One("advance", Owe)
      BY <2>1, ProducerCount
    <3> QED
      BY <1>0, <3>1 DEF One, Owe
  <2>3. Count \in 0 .. RING_SIZE - 1 /\ Slot(c_tail, Count) = p_head
    <3>1. Free > 0 /\ Count + Free = RING_SIZE /\ p_head = Slot(c_tail, Count)
      BY <2>1, Claimed DEF Claim, IInv, SlotAccounting, Slot
    <3> QED
      BY <1>0, <3>1, RingAssumption
  <2>4. Queue = Listed(buffer, c_tail, Count) /\ c_tail \in Slots
    BY QueueIs
  <2>5. Queue' = Listed(buffer, c_tail, Count + 1)
    BY <1>0, <2>1, <2>2, QueueNext
  <2>6. buffer \in [Slots -> Items \cup {NoItem}] /\ buffer[p_head] = bd[p]
    BY <2>1 DEF IInv, Typed, Carried
  <2>7. Queue' = Append(Queue, bd[p])
    BY <2>3, <2>4, <2>5, <2>6, ListedAppend
  <2>8. Len(Queue) < RING_SIZE
    <3>1. Count \in 0 .. RING_SIZE
      BY <2>3, RingAssumption
    <3>2. Len(Queue) = Count
      BY <2>4, <2>6, <3>1, ListedSeq
    <3> QED
      BY <2>3, <3>2, RingAssumption
  <2>9. /\ Mode[p] = "called" /\ Mode' = [Mode EXCEPT ![p] = "done"]
        /\ Value[p] = bd[p] /\ Value' = [Value EXCEPT ![p] = NoItem]
    BY <2>1, CallMoves DEF Stage, CarriedIn, Owe
  <2>10. BQ!Enq(p)
    BY <2>7, <2>8, <2>9 DEF BQ!Enq
  <2> QED
    BY <2>10 DEF BQ!Next
<1>6. CASE SubmitUnlock(p)
  <2>1. /\ Goto(p, "unlock", "post") /\ "post" \in Labels /\ sem_not_empty' = sem_not_empty + 0
        /\ bd' = bd /\ c_tail' = c_tail /\ buffer' = buffer
    BY <1>0, <1>6 DEF SubmitUnlock
  <2>2. Count' = Count
    <3>1. Count' = Count + 0 + One("post", Owe) - One("unlock", Owe)
      BY <2>1, ProducerCount
    <3> QED
      BY <1>0, <3>1 DEF One, Owe
  <2> QED
    BY <2>1, <2>2, InsideCall DEF Stage, Owe
<1>7. CASE SubmitPost(p)
  <2>1. /\ Goto(p, "post", "idle") /\ "idle" \in Labels /\ sem_not_empty' = sem_not_empty + 1
        /\ bd'[p] = NoItem /\ \A u \in Threads \ {p} : bd'[u] = bd[u]
        /\ c_tail' = c_tail /\ buffer' = buffer
    BY <1>0, <1>7 DEF SubmitPost
  <2>2. Count' = Count
    <3>1. Count' = Count + 1 + One("idle", Owe) - One("post", Owe)
      BY <2>1, ProducerCount
    <3> QED
      BY <1>0, <3>1 DEF One, Owe
  <2>3. Queue' = Queue
    BY <2>1, <2>2, QueueSame
  <2>4. /\ Mode[p] = "done" /\ Mode' = [Mode EXCEPT ![p] = "idle"]
        /\ Value' = [Value EXCEPT ![p] = NoItem]
    BY <2>1, CallMoves DEF Stage, CarriedIn, Owe
  <2>5. BQ!Return(p)
    BY <2>3, <2>4 DEF BQ!Return
  <2> QED
    BY <2>5 DEF BQ!Next, Threads, BQ!Threads
<1> QED
  BY <1>1, <1>2, <1>3, <1>4, <1>5, <1>6, <1>7 DEF SubmitStep, BQ!Next

\* Every step of ring_get is a step of the queue or invisible.
LEMMA GetMap ==
  ASSUME IInv, IInv', Carried, NEW c \in Consumers, GetStep(c) \/ GetCall(c)
  PROVE  BQ!Next \/ UNCHANGED BQ!vars
<1> c \in Threads /\ c \notin Producers
  BY RingAssumption DEF Threads
<1>0. /\ Labels = {"idle", "wait", "lock", "copy", "advance", "unlock", "post"}
      /\ sem_not_empty \in Nat /\ bd \in [Threads -> Items \cup {NoItem}]
      /\ Count \in Nat /\ Free \in Nat
  BY Claimed DEF Labels, IInv, Typed
<1>1. CASE GetCall(c)
  <2>1. /\ Goto(c, "idle", "wait") /\ "wait" \in Labels /\ sem_not_empty' = sem_not_empty + 0
        /\ bd' = bd /\ c_tail' = c_tail /\ buffer' = buffer
    BY <1>0, <1>1 DEF GetCall
  <2>2. Count' = Count
    <3>1. Count' = Count + 0 + One("wait", Claim) - One("idle", Claim)
      BY <2>1, ConsumerCount
    <3> QED
      BY <1>0, <3>1 DEF One, Claim
  <2>3. Queue' = Queue
    BY <2>1, <2>2, QueueSame
  <2>4. /\ Mode[c] = "idle" /\ Mode' = [Mode EXCEPT ![c] = "called"]
        /\ Value[c] = NoItem /\ Value' = [Value EXCEPT ![c] = NoItem]
    BY <2>1, CallMoves DEF Stage, CarriedOut, Owe
  <2>5. Value' = Value
    <3>1. Value = [u \in Threads |-> Value[u]]
      BY DEF Value
    <3> QED
      BY <2>4, <3>1
  <2>6. BQ!GetCall(c)
    BY <2>3, <2>4, <2>5 DEF BQ!GetCall
  <2> QED
    BY <2>6 DEF BQ!Next
<1>2. CASE GetWait(c)
  <2>1. /\ Goto(c, "wait", "lock") /\ "lock" \in Labels /\ sem_not_empty' = sem_not_empty + -1
        /\ bd' = bd /\ c_tail' = c_tail /\ buffer' = buffer
    BY <1>0, <1>2 DEF GetWait
  <2>2. Count' = Count
    <3>1. Count' = Count + -1 + One("lock", Claim) - One("wait", Claim)
      BY <2>1, ConsumerCount
    <3> QED
      BY <1>0, <3>1 DEF One, Claim
  <2> QED
    BY <2>1, <2>2, InsideCall DEF Stage, CarriedOut, Owe
<1>3. CASE GetLock(c)
  <2>1. /\ Goto(c, "lock", "copy") /\ "copy" \in Labels /\ sem_not_empty' = sem_not_empty + 0
        /\ bd' = bd /\ c_tail' = c_tail /\ buffer' = buffer
    BY <1>0, <1>3 DEF GetLock
  <2>2. Count' = Count
    <3>1. Count' = Count + 0 + One("copy", Claim) - One("lock", Claim)
      BY <2>1, ConsumerCount
    <3> QED
      BY <1>0, <3>1 DEF One, Claim
  <2> QED
    BY <2>1, <2>2, InsideCall DEF Stage, CarriedOut, Owe
<1>4. CASE GetCopy(c)
  <2>1. /\ Goto(c, "copy", "advance") /\ "advance" \in Labels /\ sem_not_empty' = sem_not_empty + 0
        /\ \A u \in Threads \ {c} : bd'[u] = bd[u]
        /\ c_tail' = c_tail /\ buffer' = buffer
    BY <1>0, <1>4 DEF GetCopy
  <2>2. Count' = Count
    <3>1. Count' = Count + 0 + One("advance", Claim) - One("copy", Claim)
      BY <2>1, ConsumerCount
    <3> QED
      BY <1>0, <3>1 DEF One, Claim
  <2> QED
    BY <2>1, <2>2, InsideCall DEF Stage, CarriedOut, Owe
<1>5. CASE GetAdvance(c)
  <2>1. /\ Goto(c, "advance", "unlock") /\ "unlock" \in Labels /\ sem_not_empty' = sem_not_empty + 0
        /\ bd' = bd /\ c_tail' = (c_tail + 1) % RING_SIZE /\ buffer' = buffer /\ pc[c] = "advance"
    BY <1>0, <1>5 DEF GetAdvance, Goto
  <2>2. Count' = Count - 1
    <3>1. Count' = Count + 0 + One("unlock", Claim) - One("advance", Claim)
      BY <2>1, ConsumerCount
    <3> QED
      BY <1>0, <3>1 DEF One, Claim
  <2>3. Count \in 1 .. RING_SIZE /\ Count - 1 \in Nat
    <3>1. Count > 0
      BY <2>1, Claimed DEF Claim, IInv
    <3>2. Count \in 0 .. RING_SIZE
      BY QueueIs
    <3> QED
      BY <3>1, <3>2, RingAssumption
  <2>4. Queue = Listed(buffer, c_tail, Count) /\ c_tail \in Slots
    BY QueueIs
  <2>5. Queue' = Listed(buffer, (c_tail + 1) % RING_SIZE, Count - 1)
    BY <2>1, <2>2, <2>3, QueueNext
  <2>6. buffer \in [Slots -> Items \cup {NoItem}] /\ buffer[c_tail] = bd[c]
    BY <2>1 DEF IInv, Typed, Carried
  <2>7. Queue # << >> /\ Queue' = Tail(Queue) /\ Head(Queue) = bd[c]
    BY <2>3, <2>4, <2>5, <2>6, ListedTail
  <2>8. /\ Mode[c] = "called" /\ Mode' = [Mode EXCEPT ![c] = "done"]
        /\ Value' = [Value EXCEPT ![c] = bd[c]]
    BY <2>1, CallMoves DEF Stage, CarriedOut, Owe
  <2>9. BQ!Deq(c)
    BY <2>7, <2>8 DEF BQ!Deq
  <2> QED
    BY <2>9 DEF BQ!Next
<1>6. CASE GetUnlock(c)
  <2>1. /\ Goto(c, "unlock", "post") /\ "post" \in Labels /\ sem_not_empty' = sem_not_empty + 0
        /\ bd' = bd /\ c_tail' = c_tail /\ buffer' = buffer
    BY <1>0, <1>6 DEF GetUnlock
  <2>2. Count' = Count
    <3>1. Count' = Count + 0 + One("post", Claim) - One("unlock", Claim)
      BY <2>1, ConsumerCount
    <3> QED
      BY <1>0, <3>1 DEF One, Claim
  <2> QED
    BY <2>1, <2>2, InsideCall DEF Stage, CarriedOut, Owe
<1>7. CASE GetPost(c)
  <2>1. /\ Goto(c, "post", "idle") /\ "idle" \in Labels /\ sem_not_empty' = sem_not_empty + 0
        /\ bd'[c] = NoItem /\ \A u \in Threads \ {c} : bd'[u] = bd[u]
        /\ c_tail' = c_tail /\ buffer' = buffer
    BY <1>0, <1>7 DEF GetPost
  <2>2. Count' = Count
    <3>1. Count' = Count + 0 + One("idle", Claim) - One("post", Claim)
      BY <2>1, ConsumerCount
    <3> QED
      BY <1>0, <3>1 DEF One, Claim
  <2>3. Queue' = Queue
    BY <2>1, <2>2, QueueSame
  <2>4. /\ Mode[c] = "done" /\ Mode' = [Mode EXCEPT ![c] = "idle"]
        /\ Value' = [Value EXCEPT ![c] = NoItem]
    BY <2>1, CallMoves DEF Stage, CarriedOut, Owe
  <2>5. BQ!Return(c)
    BY <2>3, <2>4 DEF BQ!Return
  <2> QED
    BY <2>5 DEF BQ!Next, Threads, BQ!Threads
<1> QED
  BY <1>1, <1>2, <1>3, <1>4, <1>5, <1>6, <1>7 DEF GetStep

\* The initialised ring is the empty queue.
LEMMA InitMap == Init => BQ!Init
<1> SUFFICES ASSUME Init PROVE BQ!Init
  OBVIOUS
<1>1. Count = 0
  <2>1. Filled = {} /\ Emptying = {}
    BY DEF Init, Filled, Emptying, Threads
  <2> QED
    BY <2>1, FS_EmptySet DEF Init, Count
<1>2. Queue = << >>
  <2>1. Queue = [i \in 1 .. 0 |-> buffer[(c_tail + i - 1) % RING_SIZE]]
    BY <1>1 DEF Queue
  <2> QED
    BY <2>1
<1>3. Mode = [t \in Threads |-> "idle"] /\ Value = [t \in Threads |-> NoItem]
  BY DEF Init, Mode, Value
<1> QED
  BY <1>2, <1>3 DEF BQ!Init, Threads, BQ!Threads

\* Every step of the ring is a step of the queue or invisible in it.
LEMMA NextMap == IInv /\ IInv' /\ Carried /\ [Next]_vars => [BQ!Next]_(BQ!vars)
<1> SUFFICES ASSUME IInv, IInv', Carried, [Next]_vars PROVE [BQ!Next]_(BQ!vars)
  OBVIOUS
<1>1. CASE UNCHANGED vars
  BY <1>1 DEF vars, BQ!vars, Queue, Mode, Value, Count, Filled, Emptying
<1>2. ASSUME NEW p \in Producers, SubmitStep(p) \/ \E i \in Items : SubmitCall(p, i)
      PROVE  BQ!Next \/ UNCHANGED BQ!vars
  BY <1>2, SubmitMap
<1>3. ASSUME NEW c \in Consumers, GetStep(c) \/ GetCall(c)
      PROVE  BQ!Next \/ UNCHANGED BQ!vars
  BY <1>3, GetMap
<1> QED
  BY <1>1, <1>2, <1>3 DEF Next

\* For any numbers of threads and any RING_SIZE the ring is a linearizable FIFO queue
\* of at most RING_SIZE descriptors: none is lost, duplicated, reordered or torn.
THEOREM RingIsQueue == Spec => ImplementsQueue
BY SpecCarried, InitMap, NextMap, PTL DEF Spec, ImplementsQueue, BQ!Spec
=============================================================================

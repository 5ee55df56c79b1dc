----------------------------- MODULE RingBuffer -----------------------------
(***************************************************************************)
(* The shared-memory ring of p6 (ring_buffer.c, ring_buffer.h), one action *)
(* per statement of ring_submit and ring_get.  Producers are the client's  *)
(* threads, consumers the server's.                                        *)
(*                                                                         *)
(* pc[t] names the statement thread t executes next:                       *)
(*   "wait"    sem_wait on sem_not_full (producer), sem_not_empty (cons.)  *)
(*   "lock"    pthread_mutex_lock on s_mutex, g_mutex                      *)
(*   "copy"    the struct copy into, out of, buffer[p_head], buffer[c_tail]*)
(*   "advance" p_head, c_tail = (... + 1) % RING_SIZE                      *)
(*   "unlock"  pthread_mutex_unlock                                        *)
(*   "post"    sem_post on sem_not_empty, sem_not_full                     *)
(* and "idle" when t is in neither function.                               *)
(***************************************************************************)
EXTENDS Naturals, FiniteSets

CONSTANTS Producers, Consumers, RING_SIZE,
          Items,      \* descriptors the producers submit
          NoItem,     \* the zeroed descriptor that memset leaves in every slot
          NoThread    \* "owner" of a mutex that is free

ASSUME RingAssumption ==
  /\ IsFiniteSet(Producers) /\ IsFiniteSet(Consumers)
  /\ Producers \cap Consumers = {}
  /\ NoThread \notin Producers \cup Consumers
  /\ RING_SIZE \in Nat \ {0}
  /\ NoItem \notin Items

VARIABLES p_head, c_tail, buffer, sem_not_full, sem_not_empty,
          s_mutex, g_mutex,
          pc,         \* statement each thread executes next
          bd          \* the descriptor each thread's call works on

vars == <<p_head, c_tail, buffer, sem_not_full, sem_not_empty,
          s_mutex, g_mutex, pc, bd>>

Threads == Producers \cup Consumers
Slots   == 0 .. RING_SIZE - 1
Labels  == {"idle", "wait", "lock", "copy", "advance", "unlock", "post"}

\* sem_not_full initialised one too high.
InitOneMore == /\ p_head = 0 /\ c_tail = 0
               /\ buffer = [s \in Slots |-> NoItem]
               /\ sem_not_full = RING_SIZE + 1 /\ sem_not_empty = 0
               /\ s_mutex = NoThread /\ g_mutex = NoThread
               /\ pc = [t \in Threads |-> "idle"]
               /\ bd = [t \in Threads |-> NoItem]

Init == /\ p_head = 0 /\ c_tail = 0
        /\ buffer = [s \in Slots |-> NoItem]
        /\ sem_not_full = RING_SIZE /\ sem_not_empty = 0
        /\ s_mutex = NoThread /\ g_mutex = NoThread
        /\ pc = [t \in Threads |-> "idle"]
        /\ bd = [t \in Threads |-> NoItem]

Goto(t, from, to) == pc[t] = from /\ pc' = [pc EXCEPT ![t] = to]

-----------------------------------------------------------------------------
(* Mutants: plausible slips in ring_buffer.c, used to test the properties. *)

\* sem_post(&r->sem_not_full) moved before the copy-out has finished.
GetLockEarlyPost(c) == /\ Goto(c, "lock", "copy")
                       /\ g_mutex = NoThread
                       /\ g_mutex' = c
                       /\ sem_not_full' = sem_not_full + 1
                       /\ UNCHANGED <<p_head, c_tail, buffer,
                                      sem_not_empty, s_mutex, bd>>

\* ring_submit posts the semaphore it waited on.
SubmitPostWrongSem(p) == /\ Goto(p, "post", "idle")
                         /\ sem_not_full' = sem_not_full + 1
                         /\ bd' = [bd EXCEPT ![p] = NoItem]
                         /\ UNCHANGED <<p_head, c_tail, buffer, sem_not_empty,
                                        s_mutex, g_mutex>>

\* ring_submit does not wait for a free slot.
SubmitWaitNot(p) == /\ Goto(p, "wait", "lock")
                    /\ UNCHANGED <<p_head, c_tail, buffer, sem_not_full,
                                   sem_not_empty, s_mutex, g_mutex, bd>>

\* The index is advanced without % RING_SIZE.
SubmitAdvanceNoWrap(p) == /\ Goto(p, "advance", "unlock")
                          /\ p_head' = p_head + 1
                          /\ UNCHANGED <<c_tail, buffer, sem_not_full,
                                         sem_not_empty, s_mutex, g_mutex, bd>>

\* ring_get takes no mutex.
GetLockNot(c) == /\ Goto(c, "lock", "copy")
                 /\ UNCHANGED <<p_head, c_tail, buffer, sem_not_full,
                                sem_not_empty, s_mutex, g_mutex, bd>>

-----------------------------------------------------------------------------
(* ring_submit(r, bd) *)

SubmitCall(p, i) == /\ Goto(p, "idle", "wait")
                    /\ bd' = [bd EXCEPT ![p] = i]
                    /\ UNCHANGED <<p_head, c_tail, buffer, sem_not_full,
                                   sem_not_empty, s_mutex, g_mutex>>

SubmitWait(p) == /\ Goto(p, "wait", "lock")
                 /\ sem_not_full > 0
                 /\ sem_not_full' = sem_not_full - 1
                 /\ UNCHANGED <<p_head, c_tail, buffer, sem_not_empty,
                                s_mutex, g_mutex, bd>>

SubmitLock(p) == /\ Goto(p, "lock", "copy")
                 /\ s_mutex = NoThread
                 /\ s_mutex' = p
                 /\ UNCHANGED <<p_head, c_tail, buffer, sem_not_full,
                                sem_not_empty, g_mutex, bd>>

SubmitCopy(p) == /\ Goto(p, "copy", "advance")
                 /\ buffer' = [buffer EXCEPT ![p_head] = bd[p]]
                 /\ UNCHANGED <<p_head, c_tail, sem_not_full, sem_not_empty,
                                s_mutex, g_mutex, bd>>

SubmitAdvance(p) == /\ Goto(p, "advance", "unlock")
                    /\ p_head' = (p_head + 1) % RING_SIZE
                    /\ UNCHANGED <<c_tail, buffer, sem_not_full, sem_not_empty,
                                   s_mutex, g_mutex, bd>>

SubmitUnlock(p) == /\ Goto(p, "unlock", "post")
                   /\ s_mutex' = NoThread
                   /\ UNCHANGED <<p_head, c_tail, buffer, sem_not_full,
                                  sem_not_empty, g_mutex, bd>>

\* The call returns after sem_post; its descriptor is the caller's again.
SubmitPost(p) == /\ Goto(p, "post", "idle")
                 /\ sem_not_empty' = sem_not_empty + 1
                 /\ bd' = [bd EXCEPT ![p] = NoItem]
                 /\ UNCHANGED <<p_head, c_tail, buffer, sem_not_full,
                                s_mutex, g_mutex>>

SubmitStep(p) == \/ SubmitWait(p) \/ SubmitLock(p) \/ SubmitCopy(p)
                 \/ SubmitAdvance(p) \/ SubmitUnlock(p) \/ SubmitPost(p)

-----------------------------------------------------------------------------
(* ring_get(r, bd) *)

GetCall(c) == /\ Goto(c, "idle", "wait")
              /\ UNCHANGED <<p_head, c_tail, buffer, sem_not_full,
                             sem_not_empty, s_mutex, g_mutex, bd>>

GetWait(c) == /\ Goto(c, "wait", "lock")
              /\ sem_not_empty > 0
              /\ sem_not_empty' = sem_not_empty - 1
              /\ UNCHANGED <<p_head, c_tail, buffer, sem_not_full,
                             s_mutex, g_mutex, bd>>

GetLock(c) == /\ Goto(c, "lock", "copy")
              /\ g_mutex = NoThread
              /\ g_mutex' = c
              /\ UNCHANGED <<p_head, c_tail, buffer, sem_not_full,
                             sem_not_empty, s_mutex, bd>>

GetCopy(c) == /\ Goto(c, "copy", "advance")
              /\ bd' = [bd EXCEPT ![c] = buffer[c_tail]]
              /\ UNCHANGED <<p_head, c_tail, buffer, sem_not_full,
                             sem_not_empty, s_mutex, g_mutex>>

GetAdvance(c) == /\ Goto(c, "advance", "unlock")
                 /\ c_tail' = (c_tail + 1) % RING_SIZE
                 /\ UNCHANGED <<p_head, buffer, sem_not_full, sem_not_empty,
                                s_mutex, g_mutex, bd>>

GetUnlock(c) == /\ Goto(c, "unlock", "post")
                /\ g_mutex' = NoThread
                /\ UNCHANGED <<p_head, c_tail, buffer, sem_not_full,
                               sem_not_empty, s_mutex, bd>>

\* The call returns after sem_post and hands its descriptor to the caller.
GetPost(c) == /\ Goto(c, "post", "idle")
              /\ sem_not_full' = sem_not_full + 1
              /\ bd' = [bd EXCEPT ![c] = NoItem]
              /\ UNCHANGED <<p_head, c_tail, buffer, sem_not_empty,
                             s_mutex, g_mutex>>

GetStep(c) == \/ GetWait(c) \/ GetLock(c) \/ GetCopy(c)
              \/ GetAdvance(c) \/ GetUnlock(c) \/ GetPost(c)

-----------------------------------------------------------------------------
Next == \/ \E p \in Producers : SubmitStep(p) \/ \E i \in Items : SubmitCall(p, i)
        \/ \E c \in Consumers : GetStep(c) \/ GetCall(c)

Spec == Init /\ [][Next]_vars

(***************************************************************************)
(* A thread inside a call is scheduled again; the server's threads call    *)
(* ring_get in an endless loop (kv_store.c, thread_function).  Nothing     *)
(* makes a client thread submit, and neither the semaphores nor the        *)
(* mutexes are fair to a particular thread.                                *)
(***************************************************************************)
Fairness == /\ \A p \in Producers : WF_vars(SubmitStep(p))
            /\ \A c \in Consumers : WF_vars(GetStep(c) \/ GetCall(c))

FairSpec == Spec /\ Fairness

-----------------------------------------------------------------------------
(* Properties *)

\* Type correctness: both indices stay inside the buffer, both semaphores stay
\* within 0 .. RING_SIZE (a semaphore above RING_SIZE would let a producer
\* overrun the slot of an item no consumer has taken).
TypeOK == /\ p_head \in Slots /\ c_tail \in Slots
          /\ buffer \in [Slots -> Items \cup {NoItem}]
          /\ sem_not_full \in 0 .. RING_SIZE /\ sem_not_empty \in 0 .. RING_SIZE
          /\ s_mutex \in Producers \cup {NoThread}
          /\ g_mutex \in Consumers \cup {NoThread}
          /\ pc \in [Threads -> Labels]
          /\ bd \in [Threads -> Items \cup {NoItem}]

Filling  == {p \in Producers : pc[p] \in {"lock", "copy", "advance"}}
Filled   == {p \in Producers : pc[p] \in {"unlock", "post"}}
Emptying == {c \in Consumers : pc[c] \in {"lock", "copy", "advance"}}
Emptied  == {c \in Consumers : pc[c] \in {"unlock", "post"}}

\* Slots between c_tail and p_head: announced by sem_not_empty, filled by a
\* producer that has not posted yet, or claimed by a consumer.
Count == sem_not_empty + Cardinality(Filled) + Cardinality(Emptying)

\* The other slots: granted by sem_not_full, claimed by a producer, or emptied
\* by a consumer that has not posted yet.
Free == sem_not_full + Cardinality(Filling) + Cardinality(Emptied)

\* No slot is lost or counted twice: the two semaphores together with the
\* threads that are between a sem_wait and the matching sem_post account for
\* all RING_SIZE slots, and p_head is exactly Count slots ahead of c_tail.
SlotAccounting == /\ Count + Free = RING_SIZE
                  /\ p_head = IF c_tail + Count < RING_SIZE
                              THEN c_tail + Count
                              ELSE c_tail + Count - RING_SIZE

SlotOf(t) == IF t \in Producers THEN p_head ELSE c_tail

\* The struct copies of ring_submit and ring_get are not atomic and run under
\* different mutexes.  No two of them are ever in progress on the same slot:
\* neither a producer against a consumer, which only the semaphores separate,
\* nor two threads of one side, which their mutex separates.
NoSlotConflict ==
  \A t, u \in Threads :
    t # u /\ pc[t] = "copy" /\ pc[u] = "copy" => SlotOf(t) # SlotOf(u)

(***************************************************************************)
(* The refinement mapping.  A submit takes effect when p_head advances, a  *)
(* get when c_tail advances; the mode of a call is read off its pc.        *)
(***************************************************************************)
Queue == [i \in 1 .. Count |-> buffer[(c_tail + i - 1) % RING_SIZE]]

Mode == [t \in Threads |->
           CASE pc[t] = "idle"               -> "idle"
             [] pc[t] \in {"unlock", "post"} -> "done"
             [] OTHER                        -> "called"]

Value == [t \in Threads |->
            IF t \in Producers
            THEN IF pc[t] \in {"unlock", "post"} THEN NoItem ELSE bd[t]
            ELSE IF pc[t] \in {"unlock", "post"} THEN bd[t] ELSE NoItem]

BQ == INSTANCE BoundedQueue WITH q <- Queue, mode <- Mode, val <- Value,
                                 Capacity <- RING_SIZE

\* The ring is a linearizable bounded FIFO queue: every behaviour of the
\* statements of ring_submit and ring_get, under any interleaving, is one of
\* the abstract queue (nothing lost, duplicated, reordered or invented, never
\* more than RING_SIZE items).
ImplementsQueue == BQ!Spec

Occupied(s) == \E i \in 0 .. Count - 1 : (c_tail + i) % RING_SIZE = s

\* Every submitted item is taken: an occupied slot is eventually emptied, so
\* no wakeup is lost between the two semaphores and no request waits in the
\* ring for ever.
EveryItemIsTaken == \A s \in Slots : Occupied(s) ~> ~Occupied(s)

=============================================================================

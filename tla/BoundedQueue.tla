---------------------------- MODULE BoundedQueue ----------------------------
(***************************************************************************)
(* What the shared ring of p6 promises its callers (ring_buffer.h,         *)
(* "should be thread-safe", "will block the calling thread"): a FIFO queue *)
(* of at most Capacity descriptors.  A call is split into its invocation,  *)
(* one atomic step that takes effect on the queue, and its return, so that *)
(* an implementation of this specification is a linearizable queue.        *)
(***************************************************************************)
EXTENDS Naturals, Sequences

CONSTANTS Producers,   \* threads that call ring_submit
          Consumers,   \* threads that call ring_get
          Items,       \* descriptors
          NoItem,      \* no descriptor
          Capacity     \* most descriptors the queue holds

VARIABLES q,      \* the queued descriptors, oldest first
          mode,   \* "idle", "called" or "done" for each thread's current call
          val     \* the descriptor the call carries in, or will carry out

vars == <<q, mode, val>>

Threads == Producers \cup Consumers

Init == /\ q = << >>
        /\ mode = [t \in Threads |-> "idle"]
        /\ val = [t \in Threads |-> NoItem]

SubmitCall(p, i) == /\ mode[p] = "idle"
                    /\ mode' = [mode EXCEPT ![p] = "called"]
                    /\ val' = [val EXCEPT ![p] = i]
                    /\ UNCHANGED q

GetCall(c) == /\ mode[c] = "idle"
              /\ mode' = [mode EXCEPT ![c] = "called"]
              /\ UNCHANGED <<q, val>>

Enq(p) == /\ mode[p] = "called"
          /\ Len(q) < Capacity
          /\ q' = Append(q, val[p])
          /\ mode' = [mode EXCEPT ![p] = "done"]
          /\ val' = [val EXCEPT ![p] = NoItem]

Deq(c) == /\ mode[c] = "called"
          /\ q # << >>
          /\ q' = Tail(q)
          /\ mode' = [mode EXCEPT ![c] = "done"]
          /\ val' = [val EXCEPT ![c] = Head(q)]

Return(t) == /\ mode[t] = "done"
             /\ mode' = [mode EXCEPT ![t] = "idle"]
             /\ val' = [val EXCEPT ![t] = NoItem]
             /\ UNCHANGED q

Next == \/ \E p \in Producers : Enq(p) \/ \E i \in Items : SubmitCall(p, i)
        \/ \E c \in Consumers : GetCall(c) \/ Deq(c)
        \/ \E t \in Threads : Return(t)

Spec == Init /\ [][Next]_vars
=============================================================================

----------------------------- MODULE HashTable ------------------------------
(***************************************************************************)
(* The server's hash table (kv_store.c): buckets of singly linked nodes,   *)
(* put under the bucket's mutex, get without any lock.  The server's       *)
(* threads call put and get concurrently; every read and write of shared   *)
(* memory that another thread could observe is a step of its own.          *)
(*                                                                         *)
(* Memory is the array heap; malloc hands out its nodes in order (brk is   *)
(* the last one handed out, NULL is 0) and nothing is ever freed while the *)
(* threads run.  Every field of a node is written before the node is       *)
(* published, and the program is built without optimisation, so a reader   *)
(* that sees the pointer sees the fields.                                  *)
(*                                                                         *)
(* pc[t]: "lock" 103, "head" 104 and 131 (reading v_head), "walk" 105, 104 *)
(* and 132, 131 (comparing a key, following next), "write" 106, "link"     *)
(* 112-115, "publish" 116, "unlock" 118, "read" 133, "ret" 137.            *)
(***************************************************************************)
EXTENDS Naturals, FiniteSets

CONSTANTS Threads,    \* the server's threads
          Keys,       \* the keys in use
          Vals,       \* the values in use
          Size,       \* hashtable.size
          NoThread    \* "owner" of a mutex that is free

ASSUME HashAssumption ==
  /\ Keys \subseteq Nat /\ IsFiniteSet(Keys)
  /\ Vals \subseteq Nat
  /\ Size \in Nat \ {0}
  /\ NoThread \notin Threads

NULL  == 0
Nodes == 1 .. Cardinality(Keys)   \* enough: put allocates once per key

VARIABLES v_head,     \* v_head[b]: the first node of bucket b, or NULL
          v_locks,    \* v_locks[b]: the thread that holds bucket b's mutex
          heap,       \* the nodes, [k, v, next]
          brk,        \* the last node malloc handed out
          pc,
          op,         \* the call's operation and arguments
          this_node,  \* the node the call's loop has reached
          output      \* get's local of that name

vars == <<v_head, v_locks, heap, brk, pc, op, this_node, output>>

hash_function(k, table_size) == k % table_size

Buckets == 0 .. Size - 1
Index(t) == hash_function(op[t].k, Size)

Ops == [type : {"put"}, k : Keys, v : Vals]
         \cup [type : {"get"}, k : Keys, v : {0}]
NoOp == [type |-> "none", k |-> 0, v |-> 0]

Init == /\ v_head = [b \in Buckets |-> NULL]
        /\ v_locks = [b \in Buckets |-> NoThread]
        /\ heap = [n \in Nodes |-> [k |-> 0, v |-> 0, next |-> NULL]]
        /\ brk = 0
        /\ pc = [t \in Threads |-> "idle"]
        /\ op = [t \in Threads |-> NoOp]
        /\ this_node = [t \in Threads |-> NULL]
        /\ output = [t \in Threads |-> 0]

Goto(t, from, to) == pc[t] = from /\ pc' = [pc EXCEPT ![t] = to]

-----------------------------------------------------------------------------
(* Mutants: plausible slips in kv_store.c, used to test the properties. *)

\* put does not take the bucket's mutex.
LockNot(t) == /\ Goto(t, "lock", "head")
              /\ UNCHANGED <<v_head, v_locks, heap, brk, op, this_node, output>>

\* put publishes the node before it sets its next pointer, and never sets it.
LinkNoNext(t) == /\ Goto(t, "link", "publish")
                 /\ brk' = brk + 1
                 /\ heap' = [heap EXCEPT ![brk + 1].k = op[t].k,
                                         ![brk + 1].v = op[t].v]
                 /\ this_node' = [this_node EXCEPT ![t] = brk + 1]
                 /\ UNCHANGED <<v_head, v_locks, op, output>>

\* put returns without unlocking when it has found the key.
WriteNoUnlock(t) == /\ Goto(t, "write", "idle")
                    /\ heap' = [heap EXCEPT ![this_node[t]].v = op[t].v]
                    /\ op' = [op EXCEPT ![t] = NoOp]
                    /\ this_node' = [this_node EXCEPT ![t] = NULL]
                    /\ UNCHANGED <<v_head, v_locks, brk, output>>

-----------------------------------------------------------------------------
(* Calls, and the loop that put and get share. *)

Call(t, o) == /\ Goto(t, "idle", IF o.type = "put" THEN "lock" ELSE "head")
              /\ op' = [op EXCEPT ![t] = o]
              /\ UNCHANGED <<v_head, v_locks, heap, brk, this_node, output>>

Lock(t) == /\ Goto(t, "lock", "head")
           /\ v_locks[Index(t)] = NoThread
           /\ v_locks' = [v_locks EXCEPT ![Index(t)] = t]
           /\ UNCHANGED <<v_head, heap, brk, op, this_node, output>>

ReadHead(t) == /\ Goto(t, "head", "walk")
               /\ this_node' = [this_node EXCEPT ![t] = v_head[Index(t)]]
               /\ UNCHANGED <<v_head, v_locks, heap, brk, op, output>>

\* The loop's condition fails: the key is not in the list.
WalkEnd(t) == /\ this_node[t] = NULL
              /\ Goto(t, "walk", IF op[t].type = "put" THEN "link" ELSE "ret")
              /\ UNCHANGED <<v_head, v_locks, heap, brk, op, this_node, output>>

WalkMatch(t) == /\ this_node[t] # NULL
                /\ heap[this_node[t]].k = op[t].k
                /\ Goto(t, "walk", IF op[t].type = "put" THEN "write" ELSE "read")
                /\ UNCHANGED <<v_head, v_locks, heap, brk, op, this_node, output>>

WalkNext(t) == /\ this_node[t] # NULL
               /\ heap[this_node[t]].k # op[t].k
               /\ pc[t] = "walk"
               /\ this_node' = [this_node EXCEPT ![t] = heap[this_node[t]].next]
               /\ UNCHANGED <<v_head, v_locks, heap, brk, pc, op, output>>

-----------------------------------------------------------------------------
(* The rest of put *)

WriteValue(t) == /\ Goto(t, "write", "unlock")
                 /\ heap' = [heap EXCEPT ![this_node[t]].v = op[t].v]
                 /\ UNCHANGED <<v_head, v_locks, brk, op, this_node, output>>

\* malloc and the three assignments to the new node, still private to put.
Link(t) == /\ Goto(t, "link", "publish")
           /\ brk' = brk + 1
           /\ heap' = [heap EXCEPT ![brk + 1] = [k |-> op[t].k, v |-> op[t].v,
                                                 next |-> v_head[Index(t)]]]
           /\ this_node' = [this_node EXCEPT ![t] = brk + 1]   \* new_node
           /\ UNCHANGED <<v_head, v_locks, op, output>>

Publish(t) == /\ Goto(t, "publish", "unlock")
              /\ v_head' = [v_head EXCEPT ![Index(t)] = this_node[t]]
              /\ UNCHANGED <<v_locks, heap, brk, op, this_node, output>>

Unlock(t) == /\ Goto(t, "unlock", "idle")
             /\ v_locks' = [v_locks EXCEPT ![Index(t)] = NoThread]
             /\ op' = [op EXCEPT ![t] = NoOp]
             /\ this_node' = [this_node EXCEPT ![t] = NULL]
             /\ UNCHANGED <<v_head, heap, brk, output>>

-----------------------------------------------------------------------------
(* The rest of get *)

ReadValue(t) == /\ Goto(t, "read", "ret")
                /\ output' = [output EXCEPT ![t] = heap[this_node[t]].v]
                /\ UNCHANGED <<v_head, v_locks, heap, brk, op, this_node>>

GetReturn(t) == /\ Goto(t, "ret", "idle")
                /\ op' = [op EXCEPT ![t] = NoOp]
                /\ this_node' = [this_node EXCEPT ![t] = NULL]
                /\ output' = [output EXCEPT ![t] = 0]
                /\ UNCHANGED <<v_head, v_locks, heap, brk>>

-----------------------------------------------------------------------------
Step(t) == \/ Lock(t) \/ ReadHead(t) \/ WalkEnd(t) \/ WalkMatch(t) \/ WalkNext(t)
           \/ WriteValue(t) \/ Link(t) \/ Publish(t) \/ Unlock(t)
           \/ ReadValue(t) \/ GetReturn(t)

Next == \E t \in Threads : Step(t) \/ \E o \in Ops : Call(t, o)

Spec == Init /\ [][Next]_vars

\* A thread inside put or get is scheduled again; the mutexes favour nobody.
FairSpec == Spec /\ \A t \in Threads : WF_vars(Step(t))

-----------------------------------------------------------------------------
(* Properties *)

Labels == {"idle", "lock", "head", "walk", "write", "link", "publish",
           "unlock", "read", "ret"}

\* Type correctness; in particular put never calls malloc twice for one key (brk
\* would exceed the number of keys), which is what the search under the lock is for.
TypeOK == /\ v_head \in [Buckets -> 0 .. brk]
          /\ v_locks \in [Buckets -> Threads \cup {NoThread}]
          /\ brk \in 0 .. Cardinality(Keys)
          /\ heap \in [Nodes -> [k : Keys \cup {0}, v : Vals \cup {0}, next : 0 .. brk]]
          /\ pc \in [Threads -> Labels]
          /\ op \in [Threads -> Ops \cup {NoOp}]
          /\ this_node \in [Threads -> 0 .. brk]
          /\ output \in [Threads -> Vals \cup {0}]

\* Bucket b's nodes that put has linked into the list.
Published(b) == {n \in 1 .. brk : /\ hash_function(heap[n].k, Size) = b
                                  /\ \A t \in Threads : ~(pc[t] = "publish"
                                                          /\ this_node[t] = n)}

\* n is the newest of the nodes in S, or NULL when there is none.
IsNewest(n, S) == \/ S = {} /\ n = NULL
                  \/ n \in S /\ \A m \in S : m <= n

\* Each bucket is one list that holds every node published in it, newest first,
\* and no key twice, whatever puts are under way: an insertion that races with
\* another never drops a node or duplicates a key.
ChainsWellFormed ==
  \A b \in Buckets :
    /\ IsNewest(v_head[b], Published(b))
    /\ \A n \in Published(b) :
         /\ IsNewest(heap[n].next, {m \in Published(b) : m < n})
         /\ \A m \in Published(b) : heap[m].k = heap[n].k => m = n

(***************************************************************************)
(* The refinement mapping.  put takes effect when it writes the value or   *)
(* publishes the node.  get takes effect when it reads the value if the    *)
(* key is in the part of the list still ahead of it, and otherwise when it *)
(* read v_head: a node published later is invisible to it.                 *)
(***************************************************************************)
NodeOf(k) == {n \in Published(hash_function(k, Size)) : heap[n].k = k}

Store == [k \in Keys |-> IF NodeOf(k) = {} THEN 0
                         ELSE heap[CHOOSE n \in NodeOf(k) : TRUE].v]

KeyAhead(t) == \E n \in NodeOf(op[t].k) : n <= this_node[t]

Mode == [t \in Threads |->
           CASE pc[t] = "idle"                                   -> "idle"
             [] pc[t] \in {"unlock", "ret"}                      -> "done"
             [] pc[t] = "walk" /\ op[t].type = "get" /\ ~KeyAhead(t) -> "done"
             [] OTHER                                            -> "called"]

KV == INSTANCE AtomicKV WITH store <- Store, mode <- Mode, ret <- output

\* put and get are linearizable although get takes no lock: every interleaving
\* of their statements is a behaviour of the atomic map.
Linearizable == KV!Spec

\* get always returns, however many puts prepend to the list it is walking, and
\* a bucket's mutex is always released.
CallsComplete ==
  /\ \A t \in Threads : op[t].type = "get" ~> pc[t] = "idle"
  /\ \A b \in Buckets : v_locks[b] # NoThread ~> v_locks[b] = NoThread
=============================================================================

-------------------------- MODULE HashTableProofs ---------------------------
(***************************************************************************)
(* Proofs, for any numbers of threads, keys, values and buckets, that the  *)
(* lists of the hash table stay well formed and that put and get           *)
(* implement an atomic map, although get takes no lock.                    *)
(*                                                                         *)
(* TypeOK and ChainsWellFormed say nothing about what a thread in the      *)
(* middle of a call relies on.  The inductive invariant adds it: Calls     *)
(* (which operation is at which statement), Locks (a put past its lock     *)
(* holds the bucket's mutex), Distinct (no key is in two nodes, published  *)
(* or not) and Walks (what the search has established so far).             *)
(***************************************************************************)
EXTENDS HashTable, FiniteSetTheorems, TLAPS

Putting == {"head", "walk", "write", "link", "publish", "unlock"}

Calls == \A t \in Threads :
  /\ pc[t] = "idle" => op[t] = NoOp
  /\ pc[t] # "idle" => op[t] \in Ops
  /\ pc[t] \in {"lock", "write", "link", "publish", "unlock"} => op[t].type = "put"
  /\ pc[t] \in {"read", "ret"} => op[t].type = "get"
  /\ pc[t] # "ret" => output[t] = 0

Locks == \A t \in Threads :
  pc[t] \in Putting /\ op[t].type = "put" => v_locks[Index(t)] = t

Distinct == \A m \in 1 .. brk :
  /\ heap[m].k \in Keys
  /\ \A n \in 1 .. brk : heap[m].k = heap[n].k => m = n

Walk(t) ==
  /\ pc[t] = "walk" => this_node[t] \in Published(Index(t)) \cup {NULL}
  /\ pc[t] = "walk" /\ op[t].type = "put" =>
       \A n \in 1 .. brk : heap[n].k = op[t].k => n <= this_node[t]
  /\ pc[t] = "link" => \A n \in 1 .. brk : heap[n].k # op[t].k
  /\ pc[t] \in {"write", "read"} =>
       this_node[t] \in Published(Index(t)) /\ heap[this_node[t]].k = op[t].k
  /\ pc[t] = "publish" =>
       /\ this_node[t] \in 1 .. brk
       /\ heap[this_node[t]] = [k |-> op[t].k, v |-> op[t].v, next |-> v_head[Index(t)]]
       /\ \A m \in Published(Index(t)) : m < this_node[t]

Walks == \A t \in Threads : Walk(t)

IInv == TypeOK /\ Calls /\ Locks /\ Distinct /\ Walks /\ ChainsWellFormed

-----------------------------------------------------------------------------
(* Facts about buckets and nodes *)

\* hash_function returns a bucket of the table.
LEMMA HashInBuckets == \A k \in Nat : hash_function(k, Size) \in Buckets
BY HashAssumption DEF hash_function, Buckets

\* The fields of a call's operation.
LEMMA OpFields ==
  \A o \in Ops : /\ o.k \in Keys /\ o.v \in Vals \cup {0}
                 /\ o.type \in {"put", "get"}
                 /\ o.type = "put" => o.v \in Vals
BY DEF Ops

\* Every call under way is in one bucket.
LEMMA IndexInBuckets ==
  ASSUME op \in [Threads -> Ops \cup {NoOp}], NEW t \in Threads
  PROVE  Index(t) \in Buckets
<1>1. op[t] \in Ops \/ op[t] = NoOp
  OBVIOUS
<1>2. op[t].k \in Nat
  <2>1. CASE op[t] \in Ops
    BY <2>1, OpFields, HashAssumption
  <2>2. CASE op[t] = NoOp
    BY <2>2 DEF NoOp
  <2> QED
    BY <1>1, <2>1, <2>2
<1> QED
  BY <1>2, HashInBuckets DEF Index

\* Two puts that both hold their mutex are in different buckets, so they insert
\* different keys.
LEMMA LockExcludes ==
  ASSUME Locks, NEW t \in Threads, NEW u \in Threads, t # u,
         pc[t] \in Putting, op[t].type = "put", pc[u] \in Putting, op[u].type = "put"
  PROVE  Index(t) # Index(u) /\ op[t].k # op[u].k
BY DEF Locks, Index

\* A put that is about to call malloc has not found its key, so one of the keys is
\* in no node, and the node malloc returns is within Nodes.
LEMMA RoomForNode ==
  ASSUME Distinct, brk \in Nat, NEW k \in Keys, \A n \in 1 .. brk : heap[n].k # k
  PROVE  brk + 1 \in 1 .. Cardinality(Keys)
<1> DEFINE K == Keys \ {k}
           f == [m \in 1 .. brk |-> heap[m].k]
<1>1. IsFiniteSet(Keys) /\ Cardinality(Keys) \in Nat
  BY HashAssumption, FS_CardinalityType
<1>2. IsFiniteSet(K) /\ Cardinality(K) = Cardinality(Keys) - 1
  BY <1>1, FS_RemoveElement
<1>3. f \in Injection(1 .. brk, K)
  BY DEF Distinct, Injection, IsInjective
<1>4. Cardinality(1 .. brk) = brk
  BY FS_Interval
<1> HIDE DEF K, f
<1>5. Cardinality(1 .. brk) <= Cardinality(K)
  BY <1>2, <1>3, FS_Injection
<1> QED
  BY <1>1, <1>2, <1>4, <1>5

\* The lists stay well formed when they keep their nodes, keys and links.
LEMMA ChainsSame ==
  ASSUME ChainsWellFormed, v_head' = v_head,
         \A b \in Buckets : Published(b)' = Published(b),
         \A b \in Buckets : \A m \in Published(b) :
           heap'[m].k = heap[m].k /\ heap'[m].next = heap[m].next
  PROVE  ChainsWellFormed'
<1>1. ASSUME NEW b \in Buckets
      PROVE  /\ IsNewest(v_head[b], Published(b))'
             /\ \A n \in Published(b)' :
                  /\ IsNewest(heap'[n].next, {m \in Published(b)' : m < n})
                  /\ \A m \in Published(b)' : heap'[m].k = heap'[n].k => m = n
  <2>1. /\ IsNewest(v_head[b], Published(b))
        /\ \A n \in Published(b) :
             /\ IsNewest(heap[n].next, {m \in Published(b) : m < n})
             /\ \A m \in Published(b) : heap[m].k = heap[n].k => m = n
    BY DEF ChainsWellFormed
  <2> QED
    BY <2>1
<1> QED
  BY <1>1 DEF ChainsWellFormed

\* A step of t that leaves the lists alone and does not concern a new node.
Quiet(t) == /\ UNCHANGED <<v_head, heap, brk>>
            /\ pc[t] # "publish" /\ pc'[t] # "publish"
            /\ \A u \in Threads \ {t} : /\ pc'[u] = pc[u] /\ op'[u] = op[u]
                                        /\ this_node'[u] = this_node[u]

\* Such a step publishes nothing and disturbs no other thread's search.
LEMMA QuietStep ==
  ASSUME NEW t \in Threads, Quiet(t)
  PROVE  /\ \A b : Published(b)' = Published(b)
         /\ Distinct => Distinct'
         /\ ChainsWellFormed => ChainsWellFormed'
         /\ Walks /\ Walk(t)' => Walks'
<1>1. \A u \in Threads : /\ pc'[u] = "publish" <=> pc[u] = "publish"
                         /\ pc[u] = "publish" => this_node'[u] = this_node[u]
  BY DEF Quiet
<1>2. \A b : Published(b)' = Published(b)
  BY <1>1 DEF Published, Quiet
<1>3. Distinct => Distinct'
  BY DEF Distinct, Quiet
<1>4. ChainsWellFormed => ChainsWellFormed'
  BY <1>2 DEF ChainsWellFormed, Quiet
<1>5. ASSUME Walks, Walk(t)', NEW u \in Threads
      PROVE  Walk(u)'
  <2>1. CASE u = t
    BY <1>5, <2>1
  <2>2. CASE u # t
    <3>1. Index(u)' = Index(u)
      BY <2>2 DEF Quiet, Index
    <3> QED
      BY <1>2, <1>5, <2>2, <3>1 DEF Walks, Walk, Quiet
  <2> QED
    BY <2>1, <2>2
<1> QED
  BY <1>2, <1>3, <1>4, <1>5 DEF Walks

-----------------------------------------------------------------------------
(* The inductive invariant *)

\* It holds of the empty table.
LEMMA InitInv == Init => IInv
<1> SUFFICES ASSUME Init PROVE IInv
  OBVIOUS
<1>1. Cardinality(Keys) \in Nat
  BY HashAssumption, FS_CardinalityType
<1>2. TypeOK
  BY <1>1 DEF Init, TypeOK, NULL, Labels
<1>3. Calls /\ Locks /\ Distinct /\ Walks
  BY DEF Init, Calls, Locks, Putting, Distinct, Walks, Walk
<1>4. \A b : Published(b) = {}
  BY DEF Init, Published
<1>5. ChainsWellFormed
  BY <1>4 DEF Init, ChainsWellFormed, IsNewest
<1> QED
  BY <1>2, <1>3, <1>5 DEF IInv

\* A call starts.
LEMMA CallInv ==
  ASSUME IInv, NEW t \in Threads, NEW o \in Ops, Call(t, o)
  PROVE  IInv'
<1> USE DEF IInv
<1>0. o.type \in {"put", "get"}
  BY OpFields
<1>1. TypeOK'
  BY <1>0 DEF TypeOK, Call, Goto, Labels
<1>2. Calls'
  BY <1>0 DEF TypeOK, Calls, Call, Goto
<1>3. Locks'
  BY <1>0 DEF TypeOK, Locks, Putting, Index, Call, Goto
<1>4. Quiet(t) /\ Walk(t)'
  BY <1>0 DEF TypeOK, Quiet, Walk, Call, Goto
<1> QED
  BY <1>1, <1>2, <1>3, <1>4, QuietStep

\* put takes the bucket's mutex.
LEMMA LockInv ==
  ASSUME IInv, NEW t \in Threads, Lock(t)
  PROVE  IInv'
<1> USE DEF IInv
<1>0. Index(t) \in Buckets /\ v_locks[Index(t)] = NoThread
  BY IndexInBuckets DEF TypeOK, Lock
<1>1. TypeOK'
  BY <1>0 DEF TypeOK, Lock, Goto, Labels
<1>2. Calls'
  BY DEF TypeOK, Calls, Lock, Goto
<1>3. Locks'
  <2>1. \A u \in Threads : Index(u)' = Index(u) /\ Index(u) \in Buckets
    BY IndexInBuckets DEF TypeOK, Index, Lock
  <2>2. \A u \in Threads \ {t} : pc'[u] = pc[u] /\ op'[u] = op[u]
    BY DEF TypeOK, Lock, Goto
  <2>3. v_locks' = [v_locks EXCEPT ![Index(t)] = t] /\ v_locks \in [Buckets -> Threads \cup {NoThread}]
    BY DEF TypeOK, Lock
  <2> QED
    BY <1>0, <2>1, <2>2, <2>3, HashAssumption DEF Locks
<1>4. Quiet(t) /\ Walk(t)'
  BY DEF TypeOK, Quiet, Walk, Lock, Goto
<1> QED
  BY <1>1, <1>2, <1>3, <1>4, QuietStep

\* Every node of the bucket of a put that holds its mutex is published, unless it
\* is the put's own: the others could only belong to another put in the bucket.
LEMMA OwnBucket ==
  ASSUME IInv, NEW t \in Threads, pc[t] \in Putting, op[t].type = "put",
         NEW n \in 1 .. brk, heap[n].k = op[t].k, pc[t] # "publish"
  PROVE  n \in Published(Index(t))
<1> SUFFICES ASSUME NEW u \in Threads, pc[u] = "publish", this_node[u] = n
             PROVE  FALSE
  BY DEF Published, Index
<1>1. op[u].type = "put" /\ op[u].k = op[t].k
  <2>1. op[u].type = "put"
    BY DEF IInv, Calls
  <2>2. heap[n] = [k |-> op[u].k, v |-> op[u].v, next |-> v_head[Index(u)]]
    BY DEF IInv, Walks, Walk
  <2> QED
    BY <2>1, <2>2
<1>2. t # u /\ pc[u] \in Putting
  BY DEF Putting
<1> QED
  BY <1>1, <1>2, LockExcludes DEF IInv

\* put and get read the head of the list.
LEMMA ReadHeadInv ==
  ASSUME IInv, NEW t \in Threads, ReadHead(t)
  PROVE  IInv'
<1> USE DEF IInv
<1>0. Index(t) \in Buckets /\ Index(t)' = Index(t)
  BY IndexInBuckets DEF TypeOK, ReadHead, Index
<1>1. TypeOK'
  BY <1>0 DEF TypeOK, ReadHead, Goto, Labels
<1>2. Calls'
  BY DEF TypeOK, Calls, ReadHead, Goto
<1>3. Locks'
  BY DEF TypeOK, Locks, Putting, Index, ReadHead, Goto
<1>4. Quiet(t)
  BY DEF TypeOK, Quiet, ReadHead, Goto
<1>5. Walk(t)'
  <2>1. /\ pc[t] = "head" /\ pc'[t] = "walk" /\ op'[t] = op[t] /\ heap' = heap /\ brk' = brk
        /\ this_node'[t] = v_head[Index(t)]
    BY DEF TypeOK, ReadHead, Goto
  <2>2. IsNewest(v_head[Index(t)], Published(Index(t)))
    BY <1>0 DEF ChainsWellFormed
  <2>3. ASSUME op[t].type = "put", NEW n \in 1 .. brk, heap[n].k = op[t].k
        PROVE  n <= v_head[Index(t)]
    BY <2>1, <2>2, <2>3, OwnBucket DEF IsNewest, Putting
  <2> QED
    BY <1>0, <1>4, <2>1, <2>2, <2>3, QuietStep DEF Walk, IsNewest
<1> QED
  BY <1>1, <1>2, <1>3, <1>4, <1>5, QuietStep

\* The search ends without the key.
LEMMA WalkEndInv ==
  ASSUME IInv, NEW t \in Threads, WalkEnd(t)
  PROVE  IInv'
<1> USE DEF IInv
<1>0. op[t].type \in {"put", "get"} /\ pc[t] = "walk"
  BY OpFields DEF Calls, WalkEnd, Goto
<1>1. TypeOK'
  BY <1>0 DEF TypeOK, WalkEnd, Goto, Labels
<1>2. Calls'
  BY <1>0 DEF TypeOK, Calls, WalkEnd, Goto
<1>3. Locks'
  BY DEF TypeOK, Locks, Putting, Index, WalkEnd, Goto
<1>4. Quiet(t)
  BY DEF TypeOK, Quiet, WalkEnd, Goto
<1>5. Walk(t)'
  <2>1. /\ pc'[t] = IF op[t].type = "put" THEN "link" ELSE "ret"
        /\ this_node[t] = 0 /\ heap' = heap /\ op' = op /\ brk' = brk /\ brk \in Nat
    BY HashAssumption, FS_CardinalityType DEF TypeOK, WalkEnd, Goto, NULL
  <2>2. ASSUME op[t].type = "put", NEW n \in 1 .. brk
        PROVE  heap[n].k # op[t].k
    <3>1. \A m \in 1 .. brk : heap[m].k = op[t].k => m <= 0
      BY <1>0, <2>1, <2>2 DEF Walks, Walk
    <3>2. ~(n <= 0)
      BY <2>1
    <3> QED
      BY <3>1, <3>2
  <2> QED
    BY <2>1, <2>2 DEF Walk
<1> QED
  BY <1>1, <1>2, <1>3, <1>4, <1>5, QuietStep

\* The search has found the key.
LEMMA WalkMatchInv ==
  ASSUME IInv, NEW t \in Threads, WalkMatch(t)
  PROVE  IInv'
<1> USE DEF IInv
<1>0. op[t].type \in {"put", "get"} /\ pc[t] = "walk"
  BY OpFields DEF Calls, WalkMatch, Goto
<1>1. TypeOK'
  BY <1>0 DEF TypeOK, WalkMatch, Goto, Labels
<1>2. Calls'
  BY <1>0 DEF TypeOK, Calls, WalkMatch, Goto
<1>3. Locks'
  BY DEF TypeOK, Locks, Putting, Index, WalkMatch, Goto
<1>4. Quiet(t)
  BY DEF TypeOK, Quiet, WalkMatch, Goto
<1>5. Walk(t)'
  <2>1. Index(t)' = Index(t)
    BY DEF WalkMatch, Index
  <2>2. /\ pc'[t] \in {"write", "read"} /\ heap' = heap /\ op' = op
        /\ this_node' = this_node /\ heap[this_node[t]].k = op[t].k
    BY DEF TypeOK, WalkMatch, Goto
  <2>3. this_node[t] \in Published(Index(t))
    BY <1>0 DEF Walks, Walk, WalkMatch
  <2> QED
    BY <1>4, <2>1, <2>2, <2>3, QuietStep DEF Walk
<1> QED
  BY <1>1, <1>2, <1>3, <1>4, <1>5, QuietStep

\* The search follows a next pointer.
LEMMA WalkNextInv ==
  ASSUME IInv, NEW t \in Threads, WalkNext(t)
  PROVE  IInv'
<1> USE DEF IInv
<1> DEFINE n == this_node[t]
           b == Index(t)
<1>0. /\ b \in Buckets /\ b' = b /\ pc[t] = "walk" /\ n \in Published(b) /\ n \in 1 .. brk
      /\ brk \in Nat /\ n \in Nodes /\ heap[n].next \in 0 .. brk
  <2>1. b \in Buckets /\ b' = b
    BY IndexInBuckets DEF TypeOK, WalkNext, Index
  <2>2. n \in Published(b) /\ pc[t] = "walk"
    BY DEF Walks, Walk, WalkNext
  <2>3. n \in 1 .. brk
    BY <2>2 DEF Published
  <2>4. brk \in Nat /\ n \in Nodes
    BY <2>3, HashAssumption, FS_CardinalityType DEF TypeOK, Nodes
  <2> QED
    BY <2>1, <2>2, <2>3, <2>4 DEF TypeOK
<1>1. TypeOK'
  BY <1>0 DEF TypeOK, WalkNext
<1>2. Calls' /\ Locks'
  BY DEF Calls, Locks, Index, WalkNext
<1>3. Quiet(t)
  BY <1>0 DEF TypeOK, Quiet, WalkNext
<1>4. Walk(t)'
  <2>1. this_node'[t] = heap[n].next /\ heap[n].k # op[t].k
    BY DEF TypeOK, WalkNext
  <2>2. IsNewest(heap[n].next, {m \in Published(b) : m < n})
    BY <1>0 DEF ChainsWellFormed
  <2>3. ASSUME op[t].type = "put", NEW m \in 1 .. brk, heap[m].k = op[t].k
        PROVE  m <= heap[n].next
    <3>1. m <= n /\ m # n
      BY <1>0, <2>1, <2>3 DEF Walks, Walk
    <3>2. m \in Published(b)
      BY <1>0, <2>3, OwnBucket DEF Putting
    <3> QED
      BY <1>0, <2>2, <3>1, <3>2 DEF IsNewest
  <2>4. heap[n].next \in Published(b) \cup {NULL}
    BY <2>2 DEF IsNewest
  <2> HIDE DEF n, b
  <2> QED
    BY <1>0, <1>3, <2>1, <2>3, <2>4, QuietStep DEF WalkNext, Walk, b
<1> QED
  BY <1>1, <1>2, <1>3, <1>4, QuietStep

\* put overwrites the value of the node it found.
LEMMA WriteValueInv ==
  ASSUME IInv, NEW t \in Threads, WriteValue(t)
  PROVE  IInv'
<1> USE DEF IInv
<1> DEFINE n == this_node[t]
<1>0. /\ pc[t] = "write" /\ n \in Published(Index(t)) /\ n \in 1 .. brk /\ n \in Nodes
      /\ op[t].v \in Vals /\ brk \in Nat
  <2>1. pc[t] = "write" /\ n \in Published(Index(t)) /\ op[t].type = "put" /\ op[t] \in Ops
    BY DEF Walks, Walk, WriteValue, Goto, Calls
  <2>2. n \in 1 .. brk
    BY <2>1 DEF Published
  <2>3. brk \in Nat /\ n \in Nodes
    BY <2>2, HashAssumption, FS_CardinalityType DEF TypeOK, Nodes
  <2> QED
    BY <2>1, <2>2, <2>3, OpFields
<1>1. /\ \A m \in Nodes : heap'[m].k = heap[m].k /\ heap'[m].next = heap[m].next
      /\ \A m \in Nodes \ {n} : heap'[m] = heap[m]
      /\ 1 .. brk \subseteq Nodes
  BY <1>0, HashAssumption, FS_CardinalityType DEF TypeOK, WriteValue, Nodes
<1>2. TypeOK'
  BY <1>0 DEF TypeOK, WriteValue, Goto, Labels
<1>3. Calls'
  BY DEF TypeOK, Calls, WriteValue, Goto
<1>4. Locks'
  BY DEF TypeOK, Locks, Putting, Index, WriteValue, Goto
<1>5. /\ v_head' = v_head /\ brk' = brk /\ this_node' = this_node /\ op' = op
      /\ pc'[t] = "unlock" /\ \A u \in Threads \ {t} : pc'[u] = pc[u]
  BY DEF WriteValue, Goto, TypeOK
<1>6. \A b : Published(b)' = Published(b)
  BY <1>0, <1>1, <1>5 DEF Published
<1>7. Distinct'
  BY <1>1, <1>5 DEF Distinct
<1>8. ChainsWellFormed'
  <2>1. \A b : \A m \in Published(b) : m \in Nodes
    BY <1>1 DEF Published
  <2> QED
    BY <1>1, <1>5, <1>6, <2>1 DEF ChainsWellFormed
<1>9. ASSUME NEW u \in Threads
      PROVE  Walk(u)'
  <2>1. CASE u = t
    BY <1>5, <2>1 DEF Walk
  <2>2. CASE u # t
    <3>1. pc[u] = "publish" => this_node[u] # n
      BY <1>0 DEF Published
    <3>2. Index(u)' = Index(u) /\ pc'[u] = pc[u] /\ op'[u] = op[u] /\ this_node'[u] = this_node[u]
      BY <1>5, <2>2 DEF Index
    <3>3. pc[u] \in {"write", "read"} => this_node[u] \in Nodes
      BY <1>1 DEF Walks, Walk, Published
    <3>4. Walk(u)
      BY DEF Walks
    <3> HIDE DEF n
    <3> QED
      BY <1>1, <1>5, <1>6, <3>1, <3>2, <3>3, <3>4 DEF Walk
  <2> QED
    BY <2>1, <2>2
<1> QED
  BY <1>2, <1>3, <1>4, <1>7, <1>8, <1>9 DEF Walks

\* put allocates the node and fills it in.  The key was in no node, so there is
\* room for it, and no other put can be looking for the key.
LEMMA LinkInv ==
  ASSUME IInv, NEW t \in Threads, Link(t)
  PROVE  IInv'
<1> USE DEF IInv
<1> DEFINE n == brk + 1
<1>0. /\ pc[t] = "link" /\ op[t].type = "put" /\ op[t].k \in Keys /\ op[t].v \in Vals
      /\ \A m \in 1 .. brk : heap[m].k # op[t].k
      /\ Index(t) \in Buckets /\ v_head[Index(t)] \in 0 .. brk
  <2>1. pc[t] = "link" /\ op[t].type = "put" /\ op[t] \in Ops
    BY DEF Link, Goto, Calls
  <2>2. \A m \in 1 .. brk : heap[m].k # op[t].k
    BY <2>1 DEF Walks, Walk
  <2>3. Index(t) \in Buckets
    BY IndexInBuckets DEF TypeOK
  <2>4. v_head[Index(t)] \in 0 .. brk
    BY <2>3 DEF TypeOK
  <2> QED
    BY <2>1, <2>2, <2>3, <2>4, OpFields
<1>1. brk \in Nat /\ n \in Nodes /\ n <= Cardinality(Keys) /\ Cardinality(Keys) \in Nat
  <2>1. brk \in Nat /\ Cardinality(Keys) \in Nat
    BY HashAssumption, FS_CardinalityType DEF TypeOK
  <2> QED
    BY <1>0, <2>1, RoomForNode DEF Nodes
<1>2. /\ heap'[n] = [k |-> op[t].k, v |-> op[t].v, next |-> v_head[Index(t)]]
      /\ \A m \in 1 .. brk : heap'[m] = heap[m] /\ m \in Nodes
      /\ v_head' = v_head /\ v_locks' = v_locks /\ op' = op /\ brk' = n
      /\ this_node'[t] = n /\ pc'[t] = "publish"
      /\ \A u \in Threads \ {t} : pc'[u] = pc[u] /\ this_node'[u] = this_node[u]
  BY <1>1 DEF TypeOK, Link, Goto, Nodes
<1>3. TypeOK'
  <2>1. heap' \in [Nodes -> [k : Keys \cup {0}, v : Vals \cup {0}, next : 0 .. brk']]
    <3>1. heap' = [heap EXCEPT ![n] = [k |-> op[t].k, v |-> op[t].v, next |-> v_head[Index(t)]]]
      BY DEF Link
    <3>2. 0 .. brk \subseteq 0 .. brk'
      BY <1>1, <1>2
    <3> HIDE DEF n
    <3> QED
      BY <1>0, <1>1, <1>2, <3>1, <3>2 DEF TypeOK
  <2> QED
    BY <1>0, <1>1, <1>2, <2>1 DEF TypeOK, Link, Goto, Labels
<1>4. Calls'
  BY DEF TypeOK, Calls, Link, Goto
<1>5. Locks'
  BY DEF TypeOK, Locks, Putting, Index, Link, Goto
<1>6. Distinct'
  BY <1>0, <1>1, <1>2 DEF Distinct
<1>7. \A b : Published(b)' = Published(b)
  <2>1. ASSUME NEW b, NEW m
        PROVE  m \in Published(b)' <=> m \in Published(b)
    <3>1. CASE m \in 1 .. brk
      <4>1. m # n /\ m \in 1 .. brk'
        BY <1>1, <1>2, <3>1
      <4>2. \A u \in Threads : (pc'[u] = "publish" /\ this_node'[u] = m)
                                 <=> (pc[u] = "publish" /\ this_node[u] = m)
        BY <1>0, <1>2, <4>1
      <4> HIDE DEF n
      <4> QED
        BY <1>2, <3>1, <4>1, <4>2 DEF Published
    <3>2. CASE m \notin 1 .. brk
      <4>1. m \in Published(b)' => m = n
        BY <1>1, <1>2, <3>2 DEF Published
      <4> QED
        BY <1>2, <3>2, <4>1 DEF Published
    <3> QED
      BY <3>1, <3>2
  <2> QED
    BY <2>1
<1>8. ChainsWellFormed'
  <2>1. \A b : \A m \in Published(b) : heap'[m] = heap[m]
    BY <1>2 DEF Published
  <2> QED
    BY <1>2, <1>7, <2>1, ChainsSame
<1>9. ASSUME NEW u \in Threads
      PROVE  Walk(u)'
  <2>1. CASE u = t
    <3>1. Index(t)' = Index(t)
      BY <1>2 DEF Index
    <3>2. \A m \in Published(Index(t)) : m < n
      BY <1>1 DEF Published
    <3> QED
      BY <1>1, <1>2, <1>7, <2>1, <3>1, <3>2 DEF Walk
  <2>2. CASE u # t
    <3>1. /\ Index(u)' = Index(u) /\ pc'[u] = pc[u] /\ op'[u] = op[u]
          /\ this_node'[u] = this_node[u] /\ Walk(u)
      BY <1>2, <2>2 DEF Index, Walks
    <3>2. pc[u] \in Putting /\ op[u].type = "put" => op[u].k # op[t].k
      BY <1>0, <2>2, LockExcludes DEF Putting
    <3>3. \A m \in 1 .. brk' : m \in 1 .. brk \/ m = n
      BY <1>1, <1>2
    <3>4. heap'[n].k = op[t].k
      BY <1>2
    <3>5. pc[u] \in {"write", "read"} => this_node[u] \in 1 .. brk
      BY <3>1 DEF Walk, Published
    <3>6. pc[u] = "link" => op[u].type = "put"
      BY DEF Calls
    <3>7. 1 .. brk \subseteq 1 .. brk'
      BY <1>1, <1>2
    <3> HIDE DEF n
    <3>8. pc'[u] = "walk" => this_node'[u] \in Published(Index(u))' \cup {NULL}
      BY <1>7, <3>1 DEF Walk
    <3>9. pc'[u] = "walk" /\ op'[u].type = "put" =>
            \A m \in 1 .. brk' : heap'[m].k = op'[u].k => m <= this_node'[u]
      BY <1>2, <3>1, <3>2, <3>3, <3>4 DEF Walk, Putting
    <3>10. pc'[u] = "link" => \A m \in 1 .. brk' : heap'[m].k # op'[u].k
      BY <1>2, <3>1, <3>2, <3>3, <3>4, <3>6 DEF Walk, Putting
    <3>11. pc'[u] \in {"write", "read"} =>
             this_node'[u] \in Published(Index(u))' /\ heap'[this_node'[u]].k = op'[u].k
      BY <1>2, <1>7, <3>1, <3>5 DEF Walk
    <3>12. pc'[u] = "publish" =>
             /\ this_node'[u] \in 1 .. brk'
             /\ heap'[this_node'[u]] = [k |-> op'[u].k, v |-> op'[u].v, next |-> v_head'[Index(u)']]
             /\ \A m \in Published(Index(u))' : m < this_node'[u]
      BY <1>2, <1>7, <3>1, <3>7 DEF Walk
    <3> QED
      BY <3>8, <3>9, <3>10, <3>11, <3>12 DEF Walk
  <2> QED
    BY <2>1, <2>2
<1> QED
  BY <1>3, <1>4, <1>5, <1>6, <1>8, <1>9 DEF Walks

\* What publishing changes: one bucket gains the node, which is its newest.
LEMMA PublishNode ==
  ASSUME IInv, NEW t \in Threads, Publish(t)
  PROVE  /\ pc[t] = "publish" /\ op[t].type = "put" /\ Index(t) \in Buckets
         /\ this_node[t] \in 1 .. brk
         /\ heap[this_node[t]] = [k |-> op[t].k, v |-> op[t].v, next |-> v_head[Index(t)]]
         /\ \A m \in Published(Index(t)) : m < this_node[t]
         /\ \A b : Published(b)' = IF b = Index(t) THEN Published(b) \cup {this_node[t]}
                                                   ELSE Published(b)
<1> USE DEF IInv
<1> DEFINE n == this_node[t]
<1>1. pc[t] = "publish" /\ op[t].type = "put" /\ Index(t) \in Buckets
  BY IndexInBuckets DEF TypeOK, Publish, Goto, Calls
<1>2. /\ n \in 1 .. brk
      /\ heap[n] = [k |-> op[t].k, v |-> op[t].v, next |-> v_head[Index(t)]]
      /\ \A m \in Published(Index(t)) : m < n
  BY <1>1 DEF Walks, Walk
<1>3. \A u \in Threads : pc[u] = "publish" /\ this_node[u] = n => u = t
  <2> SUFFICES ASSUME NEW u \in Threads, pc[u] = "publish", this_node[u] = n, u # t
               PROVE  FALSE
    OBVIOUS
  <2>1. op[u].type = "put" /\ heap[n] = [k |-> op[u].k, v |-> op[u].v, next |-> v_head[Index(u)]]
    BY DEF Calls, Walks, Walk
  <2>2. op[u].k = op[t].k
    BY <1>2, <2>1
  <2> QED
    BY <1>1, <2>1, <2>2, LockExcludes DEF Putting
<1>4. /\ pc'[t] = "unlock" /\ \A u \in Threads \ {t} : pc'[u] = pc[u]
      /\ heap' = heap /\ brk' = brk /\ this_node' = this_node
  BY DEF TypeOK, Publish, Goto
<1>5. hash_function(heap[n].k, Size) = Index(t)
  BY <1>2 DEF Index
<1>6. \A m : (\A u \in Threads : ~(pc'[u] = "publish" /\ this_node'[u] = m))
              <=> m = n \/ (\A u \in Threads : ~(pc[u] = "publish" /\ this_node[u] = m))
  BY <1>1, <1>3, <1>4
<1> HIDE DEF n
<1>7. ASSUME NEW b, b = Index(t)
      PROVE  Published(b)' = Published(b) \cup {n}
  BY <1>2, <1>4, <1>5, <1>6, <1>7 DEF Published
<1>8. ASSUME NEW b, b # Index(t)
      PROVE  Published(b)' = Published(b)
  BY <1>4, <1>5, <1>6, <1>8 DEF Published
<1> QED
  BY <1>1, <1>2, <1>7, <1>8 DEF n

\* put makes its node the head of the list.
LEMMA PublishInv ==
  ASSUME IInv, NEW t \in Threads, Publish(t)
  PROVE  IInv'
<1> USE DEF IInv
<1> DEFINE n == this_node[t]
           i == Index(t)
<1>0. /\ pc[t] = "publish" /\ op[t].type = "put" /\ i \in Buckets /\ n \in 1 .. brk
      /\ heap[n] = [k |-> op[t].k, v |-> op[t].v, next |-> v_head[i]]
      /\ \A m \in Published(i) : m < n
      /\ \A b : Published(b)' = IF b = i THEN Published(b) \cup {n} ELSE Published(b)
  BY PublishNode
<1>1. /\ pc'[t] = "unlock" /\ \A u \in Threads \ {t} : pc'[u] = pc[u]
      /\ heap' = heap /\ brk' = brk /\ this_node' = this_node /\ op' = op
      /\ v_head'[i] = n /\ \A b \in Buckets \ {i} : v_head'[b] = v_head[b]
      /\ \A u \in Threads : Index(u)' = Index(u) /\ Index(u) \in Buckets
  BY <1>0, IndexInBuckets DEF TypeOK, Publish, Goto, Index
<1>2. TypeOK'
  BY <1>0 DEF TypeOK, Publish, Goto, Labels
<1>3. Calls'
  BY DEF TypeOK, Calls, Publish, Goto
<1>4. Locks'
  BY DEF TypeOK, Locks, Putting, Index, Publish, Goto
<1>5. Distinct'
  BY <1>1 DEF Distinct
<1>6. ChainsWellFormed'
  <2>1. ASSUME NEW b \in Buckets
        PROVE  /\ IsNewest(v_head'[b], Published(b)')
               /\ \A m \in Published(b)' :
                    /\ IsNewest(heap'[m].next, {j \in Published(b)' : j < m})
                    /\ \A j \in Published(b)' : heap'[j].k = heap'[m].k => j = m
    <3>1. /\ IsNewest(v_head[b], Published(b))
          /\ \A m \in Published(b) :
               /\ IsNewest(heap[m].next, {j \in Published(b) : j < m})
               /\ \A j \in Published(b) : heap[j].k = heap[m].k => j = m
      BY DEF ChainsWellFormed
    <3>2. CASE b # i
      BY <1>0, <1>1, <3>1, <3>2
    <3>3. CASE b = i
      <4>0. Published(b)' = Published(b) \cup {n} /\ \A m \in Published(b) : m < n
        BY <1>0, <3>3
      <4> HIDE DEF n, i
      <4>1. \A m \in Published(b)' : m \in 1 .. brk
        BY <1>0, <3>3 DEF Published
      <4>2. IsNewest(v_head'[b], Published(b)')
        BY <1>0, <1>1, <3>3, <4>1 DEF IsNewest
      <4>3. \A m \in Published(b) : {j \in Published(b)' : j < m} = {j \in Published(b) : j < m}
        BY <1>0, <4>0, <4>1
      <4>4. {j \in Published(b)' : j < n} = Published(b)
        BY <1>0, <4>0, <4>1
      <4>5. heap[n].next = v_head[b]
        BY <1>0, <3>3
      <4>6. \A m \in Published(b)' : IsNewest(heap'[m].next, {j \in Published(b)' : j < m})
        <5>1. ASSUME NEW m \in Published(b)
              PROVE  IsNewest(heap'[m].next, {j \in Published(b)' : j < m})
          <6>1. IsNewest(heap[m].next, {j \in Published(b) : j < m})
            BY <3>1
          <6>2. {j \in Published(b)' : j < m} = {j \in Published(b) : j < m}
            BY <4>3
          <6> QED
            BY <1>1, <6>1, <6>2
        <5>2. IsNewest(heap'[n].next, {j \in Published(b)' : j < n})
          BY <1>1, <3>1, <4>4, <4>5
        <5> QED
          BY <4>0, <5>1, <5>2
      <4>7. \A m, j \in Published(b)' : heap'[j].k = heap'[m].k => j = m
        BY <1>1, <4>1 DEF Distinct
      <4> QED
        BY <4>2, <4>6, <4>7
    <3> QED
      BY <3>2, <3>3
  <2> QED
    BY <2>1 DEF ChainsWellFormed
<1>7. ASSUME NEW u \in Threads
      PROVE  Walk(u)'
  <2>1. CASE u = t
    BY <1>1, <2>1 DEF Walk
  <2>2. CASE u # t
    <3>1. /\ Index(u)' = Index(u) /\ Index(u) \in Buckets /\ pc'[u] = pc[u] /\ op'[u] = op[u]
          /\ this_node'[u] = this_node[u] /\ Walk(u)
      BY <1>1, <2>2 DEF Walks
    <3>2. pc[u] = "publish" => Index(u) # i
      BY <1>0, <2>2, LockExcludes DEF Putting, Calls
    <3>3. Published(Index(u)) \subseteq Published(Index(u))'
      BY <1>0, <3>1
    <3>4. pc[u] = "publish" => Published(Index(u))' = Published(Index(u)) /\ v_head'[Index(u)] = v_head[Index(u)]
      BY <1>0, <1>1, <3>1, <3>2
    <3> HIDE DEF n, i
    <3> QED
      BY <1>1, <3>1, <3>3, <3>4 DEF Walk
  <2> QED
    BY <2>1, <2>2
<1> QED
  BY <1>2, <1>3, <1>4, <1>5, <1>6, <1>7 DEF Walks

\* put releases the mutex and returns.
LEMMA UnlockInv ==
  ASSUME IInv, NEW t \in Threads, Unlock(t)
  PROVE  IInv'
<1> USE DEF IInv
<1>0. Index(t) \in Buckets /\ pc[t] = "unlock" /\ op[t].type = "put"
  BY IndexInBuckets DEF TypeOK, Unlock, Goto, Calls
<1>1. TypeOK'
  <2>1. brk \in Nat
    BY HashAssumption, FS_CardinalityType DEF TypeOK
  <2> QED
    BY <1>0, <2>1 DEF TypeOK, Unlock, Goto, Labels, NULL
<1>2. Calls'
  BY DEF TypeOK, Calls, Unlock, Goto
<1>3. Locks'
  <2> SUFFICES ASSUME NEW u \in Threads, pc'[u] \in Putting, op'[u].type = "put"
               PROVE  v_locks'[Index(u)'] = u
    BY DEF Locks
  <2>1. u # t /\ pc'[u] = pc[u] /\ op'[u] = op[u]
    BY DEF TypeOK, Unlock, Goto, Putting
  <2>2. Index(u)' = Index(u) /\ Index(u) # Index(t)
    BY <1>0, <2>1, LockExcludes DEF Index, Putting
  <2> QED
    BY <2>1, <2>2, IndexInBuckets DEF TypeOK, Unlock, Locks
<1>4. Quiet(t) /\ Walk(t)'
  BY DEF TypeOK, Quiet, Walk, Unlock, Goto
<1> QED
  BY <1>1, <1>2, <1>3, <1>4, QuietStep

\* get reads the value of the node it found.
LEMMA ReadValueInv ==
  ASSUME IInv, NEW t \in Threads, ReadValue(t)
  PROVE  IInv'
<1> USE DEF IInv
<1>0. this_node[t] \in Nodes
  <2>1. this_node[t] \in 1 .. brk
    BY DEF ReadValue, Goto, Walks, Walk, Published
  <2> QED
    BY <2>1, HashAssumption, FS_CardinalityType DEF TypeOK, Nodes
<1>1. TypeOK'
  BY <1>0 DEF TypeOK, ReadValue, Goto, Labels
<1>2. Calls'
  BY DEF TypeOK, Calls, ReadValue, Goto
<1>3. Locks'
  BY DEF TypeOK, Locks, Putting, Index, ReadValue, Goto
<1>4. Quiet(t) /\ Walk(t)'
  BY DEF TypeOK, Quiet, Walk, ReadValue, Goto
<1> QED
  BY <1>1, <1>2, <1>3, <1>4, QuietStep

\* get returns.
LEMMA GetReturnInv ==
  ASSUME IInv, NEW t \in Threads, GetReturn(t)
  PROVE  IInv'
<1> USE DEF IInv
<1>1. TypeOK'
  <2>1. brk \in Nat
    BY HashAssumption, FS_CardinalityType DEF TypeOK
  <2> QED
    BY <2>1 DEF TypeOK, GetReturn, Goto, Labels, NULL
<1>2. Calls'
  BY DEF TypeOK, Calls, GetReturn, Goto
<1>3. Locks'
  BY DEF TypeOK, Locks, Putting, Index, GetReturn, Goto
<1>4. Quiet(t) /\ Walk(t)'
  BY DEF TypeOK, Quiet, Walk, GetReturn, Goto
<1> QED
  BY <1>1, <1>2, <1>3, <1>4, QuietStep

\* Every statement of put and get preserves the invariant.
LEMMA NextInv == IInv /\ [Next]_vars => IInv'
<1> SUFFICES ASSUME IInv, [Next]_vars PROVE IInv'
  OBVIOUS
<1>1. CASE UNCHANGED vars
  BY <1>1 DEF vars, IInv, TypeOK, Calls, Locks, Distinct, Walks, Walk, ChainsWellFormed,
              Published, Index, IsNewest
<1>2. ASSUME NEW t \in Threads, Step(t)
      PROVE  IInv'
  BY <1>2, LockInv, ReadHeadInv, WalkEndInv, WalkMatchInv, WalkNextInv, WriteValueInv,
     LinkInv, PublishInv, UnlockInv, ReadValueInv, GetReturnInv DEF Step
<1> QED
  BY <1>1, <1>2, CallInv DEF Next

\* The invariant holds in every reachable state.
LEMMA SpecInv == Spec => []IInv
BY InitInv, NextInv, PTL DEF Spec

-----------------------------------------------------------------------------
(* The invariants *)

\* Type correctness of the table; that brk never exceeds the number of keys says
\* that no key is ever allocated twice.
THEOREM TypeCorrect == Spec => []TypeOK
<1>1. IInv => TypeOK
  BY DEF IInv
<1> QED
  BY <1>1, SpecInv, PTL

\* Whatever puts are under way, each bucket is one list of all its published nodes,
\* newest first, without a duplicate key: no insertion is lost or doubled.
THEOREM ListsSound == Spec => []ChainsWellFormed
<1>1. IInv => ChainsWellFormed
  BY DEF IInv
<1> QED
  BY <1>1, SpecInv, PTL

-----------------------------------------------------------------------------
(* The table implements the atomic map *)

\* The value the map has for a key is the one in the key's only published node.
LEMMA StoreAt ==
  ASSUME Distinct, NEW k \in Keys
  PROVE  /\ \A n \in NodeOf(k) : NodeOf(k) = {n} /\ Store[k] = heap[n].v
         /\ NodeOf(k) = {} => Store[k] = 0
<1>1. ASSUME NEW n \in NodeOf(k) PROVE NodeOf(k) = {n}
  <2>1. \A m \in NodeOf(k) : m \in 1 .. brk /\ heap[m].k = k
    BY DEF NodeOf, Published
  <2>2. \A m \in NodeOf(k) : m = n
    BY <2>1 DEF Distinct
  <2> QED
    BY <2>2
<1>2. ASSUME NEW n \in NodeOf(k) PROVE Store[k] = heap[n].v
  <2>1. (CHOOSE m \in NodeOf(k) : TRUE) = n
    BY <1>1
  <2> QED
    BY <1>2, <2>1 DEF Store
<1>3. NodeOf(k) = {} => Store[k] = 0
  BY DEF Store
<1> QED
  BY <1>1, <1>2, <1>3

\* The map is unchanged when the nodes of every key and their values are.
LEMMA StoreSame ==
  ASSUME \A k \in Keys : NodeOf(k)' = NodeOf(k),
         \A k \in Keys : \A n \in NodeOf(k) : heap'[n].v = heap[n].v
  PROVE  Store' = Store
<1>1. ASSUME NEW k \in Keys, NodeOf(k) # {}
      PROVE  heap'[CHOOSE n \in NodeOf(k)' : TRUE].v = heap[CHOOSE n \in NodeOf(k) : TRUE].v
  <2>1. (CHOOSE n \in NodeOf(k) : TRUE) \in NodeOf(k)
    BY <1>1
  <2> QED
    BY <2>1
<1> QED
  BY <1>1 DEF Store

\* When only t changes its stage, the abstract call of t changes and no other.
LEMMA ModeOnly ==
  ASSUME NEW t \in Threads, \A u \in Threads \ {t} : Mode'[u] = Mode[u]
  PROVE  Mode' = [Mode EXCEPT ![t] = Mode'[t]]
BY ZenonT(60) DEF Mode

\* A step that leaves the lists alone leaves the map and the other calls alone.
LEMMA QuietMap ==
  ASSUME NEW t \in Threads, Quiet(t)
  PROVE  /\ \A k : NodeOf(k)' = NodeOf(k)
         /\ Store' = Store
         /\ Mode' = [Mode EXCEPT ![t] = Mode'[t]]
<1>1. \A k : NodeOf(k)' = NodeOf(k)
  BY QuietStep DEF NodeOf, Quiet
<1>2. Store' = Store
  BY <1>1, StoreSame DEF Quiet
<1>3. ASSUME NEW u \in Threads \ {t}
      PROVE  Mode'[u] = Mode[u]
  <2>1. KeyAhead(u)' <=> KeyAhead(u)
    BY <1>1 DEF KeyAhead, Quiet
  <2> QED
    BY <2>1 DEF Mode, Quiet
<1> QED
  BY <1>1, <1>2, <1>3, ModeOnly

\* A thread's stage, read off from where it is.
LEMMA ModeAt ==
  ASSUME NEW t \in Threads, pc[t] \in Labels
  PROVE  /\ pc[t] = "idle" => Mode[t] = "idle"
         /\ pc[t] \in {"unlock", "ret"} => Mode[t] = "done"
         /\ pc[t] \in {"lock", "head", "write", "link", "publish", "read"} => Mode[t] = "called"
         /\ pc[t] = "walk" => Mode[t] = IF op[t].type = "get" /\ ~KeyAhead(t) THEN "done"
                                                                             ELSE "called"
BY DEF Mode, Labels

\* The empty table is the empty map.
LEMMA InitMap == Init => KV!Init
<1> SUFFICES ASSUME Init PROVE KV!Init
  OBVIOUS
<1>1. \A k : NodeOf(k) = {}
  BY DEF Init, NodeOf, Published
<1>2. Store = [k \in Keys |-> 0]
  BY <1>1 DEF Store
<1>3. Mode = [t \in Threads |-> "idle"]
  BY DEF Init, Mode
<1> QED
  BY <1>2, <1>3 DEF Init, KV!Init, NoOp, KV!NoOp

\* The same in the next state.
LEMMA ModeNext ==
  ASSUME NEW t \in Threads, pc'[t] \in Labels
  PROVE  /\ pc'[t] = "idle" => Mode'[t] = "idle"
         /\ pc'[t] \in {"unlock", "ret"} => Mode'[t] = "done"
         /\ pc'[t] \in {"lock", "head", "write", "link", "publish", "read"} => Mode'[t] = "called"
         /\ pc'[t] = "walk" => Mode'[t] = IF op'[t].type = "get" /\ ~KeyAhead(t)' THEN "done"
                                                                               ELSE "called"
BY DEF Mode, Labels

\* A step that changes no stage is invisible in the map.
LEMMA Stutter ==
  ASSUME NEW t \in Threads, Quiet(t), Mode'[t] = Mode[t], UNCHANGED <<op, output>>
  PROVE  UNCHANGED KV!vars
<1>1. Mode' = Mode
  <2>1. Mode' = [Mode EXCEPT ![t] = Mode[t]]
    BY QuietMap
  <2>2. Mode = [u \in Threads |-> Mode[u]]
    BY DEF Mode
  <2> QED
    BY <2>1, <2>2
<1> QED
  BY <1>1, QuietMap DEF KV!vars

\* A call starts.
LEMMA CallMap ==
  ASSUME IInv, IInv', NEW t \in Threads, NEW o \in Ops, Call(t, o)
  PROVE  KV!Call(t, o)
<1>1. /\ Quiet(t) /\ pc[t] = "idle" /\ pc'[t] \in {"lock", "head"}
      /\ pc[t] \in Labels /\ pc'[t] \in Labels
  BY OpFields DEF IInv, TypeOK, Call, Goto, Quiet, Labels
<1>2. Mode[t] = "idle" /\ Mode'[t] = "called"
  BY <1>1, ModeAt, ModeNext
<1> QED
  BY <1>1, <1>2, QuietMap DEF KV!Call, Call

\* Taking the mutex is invisible.
LEMMA LockMap ==
  ASSUME IInv, IInv', NEW t \in Threads, Lock(t)
  PROVE  UNCHANGED KV!vars
<1>1. /\ Quiet(t) /\ pc[t] = "lock" /\ pc'[t] = "head"
      /\ pc[t] \in Labels /\ pc'[t] \in Labels
  BY DEF IInv, TypeOK, Lock, Goto, Quiet, Labels
<1>2. Mode'[t] = Mode[t]
  BY <1>1, ModeAt, ModeNext
<1> QED
  BY <1>1, <1>2, Stutter DEF Lock

\* get takes effect when it reads the head of a list that does not have its key.
LEMMA ReadHeadMap ==
  ASSUME IInv, IInv', NEW t \in Threads, ReadHead(t)
  PROVE  KV!DoGet(t) \/ UNCHANGED KV!vars
<1>1. /\ Quiet(t) /\ pc[t] = "head" /\ pc'[t] = "walk" /\ op' = op /\ output' = output
      /\ pc[t] \in Labels /\ pc'[t] \in Labels /\ this_node'[t] = v_head[Index(t)]
  BY DEF IInv, TypeOK, ReadHead, Goto, Quiet, Labels
<1>2. Mode[t] = "called"
  BY <1>1, ModeAt
<1>3. CASE ~(op[t].type = "get" /\ ~KeyAhead(t)')
  <2>1. Mode'[t] = "called"
    BY <1>1, <1>3, ModeNext
  <2> QED
    BY <1>1, <1>2, <2>1, Stutter
<1>4. CASE op[t].type = "get" /\ ~KeyAhead(t)'
  <2>1. Mode'[t] = "done"
    BY <1>1, <1>4, ModeNext
  <2>2. op[t].k \in Keys /\ Index(t) \in Buckets
    BY <1>1, OpFields, IndexInBuckets DEF IInv, TypeOK, Calls
  <2>3. NodeOf(op[t].k) = {}
    <3>1. ASSUME NEW n \in NodeOf(op[t].k)
          PROVE  n <= v_head[Index(t)]
      <4>1. n \in Published(Index(t))
        BY DEF NodeOf, Index
      <4>2. IsNewest(v_head[Index(t)], Published(Index(t)))
        BY <2>2 DEF IInv, ChainsWellFormed
      <4> QED
        BY <4>1, <4>2 DEF IsNewest
    <3>2. ASSUME NEW n \in NodeOf(op[t].k)
          PROVE  KeyAhead(t)'
      BY <1>1, <3>1, QuietMap DEF KeyAhead
    <3> QED
      BY <1>4, <3>2
  <2>4. Store[op[t].k] = 0
    BY <2>2, <2>3, StoreAt DEF IInv
  <2>5. output[t] = 0 /\ output \in [Threads -> Vals \cup {0}]
    BY <1>1 DEF IInv, Calls, TypeOK
  <2>6. output' = [output EXCEPT ![t] = Store[op[t].k]]
    BY <1>1, <2>4, <2>5
  <2> QED
    BY <1>1, <1>2, <1>4, <2>1, <2>6, QuietMap DEF KV!DoGet
<1> QED
  BY <1>3, <1>4

\* The end of the search is invisible: get took effect earlier, put does later.
LEMMA WalkEndMap ==
  ASSUME IInv, IInv', NEW t \in Threads, WalkEnd(t)
  PROVE  UNCHANGED KV!vars
<1>1. /\ Quiet(t) /\ pc[t] = "walk" /\ pc'[t] = IF op[t].type = "put" THEN "link" ELSE "ret"
      /\ pc[t] \in Labels /\ pc'[t] \in Labels /\ op[t].type \in {"put", "get"}
  BY OpFields DEF IInv, TypeOK, Calls, WalkEnd, Goto, Quiet, Labels
<1>2. ~KeyAhead(t)
  BY DEF WalkEnd, NULL, KeyAhead, NodeOf, Published
<1>3. Mode'[t] = Mode[t]
  BY <1>1, <1>2, ModeAt, ModeNext
<1> QED
  BY <1>1, <1>3, Stutter DEF WalkEnd

\* Finding the key is invisible.
LEMMA WalkMatchMap ==
  ASSUME IInv, IInv', NEW t \in Threads, WalkMatch(t)
  PROVE  UNCHANGED KV!vars
<1>1. /\ Quiet(t) /\ pc[t] = "walk" /\ pc'[t] \in {"write", "read"}
      /\ pc[t] \in Labels /\ pc'[t] \in Labels
  BY DEF IInv, TypeOK, WalkMatch, Goto, Quiet, Labels
<1>2. this_node[t] \in NodeOf(op[t].k)
  BY <1>1 DEF IInv, Walks, Walk, WalkMatch, NodeOf, Index
<1>3. KeyAhead(t)
  <2>1. this_node[t] <= this_node[t]
    BY <1>2 DEF NodeOf, Published
  <2> QED
    BY <1>2, <2>1 DEF KeyAhead
<1>4. Mode'[t] = Mode[t]
  BY <1>1, <1>3, ModeAt, ModeNext
<1> QED
  BY <1>1, <1>4, Stutter DEF WalkMatch

\* Following next keeps the key ahead if it was, and does not bring it back.
LEMMA WalkNextMap ==
  ASSUME IInv, IInv', NEW t \in Threads, WalkNext(t)
  PROVE  UNCHANGED KV!vars
<1> DEFINE n == this_node[t]
           b == Index(t)
<1>1. /\ Quiet(t) /\ pc[t] = "walk" /\ pc'[t] = "walk" /\ op' = op
      /\ pc[t] \in Labels /\ pc'[t] \in Labels /\ this_node'[t] = heap[n].next
      /\ heap[n].k # op[t].k /\ n # NULL
  BY DEF IInv, TypeOK, WalkNext, Quiet, Labels
<1>2. n \in Published(b) /\ b \in Buckets
  BY <1>1, IndexInBuckets DEF IInv, TypeOK, Walks, Walk
<1>3. IsNewest(heap[n].next, {m \in Published(b) : m < n})
  BY <1>2 DEF IInv, ChainsWellFormed
<1>4. n \in Nat /\ heap[n].next \in Nat
  <2>1. n \in Nat
    BY <1>2 DEF Published
  <2>2. heap[n].next \in Published(b) \cup {0}
    BY <1>3 DEF IsNewest, NULL
  <2> QED
    BY <2>1, <2>2 DEF Published
<1>5. ASSUME NEW m \in NodeOf(op[t].k)
      PROVE  m <= n <=> m <= heap[n].next
  <2>1. m \in Published(b) /\ m # n /\ m \in Nat /\ m > 0
    BY <1>1 DEF NodeOf, Index, Published
  <2>2. CASE {j \in Published(b) : j < n} = {} /\ heap[n].next = 0
    BY <1>4, <2>1, <2>2
  <2>3. CASE /\ heap[n].next \in {j \in Published(b) : j < n}
             /\ \A j \in {j \in Published(b) : j < n} : j <= heap[n].next
    BY <1>4, <2>1, <2>3
  <2> QED
    BY <1>3, <2>2, <2>3 DEF IsNewest, NULL
<1>6. KeyAhead(t)' <=> KeyAhead(t)
  BY <1>1, <1>5, QuietMap DEF KeyAhead
<1>7. Mode'[t] = Mode[t]
  BY <1>1, <1>6, ModeAt, ModeNext
<1> QED
  BY <1>1, <1>7, Stutter DEF WalkNext

\* put takes effect when it overwrites the value of the key's node.
LEMMA WriteValueMap ==
  ASSUME IInv, IInv', NEW t \in Threads, WriteValue(t)
  PROVE  KV!DoPut(t)
<1> DEFINE n == this_node[t]
<1>1. /\ pc[t] = "write" /\ pc'[t] = "unlock" /\ op[t].type = "put" /\ op[t].k \in Keys
      /\ pc[t] \in Labels /\ pc'[t] \in Labels
      /\ op' = op /\ output' = output /\ brk' = brk /\ this_node' = this_node
      /\ \A u \in Threads \ {t} : pc'[u] = pc[u]
  BY OpFields DEF IInv, TypeOK, Calls, WriteValue, Goto, Labels
<1>2. n \in 1 .. brk /\ n \in Published(Index(t)) /\ heap[n].k = op[t].k
  BY <1>1 DEF IInv, Walks, Walk, Published
<1>3. /\ 1 .. brk \subseteq Nodes
      /\ \A m \in Nodes : heap'[m].k = heap[m].k
      /\ heap'[n].v = op[t].v
      /\ \A m \in Nodes \ {n} : heap'[m].v = heap[m].v
  <2>1. 1 .. brk \subseteq Nodes
    BY HashAssumption, FS_CardinalityType DEF IInv, TypeOK, Nodes
  <2> QED
    BY <1>2, <2>1 DEF IInv, TypeOK, WriteValue
<1>4. \A k : NodeOf(k)' = NodeOf(k)
  <2>1. \A u \in Threads : pc'[u] = "publish" <=> pc[u] = "publish"
    BY <1>1
  <2>2. \A b : Published(b)' = Published(b)
    BY <1>1, <1>3, <2>1 DEF Published
  <2>3. \A b : Published(b) \subseteq Nodes
    BY <1>3 DEF Published
  <2> QED
    BY <1>3, <2>2, <2>3 DEF NodeOf
<1>5. n \in NodeOf(op[t].k)
  BY <1>2 DEF NodeOf, Index
<1>6. ASSUME NEW k \in Keys
      PROVE  Store'[k] = IF k = op[t].k THEN op[t].v ELSE Store[k]
  <2>1. Store'[k] = IF NodeOf(k) = {} THEN 0 ELSE heap'[CHOOSE m \in NodeOf(k) : TRUE].v
    <3>1. NodeOf(k)' = NodeOf(k)
      BY <1>4
    <3>2. (CHOOSE m \in NodeOf(k)' : TRUE) = (CHOOSE m \in NodeOf(k) : TRUE)
      BY <3>1
    <3>3. Store'[k] = IF NodeOf(k)' = {} THEN 0 ELSE heap'[CHOOSE m \in NodeOf(k)' : TRUE].v
      BY DEF Store
    <3> QED
      BY <3>1, <3>2, <3>3
  <2>2. CASE NodeOf(k) = {}
    BY <1>5, <2>1, <2>2 DEF Store
  <2>3. CASE NodeOf(k) # {}
    <3> DEFINE m == CHOOSE m \in NodeOf(k) : TRUE
    <3>1. m \in NodeOf(k)
      BY <2>3
    <3>2. m \in Nodes /\ heap[m].k = k /\ NodeOf(k) = {m}
      BY <1>3, <3>1, StoreAt DEF NodeOf, Published, IInv
    <3>3. Store[k] = heap[m].v
      BY <2>3 DEF Store
    <3> HIDE DEF m, n
    <3>4. k = op[t].k <=> m = n
      BY <1>2, <1>5, <3>2
    <3> QED
      BY <1>3, <2>1, <2>3, <3>2, <3>3, <3>4 DEF m
  <2> QED
    BY <2>2, <2>3
<1>7. Store' = [Store EXCEPT ![op[t].k] = op[t].v]
  <2>1. Store = [k \in Keys |-> Store[k]] /\ Store' = [k \in Keys |-> Store'[k]]
    BY DEF Store
  <2> QED
    BY <1>6, <2>1
<1>8. Mode' = [Mode EXCEPT ![t] = "done"] /\ Mode[t] = "called"
  <2>1. \A u \in Threads : KeyAhead(u)' <=> KeyAhead(u)
    BY <1>1, <1>4 DEF KeyAhead
  <2>2. \A u \in Threads \ {t} : Mode'[u] = Mode[u]
    BY <1>1, <2>1 DEF Mode
  <2> QED
    BY <1>1, <2>2, ModeOnly, ModeAt, ModeNext
<1> QED
  BY <1>1, <1>7, <1>8 DEF KV!DoPut

\* The new node is invisible until it is published.
LEMMA LinkMap ==
  ASSUME IInv, IInv', NEW t \in Threads, Link(t)
  PROVE  UNCHANGED KV!vars
<1>1. /\ pc[t] = "link" /\ pc'[t] = "publish" /\ pc[t] \in Labels /\ pc'[t] \in Labels
      /\ op' = op /\ output' = output /\ this_node'[t] = brk + 1 /\ brk' = brk + 1
      /\ \A u \in Threads \ {t} : pc'[u] = pc[u] /\ this_node'[u] = this_node[u]
      /\ brk \in Nat
  BY HashAssumption, FS_CardinalityType DEF IInv, TypeOK, Link, Goto, Labels
<1>2. \A m \in 1 .. brk : m # brk + 1 /\ heap'[m] = heap[m]
  <2>1. 1 .. brk \subseteq Nodes
    BY HashAssumption, FS_CardinalityType DEF IInv, TypeOK, Nodes
  <2> QED
    BY <1>1, <2>1 DEF IInv, TypeOK, Link
<1>3. ASSUME NEW b PROVE Published(b)' = Published(b)
  <2>1. \A m \in 1 .. brk : \A u \in Threads :
          (pc'[u] = "publish" /\ this_node'[u] = m) <=> (pc[u] = "publish" /\ this_node[u] = m)
    BY <1>1, <1>2
  <2>2. \A m \in 1 .. brk' : m \in 1 .. brk \/ m = brk + 1
    BY <1>1
  <2>3. 1 .. brk \subseteq 1 .. brk'
    BY <1>1
  <2>4. brk + 1 \notin Published(b)'
    BY <1>1 DEF Published
  <2>5. \A m \in 1 .. brk : m \in Published(b)' <=> m \in Published(b)
    BY <1>2, <2>1, <2>3 DEF Published
  <2>6. Published(b)' \subseteq 1 .. brk /\ Published(b) \subseteq 1 .. brk
    BY <2>2, <2>4 DEF Published
  <2> QED
    BY <2>5, <2>6
<1>4. \A b : Published(b) \subseteq 1 .. brk
  BY DEF Published
<1>5. \A k : NodeOf(k)' = NodeOf(k)
  BY <1>2, <1>3, <1>4 DEF NodeOf
<1>6. Store' = Store
  <2>1. \A k \in Keys : \A n \in NodeOf(k) : heap'[n].v = heap[n].v
    BY <1>2, <1>4 DEF NodeOf
  <2> QED
    BY <1>5, <2>1, StoreSame
<1>7. Mode' = Mode
  <2>1. \A u \in Threads \ {t} : Mode'[u] = Mode[u]
    BY <1>1, <1>5 DEF Mode, KeyAhead
  <2>2. Mode'[t] = Mode[t]
    BY <1>1, ModeAt, ModeNext
  <2>3. Mode = [u \in Threads |-> Mode[u]] /\ Mode' = [u \in Threads |-> Mode'[u]]
    BY DEF Mode
  <2> QED
    BY <2>1, <2>2, <2>3
<1> QED
  BY <1>1, <1>6, <1>7 DEF KV!vars

\* put takes effect when it publishes the node of a new key.  A get that is past
\* the head of the list does not see the node, whose place is before its own.
LEMMA PublishMap ==
  ASSUME IInv, IInv', NEW t \in Threads, Publish(t)
  PROVE  KV!DoPut(t)
<1> DEFINE n == this_node[t]
           x == op[t].k
<1>1. /\ pc[t] = "publish" /\ pc'[t] = "unlock" /\ op[t].type = "put" /\ x \in Keys
      /\ pc[t] \in Labels /\ pc'[t] \in Labels
      /\ op' = op /\ output' = output /\ heap' = heap /\ this_node' = this_node
      /\ \A u \in Threads \ {t} : pc'[u] = pc[u]
  BY OpFields DEF IInv, TypeOK, Calls, Publish, Goto, Labels
<1>2. /\ n \in 1 .. brk /\ heap[n].k = x /\ heap[n].v = op[t].v
      /\ \A m \in Published(Index(t)) : m < n
      /\ \A b : Published(b)' = IF b = Index(t) THEN Published(b) \cup {n} ELSE Published(b)
  <2>1. heap[n] = [k |-> x, v |-> op[t].v, next |-> v_head[Index(t)]]
    BY PublishNode
  <2>2. heap[n].k = x /\ heap[n].v = op[t].v
    BY <2>1
  <2> QED
    BY <2>2, PublishNode
<1>3. NodeOf(x) = {} /\ NodeOf(x)' = {n}
  <2>1. NodeOf(x) = {}
    <3>1. ASSUME NEW m \in NodeOf(x) PROVE FALSE
      <4>1. m \in Published(Index(t)) /\ m \in 1 .. brk /\ heap[m].k = x
        BY DEF NodeOf, Index, Published
      <4>2. m = n
        BY <1>2, <4>1 DEF IInv, Distinct
      <4> QED
        BY <1>2, <4>1, <4>2
    <3> QED
      BY <3>1
  <2>2. x' = x
    BY <1>1
  <2> QED
    BY <1>1, <1>2, <2>1, <2>2 DEF NodeOf, Index
<1>4. \A k : k # x => NodeOf(k)' = NodeOf(k)
  BY <1>1, <1>2 DEF NodeOf
<1>5. ASSUME NEW k \in Keys
      PROVE  Store'[k] = IF k = x THEN op[t].v ELSE Store[k]
  <2>1. CASE k = x
    <3>1. NodeOf(k)' = {n}
      BY <1>1, <1>3, <2>1
    <3>2. (CHOOSE m \in NodeOf(k)' : TRUE) = n
      BY <3>1
    <3> QED
      BY <1>1, <1>2, <2>1, <3>1, <3>2 DEF Store
  <2>2. CASE k # x
    <3>1. NodeOf(k)' = NodeOf(k)
      BY <1>4, <2>2
    <3>2. (CHOOSE m \in NodeOf(k)' : TRUE) = (CHOOSE m \in NodeOf(k) : TRUE)
      BY <3>1
    <3>3. Store'[k] = IF NodeOf(k)' = {} THEN 0 ELSE heap'[CHOOSE m \in NodeOf(k)' : TRUE].v
      BY DEF Store
    <3> QED
      BY <1>1, <2>2, <3>1, <3>2, <3>3 DEF Store
  <2> QED
    BY <2>1, <2>2
<1>6. Store' = [Store EXCEPT ![x] = op[t].v]
  <2>1. Store = [k \in Keys |-> Store[k]] /\ Store' = [k \in Keys |-> Store'[k]]
    BY DEF Store
  <2> QED
    BY <1>5, <2>1
<1>7. ASSUME NEW u \in Threads, pc[u] = "walk"
      PROVE  KeyAhead(u)' <=> KeyAhead(u)
  <2>1. CASE op[u].k # x
    BY <1>1, <1>4, <2>1 DEF KeyAhead
  <2>2. CASE op[u].k = x
    <3>1. this_node[u] \in Published(Index(t)) \cup {NULL}
      BY <1>7, <2>2 DEF IInv, Walks, Walk, Index
    <3>2. ~(n <= this_node[u])
      BY <1>2, <3>1 DEF NULL, Published
    <3>3. NodeOf(op[u].k) = {} /\ NodeOf(op[u].k)' = {n}
      BY <1>1, <1>3, <2>2
    <3> QED
      BY <1>1, <3>2, <3>3 DEF KeyAhead
  <2> QED
    BY <2>1, <2>2
<1>8. Mode' = [Mode EXCEPT ![t] = "done"] /\ Mode[t] = "called"
  <2>1. \A u \in Threads \ {t} : Mode'[u] = Mode[u]
    BY <1>1, <1>7 DEF Mode
  <2> QED
    BY <1>1, <2>1, ModeOnly, ModeAt, ModeNext
<1> QED
  BY <1>1, <1>6, <1>8 DEF KV!DoPut

\* put returns.
LEMMA UnlockMap ==
  ASSUME IInv, IInv', NEW t \in Threads, Unlock(t)
  PROVE  KV!Return(t)
<1>1. /\ Quiet(t) /\ pc[t] = "unlock" /\ pc'[t] = "idle"
      /\ pc[t] \in Labels /\ pc'[t] \in Labels
  BY DEF IInv, TypeOK, Unlock, Goto, Quiet, Labels
<1>2. Mode[t] = "done" /\ Mode'[t] = "idle"
  BY <1>1, ModeAt, ModeNext
<1>3. output' = [output EXCEPT ![t] = 0]
  BY <1>1 DEF IInv, TypeOK, Calls, Unlock
<1> QED
  BY <1>1, <1>2, <1>3, QuietMap DEF KV!Return, Unlock, NoOp, KV!NoOp

\* get takes effect when it reads the value of the node it found.
LEMMA ReadValueMap ==
  ASSUME IInv, IInv', NEW t \in Threads, ReadValue(t)
  PROVE  KV!DoGet(t)
<1>1. /\ Quiet(t) /\ pc[t] = "read" /\ pc'[t] = "ret" /\ op[t].type = "get" /\ op[t].k \in Keys
      /\ pc[t] \in Labels /\ pc'[t] \in Labels
  BY OpFields DEF IInv, TypeOK, Calls, ReadValue, Goto, Quiet, Labels
<1>2. Mode[t] = "called" /\ Mode'[t] = "done"
  BY <1>1, ModeAt, ModeNext
<1>3. this_node[t] \in NodeOf(op[t].k)
  BY <1>1 DEF IInv, Walks, Walk, NodeOf, Index
<1>4. Store[op[t].k] = heap[this_node[t]].v
  BY <1>1, <1>3, StoreAt DEF IInv
<1> QED
  BY <1>1, <1>2, <1>4, QuietMap DEF KV!DoGet, ReadValue

\* get returns.
LEMMA GetReturnMap ==
  ASSUME IInv, IInv', NEW t \in Threads, GetReturn(t)
  PROVE  KV!Return(t)
<1>1. /\ Quiet(t) /\ pc[t] = "ret" /\ pc'[t] = "idle"
      /\ pc[t] \in Labels /\ pc'[t] \in Labels
  BY DEF IInv, TypeOK, GetReturn, Goto, Quiet, Labels
<1>2. Mode[t] = "done" /\ Mode'[t] = "idle"
  BY <1>1, ModeAt, ModeNext
<1> QED
  BY <1>1, <1>2, QuietMap DEF KV!Return, GetReturn, NoOp, KV!NoOp

\* Every step of the table is a step of the atomic map or invisible in it.
LEMMA NextMap == IInv /\ IInv' /\ [Next]_vars => [KV!Next]_(KV!vars)
<1> SUFFICES ASSUME IInv, IInv', [Next]_vars PROVE [KV!Next]_(KV!vars)
  OBVIOUS
<1>1. CASE UNCHANGED vars
  BY <1>1 DEF vars, KV!vars, Store, Mode, KeyAhead, NodeOf, Published
<1>2. ASSUME NEW t \in Threads, NEW o \in Ops, Call(t, o)
      PROVE  KV!Next
  BY <1>2, CallMap DEF KV!Next, Ops, KV!Ops
<1>3. ASSUME NEW t \in Threads, Step(t)
      PROVE  KV!Next \/ UNCHANGED KV!vars
  BY <1>3, LockMap, ReadHeadMap, WalkEndMap, WalkMatchMap, WalkNextMap, WriteValueMap,
     LinkMap, PublishMap, UnlockMap, ReadValueMap, GetReturnMap DEF Step, KV!Next
<1> QED
  BY <1>1, <1>2, <1>3 DEF Next

\* put and get are linearizable for any numbers of threads, keys and buckets: each
\* call takes effect at one step between its start and its return, although get
\* takes no lock.
THEOREM TableLinearizable == Spec => Linearizable
BY SpecInv, InitMap, NextMap, PTL DEF Spec, Linearizable, KV!Spec
=============================================================================

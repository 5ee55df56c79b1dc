------------------------------ MODULE AtomicKV ------------------------------
(***************************************************************************)
(* What kv_store.c promises of put and get: an atomic map from keys to     *)
(* values, in which a key never put has the value 0 (get returns 0 for a   *)
(* key it does not find).  A call takes effect in one step between its     *)
(* invocation and its return; whatever implements this is linearizable.    *)
(***************************************************************************)
EXTENDS Naturals

CONSTANTS Threads, Keys, Vals

VARIABLES store,  \* the map
          mode,   \* "idle", "called" or "done"
          op,     \* the operation each thread has called
          ret     \* the value a completed get returns

vars == <<store, mode, op, ret>>

Ops == [type : {"put"}, k : Keys, v : Vals]
         \cup [type : {"get"}, k : Keys, v : {0}]
NoOp == [type |-> "none", k |-> 0, v |-> 0]

Init == /\ store = [k \in Keys |-> 0]
        /\ mode = [t \in Threads |-> "idle"]
        /\ op = [t \in Threads |-> NoOp]
        /\ ret = [t \in Threads |-> 0]

Call(t, o) == /\ mode[t] = "idle"
              /\ mode' = [mode EXCEPT ![t] = "called"]
              /\ op' = [op EXCEPT ![t] = o]
              /\ UNCHANGED <<store, ret>>

DoPut(t) == /\ mode[t] = "called" /\ op[t].type = "put"
            /\ store' = [store EXCEPT ![op[t].k] = op[t].v]
            /\ mode' = [mode EXCEPT ![t] = "done"]
            /\ UNCHANGED <<op, ret>>

DoGet(t) == /\ mode[t] = "called" /\ op[t].type = "get"
            /\ ret' = [ret EXCEPT ![t] = store[op[t].k]]
            /\ mode' = [mode EXCEPT ![t] = "done"]
            /\ UNCHANGED <<store, op>>

Return(t) == /\ mode[t] = "done"
             /\ mode' = [mode EXCEPT ![t] = "idle"]
             /\ op' = [op EXCEPT ![t] = NoOp]
             /\ ret' = [ret EXCEPT ![t] = 0]
             /\ UNCHANGED store

Next == \E t \in Threads : \/ \E o \in Ops : Call(t, o)
                           \/ DoPut(t) \/ DoGet(t) \/ Return(t)

Spec == Init /\ [][Next]_vars
=============================================================================

------------------------------ MODULE KVSystem ------------------------------
(***************************************************************************)
(* The whole of p6: the client's threads (client.c), the shared ring, the  *)
(* server's threads and the hash table (kv_store.c), and the status board  *)
(* in shared memory through which answers come back.                       *)
(*                                                                         *)
(* The ring and the table enter through what they promise, the modules     *)
(* BoundedQueue and AtomicKV, which RingBuffer and HashTable are shown to  *)
(* implement.  A client thread keeps at most win_size requests in flight;  *)
(* request number i of a thread is answered in slot i % win_size of its    *)
(* part of the board.                                                      *)
(***************************************************************************)
EXTENDS Naturals, Sequences, FiniteSets

CONSTANTS Servers,   \* the server's threads
          RingSize,  \* RING_SIZE
          Keys, Vals,
          MAX_THREADS,
          Garbage,   \* a value read from memory nobody wrote
          Configs    \* [num_threads, win_size, requests]: the command lines and
                     \* workloads considered

Tids == 0 .. MAX_THREADS - 1
Types == {"PUT", "GET", "BAD"}    \* BAD stands for every other value of req_type
Word == Keys \cup Vals \cup {0, Garbage}    \* what a key or value field can hold

ASSUME SystemAssumption ==
  /\ RingSize \in Nat \ {0}
  /\ MAX_THREADS \in Nat /\ Servers \cap Tids = {}
  /\ Garbage \notin Nat
  /\ \A f \in Configs :
       /\ f.num_threads \in 1 .. MAX_THREADS /\ f.win_size \in Nat \ {0}
       /\ f.requests \in Seq([t : Types, k : Word, v : Word])
       /\ \A i \in 1 .. Len(f.requests) :
            f.requests[i].t \in {"PUT", "GET"} => f.requests[i].k \in Keys

NoDesc == [req_type |-> "NONE", k |-> 0, v |-> 0, res_off |-> <<0, 0>>]
NoResult == [k |-> Garbage, v |-> Garbage]   \* results[] is malloc'ed, not cleared

VARIABLES cfg,                         \* client.c's globals; fixed by Init
          cpc,                         \* where each client thread is
          last_submitted, last_completed, nxt_comp,
          res,                         \* res[c][i]: the thread's part of results[]
          comps,                       \* comps[c][i]: the status board
          q, rmode, rval,              \* the ring: BoundedQueue's variables
          store, kmode, kop, kret,     \* the table: AtomicKV's variables
          spc,                         \* where each server thread is
          sbd,                         \* thread_function's local bd
          killed                       \* main has sent SIGKILL to the server

clientVars == <<cpc, last_submitted, last_completed, nxt_comp, res>>
ringVars   == <<q, rmode, rval>>
tableVars  == <<store, kmode, kop, kret>>
serverVars == <<spc, sbd>>
vars == <<cfg, clientVars, comps, ringVars, tableVars, serverVars, killed>>

num_threads == cfg.num_threads
win_size    == cfg.win_size
requests    == cfg.requests
Clients     == 0 .. num_threads - 1      \* the threads started

Ring == INSTANCE BoundedQueue WITH
          Producers <- Tids, Consumers <- Servers, Items <- {}, NoItem <- NoDesc,
          Capacity <- RingSize, mode <- rmode, val <- rval

Table == INSTANCE AtomicKV WITH
           Threads <- Servers, mode <- kmode, op <- kop, ret <- kret

\* start_threads: each thread gets an equal contiguous part; what is left over
\* of the division is given to nobody.
NumReqs == Len(requests) \div num_threads
Req(c, i) == requests[c * NumReqs + i + 1]
ReqIdx == 0 .. NumReqs - 1
Window == 0 .. win_size - 1

\* The tests of the two loops of thread_function: submit while requests are left,
\* then only collect completions.
LoopTest(submitted, completed) == IF submitted < NumReqs THEN "submit"
                                  ELSE IF completed < NumReqs THEN "comps" ELSE "done"

Init == /\ cfg \in Configs
        /\ cpc = [c \in Clients |-> LoopTest(0, 0)]
        /\ last_submitted = [c \in Clients |-> 0]
        /\ last_completed = [c \in Clients |-> 0]
        /\ nxt_comp = [c \in Clients |-> 0]
        /\ res = [c \in Clients |-> [i \in ReqIdx |-> NoResult]]
        /\ comps = [c \in Clients |-> [i \in Window |-> [k |-> 0, v |-> 0, ready |-> 0]]]
        /\ Ring!Init /\ Table!Init
        /\ spc = [s \in Servers |-> "get"]
        /\ sbd = [s \in Servers |-> NoDesc]
        /\ killed = FALSE

-----------------------------------------------------------------------------
(* Mutants: plausible slips in client.c and kv_store.c. *)

\* submit_reqs compares with <= win_size: one request too many in flight.
RoomOneMore(c) == last_submitted[c] - last_completed[c] <= win_size

-----------------------------------------------------------------------------
(* A client thread.  cpc: "submit" is the loop of submit_reqs, "ring" the    *)
(* call of ring_submit, "comps" the loop of process_completions.             *)

Room(c) == last_submitted[c] - last_completed[c] < win_size

Descriptor(c) == LET r == Req(c, last_submitted[c])
                 IN  [req_type |-> r.t, k |-> r.k, v |-> r.v,
                      res_off |-> <<c, last_submitted[c] % win_size>>]

SubmitReq(c) == /\ cpc[c] = "submit"
                /\ Room(c) /\ last_submitted[c] < NumReqs
                /\ Ring!SubmitCall(c, Descriptor(c))
                /\ cpc' = [cpc EXCEPT ![c] = "ring"]
                /\ UNCHANGED <<cfg, last_submitted, last_completed, nxt_comp, res,
                               comps, tableVars, serverVars, killed>>

RingEnq(c) == /\ Ring!Enq(c)
              /\ UNCHANGED <<cfg, clientVars, comps, tableVars, serverVars, killed>>

SubmitReturn(c) == /\ cpc[c] = "ring"
                   /\ Ring!Return(c)
                   /\ last_submitted' = [last_submitted EXCEPT ![c] = @ + 1]
                   /\ cpc' = [cpc EXCEPT ![c] = "submit"]
                   /\ UNCHANGED <<cfg, last_completed, nxt_comp, res, comps,
                                  tableVars, serverVars, killed>>

SubmitEnd(c) == /\ cpc[c] = "submit"
                /\ ~(Room(c) /\ last_submitted[c] < NumReqs)
                /\ cpc' = [cpc EXCEPT ![c] = "comps"]
                /\ UNCHANGED <<cfg, last_submitted, last_completed, nxt_comp, res,
                               comps, ringVars, tableVars, serverVars, killed>>

\* The slot is the thread's own once ready is set (see BoardExclusive), so the
\* reset and the copy are one step.
Complete(c) == LET n == nxt_comp[c] IN
  /\ cpc[c] = "comps"
  /\ comps[c][n].ready = 1
  /\ comps' = [comps EXCEPT ![c][n].ready = 0]
  /\ res' = [res EXCEPT ![c][last_completed[c]] = [k |-> comps[c][n].k,
                                                   v |-> comps[c][n].v]]
  /\ last_completed' = [last_completed EXCEPT ![c] = @ + 1]
  /\ nxt_comp' = [nxt_comp EXCEPT ![c] = (n + 1) % win_size]
  /\ UNCHANGED <<cfg, cpc, last_submitted, ringVars, tableVars, serverVars, killed>>

CompleteEnd(c) == /\ cpc[c] = "comps"
                  /\ comps[c][nxt_comp[c]].ready = 0
                  /\ cpc' = [cpc EXCEPT ![c] = LoopTest(last_submitted[c],
                                                         last_completed[c])]
                  /\ UNCHANGED <<cfg, last_submitted, last_completed, nxt_comp, res,
                                 comps, ringVars, tableVars, serverVars, killed>>

ClientStep(c) == \/ SubmitReq(c) \/ RingEnq(c) \/ SubmitReturn(c)
                 \/ SubmitEnd(c) \/ Complete(c) \/ CompleteEnd(c)

-----------------------------------------------------------------------------
(* More mutants *)

\* The server sets ready together with the copy of the request, before the
\* request has been executed.
CopyReadyEarly(s) ==
  LET d == rval[s] IN
  comps' = [comps EXCEPT ![d.res_off[1]][d.res_off[2]] =
              [k |-> d.k, v |-> d.v, ready |-> 1]]

\* The server answers in the first slot of the thread's board.
CopyFirstSlot(s) ==
  LET d == rval[s] IN
  comps' = [comps EXCEPT ![d.res_off[1]][0] = [k |-> d.k, v |-> d.v, ready |-> 0]]

\* result->v = get(bd.k) loses its left-hand side.
ServerReturnNoValue(s) ==
  /\ spc[s] = "run" /\ Table!Return(s)
  /\ spc' = [spc EXCEPT ![s] = "ready"]
  /\ UNCHANGED <<cfg, clientVars, comps, ringVars, sbd, killed>>

\* The server forgets to set ready for a put.
ServerReadyGetOnly(s) ==
  LET d == sbd[s] IN
  /\ spc[s] = "ready"
  /\ comps' = [comps EXCEPT ![d.res_off[1]][d.res_off[2]].ready =
                 IF d.req_type = "GET" THEN 1 ELSE @]
  /\ spc' = [spc EXCEPT ![s] = "get"]
  /\ sbd' = [sbd EXCEPT ![s] = NoDesc]
  /\ UNCHANGED <<cfg, clientVars, ringVars, tableVars, killed>>

-----------------------------------------------------------------------------
(* A server thread (thread_function of kv_store.c).  spc: "get" before the   *)
(* call of ring_get, "ring" inside it, "run" inside put or get, "ready"      *)
(* before the last assignment, "exited" after an invalid request.            *)

ServerGetCall(s) == /\ spc[s] = "get"
                    /\ Ring!GetCall(s)
                    /\ spc' = [spc EXCEPT ![s] = "ring"]
                    /\ UNCHANGED <<cfg, clientVars, comps, tableVars, sbd, killed>>

RingDeq(s) == /\ Ring!Deq(s)
              /\ UNCHANGED <<cfg, clientVars, comps, tableVars, serverVars, killed>>

\* memcpy(result, &bd, ...): the whole descriptor, its ready flag 0 included.
CopyResult(s) ==
  LET d == rval[s] IN
  comps' = [comps EXCEPT ![d.res_off[1]][d.res_off[2]] =
              [k |-> d.k, v |-> d.v, ready |-> 0]]

\* ring_get returns, the request is copied to its slot, and put or get is called.
ServerRun(s) ==
  LET d == rval[s] IN
  /\ spc[s] = "ring" /\ Ring!Return(s)
  /\ d.req_type \in {"PUT", "GET"}
  /\ sbd' = [sbd EXCEPT ![s] = d]
  /\ CopyResult(s)
  /\ Table!Call(s, IF d.req_type = "PUT" THEN [type |-> "put", k |-> d.k, v |-> d.v]
                                         ELSE [type |-> "get", k |-> d.k, v |-> 0])
  /\ spc' = [spc EXCEPT ![s] = "run"]
  /\ UNCHANGED <<cfg, clientVars, killed>>

\* An invalid request ends the thread; its ready flag is never set.
ServerInvalid(s) ==
  /\ spc[s] = "ring" /\ Ring!Return(s)
  /\ rval[s].req_type \notin {"PUT", "GET"}
  /\ sbd' = [sbd EXCEPT ![s] = rval[s]]
  /\ CopyResult(s)
  /\ spc' = [spc EXCEPT ![s] = "exited"]
  /\ UNCHANGED <<cfg, clientVars, tableVars, killed>>

ServerDo(s) == /\ Table!DoPut(s) \/ Table!DoGet(s)
               /\ UNCHANGED <<cfg, clientVars, comps, ringVars, serverVars, killed>>

ServerReturn(s) ==
  LET d == sbd[s] IN
  /\ spc[s] = "run" /\ Table!Return(s)
  /\ comps' = [comps EXCEPT ![d.res_off[1]][d.res_off[2]].v =
                 IF d.req_type = "GET" THEN kret[s] ELSE @]
  /\ spc' = [spc EXCEPT ![s] = "ready"]
  /\ UNCHANGED <<cfg, clientVars, ringVars, sbd, killed>>

\* bd is dead until the next ring_get overwrites it.
ServerReady(s) ==
  LET d == sbd[s] IN
  /\ spc[s] = "ready"
  /\ comps' = [comps EXCEPT ![d.res_off[1]][d.res_off[2]].ready = 1]
  /\ spc' = [spc EXCEPT ![s] = "get"]
  /\ sbd' = [sbd EXCEPT ![s] = NoDesc]
  /\ UNCHANGED <<cfg, clientVars, ringVars, tableVars, killed>>

ServerStep(s) == /\ ~killed
                 /\ \/ ServerGetCall(s) \/ RingDeq(s) \/ ServerRun(s)
                    \/ ServerInvalid(s) \/ ServerDo(s) \/ ServerReturn(s)
                    \/ ServerReady(s)

-----------------------------------------------------------------------------
(* The client's main: join every thread, then SIGKILL the server (-f). *)

AllDone == \A c \in Clients : cpc[c] = "done"

Kill == /\ AllDone /\ ~killed
        /\ killed' = TRUE
        /\ UNCHANGED <<cfg, clientVars, comps, ringVars, tableVars, serverVars>>

\* The program has ended.
Ended == killed /\ UNCHANGED vars

Next == \/ \E c \in Clients : ClientStep(c)
        \/ \E s \in Servers : ServerStep(s)
        \/ Kill \/ Ended

Spec == Init /\ [][Next]_vars

\* Every thread of both processes is scheduled again and again, and main is.
FairSpec == /\ Spec
            /\ \A c \in Tids : WF_vars(c \in Clients /\ ClientStep(c))
            /\ \A s \in Servers : WF_vars(ServerStep(s))
            /\ WF_vars(Kill)

-----------------------------------------------------------------------------
(* Properties *)

\* The descriptors in flight with a slot still to be written: in a call of
\* ring_submit, in the ring, in a call of ring_get, or with a server thread.
Holders == [ where : {"client"}, i : {c \in Clients : rmode[c] = "called"} ]
             \cup [ where : {"ring"}, i : 1 .. Len(q) ]
             \cup [ where : {"get"}, i : {s \in Servers : rmode[s] = "done"} ]
             \cup [ where : {"run"}, i : {s \in Servers : spc[s] \in {"run", "ready"}} ]

DescOf(h) == CASE h.where = "client" -> rval[h.i]
               [] h.where = "ring"   -> q[h.i]
               [] h.where = "get"    -> rval[h.i]
               [] h.where = "run"    -> sbd[h.i]

\* A slot of the status board belongs to one request at a time: no two requests
\* in flight are to be answered in the same slot, and the slot of a request in
\* flight is not one whose answer the client has yet to collect.
BoardExclusive ==
  \A h \in Holders :
    LET o == DescOf(h).res_off IN
    /\ \A g \in Holders : DescOf(g).res_off = o => g = h
    /\ comps[o[1]][o[2]].ready = 0

Valid == \A i \in 1 .. Len(requests) : requests[i].t \in {"PUT", "GET"}

\* The puts that may decide the answer of thread c's get number i, when no other
\* thread uses its key: those submitted before its completion was needed
\* (j < i + win_size) that no later put, certainly finished before request i was
\* submitted, is certain to have overwritten.
Puts(c, k) == {j \in ReqIdx : Req(c, j).t = "PUT" /\ Req(c, j).k = k}
Allowed(c, i) ==
  LET P == Puts(c, Req(c, i).k)
      before(j) == j + win_size <= i
  IN  {Req(c, j).v : j \in {j \in P : /\ j < i + win_size
                                      /\ ~\E m \in P : j + win_size <= m /\ before(m)}}
        \cup (IF \E j \in P : before(j) THEN {} ELSE {0})
Private(c, k) == \A d \in Clients \ {c}, j \in ReqIdx : Req(d, j).k # k

\* An acknowledged request has its own answer, whichever server thread ran it and
\* in whatever order: the key and, for a put, the value of the request itself;
\* for a get of a key only this thread uses, a value that a put within the window
\* allows.  With a window of 1 that is the value of the last put before it.
AnswersMatch ==
  \A c \in Clients : \A i \in 0 .. last_completed[c] - 1 :
    LET r == Req(c, i) IN
    /\ res[c][i].k = r.k
    /\ r.t = "PUT" => res[c][i].v = r.v
    /\ r.t = "GET" /\ Private(c, r.k) => res[c][i].v \in Allowed(c, i)

\* gen_workload.py's solution: the value of the last put before request i, or 0.
Expected(i) ==
  LET P == {j \in 1 .. i - 1 : requests[j].t = "PUT" /\ requests[j].k = requests[i].k}
  IN  IF P = {} THEN 0 ELSE requests[CHOOSE j \in P : \A m \in P : m <= j].v

\* check_results, the test behind the -c option.
check_results == \A i \in 1 .. Len(requests) :
                   requests[i].t = "GET" => res[0][i - 1].v = Expected(i)

\* README.md and usage(): with -n 1 -w 1 the -c check of the results is
\* meaningful.  It never fails, however many threads the server has.
SyncCheckSucceeds ==
  killed /\ Valid /\ num_threads = 1 /\ win_size = 1 => check_results

\* SIGKILL is sent without any handshake, yet interrupts nothing: the ring is
\* empty, no server thread is executing a request, and the table holds the effect
\* of every put (for a key with one put, its value).
QuiescentAtKill ==
  killed => /\ q = << >>
            /\ \A s \in Servers : kmode[s] = "idle" /\ rmode[s] # "done"
                                  /\ spc[s] \in {"get", "ring"}
            /\ \A c \in Clients, k \in Keys : \A i \in Puts(c, k) :
                 Private(c, k) /\ Puts(c, k) = {i} => store[k] = Req(c, i).v

\* A workload of valid requests is always finished: every client thread gets all
\* its answers and the server is killed.  (An invalid request stops a server
\* thread without an answer, and its client waits for ever.)
AllAnswered == Valid ~> killed
=============================================================================

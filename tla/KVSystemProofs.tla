--------------------------- MODULE KVSystemProofs ---------------------------
(***************************************************************************)
(* Proofs about the whole of p6, for any number of client and server       *)
(* threads, any window, ring and workload.                                 *)
(*                                                                         *)
(* Everything rests on where a request is.  Request i of client thread c   *)
(* is in flight from the call of ring_submit until its answer is           *)
(* collected; at most win_size consecutive ones are, so their numbers      *)
(* differ modulo win_size and each has a slot of its own.  In flight a     *)
(* request is in one place: in a call, in the ring, with a server thread,  *)
(* or answered in its slot.  For the values, a request is executed when    *)
(* the table has carried it out, and what the table holds for a key that   *)
(* only c uses was put by a request which no executed put of c on that key *)
(* follows by a whole window.                                              *)
(***************************************************************************)
EXTENDS KVSystem, Integers, SequenceTheorems, TLAPS

Descs == [req_type : Types \cup {"NONE"}, k : Word, v : Word, res_off : Nat \X Nat]
Answer == [k : Word, v : Word, ready : {0, 1}]
Threads == Tids \cup Servers
Modes == {"idle", "called", "done"}

Typed ==
  /\ cfg \in Configs
  /\ cpc \in [Clients -> {"submit", "ring", "comps", "done"}]
  /\ last_submitted \in [Clients -> Nat] /\ last_completed \in [Clients -> Nat]
  /\ nxt_comp \in [Clients -> Window]
  /\ res \in [Clients -> [ReqIdx -> [k : Word, v : Word]]]
  /\ comps \in [Clients -> [Window -> Answer]]
  /\ q \in Seq(Descs) /\ rmode \in [Threads -> Modes] /\ rval \in [Threads -> Descs]
  /\ store \in [Keys -> Word] /\ kmode \in [Servers -> Modes] /\ kret \in [Servers -> Word]
  /\ DOMAIN kop = Servers
  /\ spc \in [Servers -> {"get", "ring", "run", "ready", "exited"}]
  /\ sbd \in [Servers -> Descs]
  /\ killed \in BOOLEAN

\* One more than the number of the last request that c has begun to submit.
Upper(c) == IF cpc[c] = "ring" THEN last_submitted[c] + 1 ELSE last_submitted[c]

\* The numbers of c's requests in flight.
Flying(c) == last_completed[c] .. Upper(c) - 1

\* Request i of c as submit_reqs writes it.
Desc(c, i) == [req_type |-> Req(c, i).t, k |-> Req(c, i).k, v |-> Req(c, i).v,
               res_off |-> <<c, i % win_size>>]

\* Where the threads are and how far a client has got.
Counting == \A c \in Clients :
  /\ cpc[c] = "ring" <=> rmode[c] # "idle"
  /\ last_completed[c] <= last_submitted[c] /\ Upper(c) <= NumReqs
  /\ Upper(c) <= last_completed[c] + win_size
  /\ nxt_comp[c] = last_completed[c] % win_size
  /\ cpc[c] = "done" => last_completed[c] = NumReqs
  /\ rmode[c] = "called" => rval[c] = Desc(c, last_submitted[c])

ServesAt(s) ==
  /\ spc[s] = "ring" <=> rmode[s] # "idle"
  /\ spc[s] = "run" <=> kmode[s] # "idle"
  /\ spc[s] = "run" => /\ sbd[s].req_type \in {"PUT", "GET"}
                       /\ kop[s] = IF sbd[s].req_type = "PUT"
                                   THEN [type |-> "put", k |-> sbd[s].k, v |-> sbd[s].v]
                                   ELSE [type |-> "get", k |-> sbd[s].k, v |-> 0]
  /\ spc[s] = "exited" => sbd[s].req_type \notin {"PUT", "GET"}
Serving == \A s \in Servers : ServesAt(s)

\* The places of requests in flight and not answered: those of Holders, and the
\* server threads that an invalid request has ended.
Places == [ where : {"client"}, i : {c \in Clients : rmode[c] = "called"} ]
             \cup [ where : {"ring"}, i : 1 .. Len(q) ]
             \cup [ where : {"get"}, i : {s \in Servers : rmode[s] = "done"} ]
             \cup [ where : {"run"}, i : {s \in Servers : spc[s] \in {"run", "ready", "exited"}} ]

Placed == \A h \in Places : \E c \in Clients : \E i \in Flying(c) : DescOf(h) = Desc(c, i)
Apart  == \A g, h \in Places : DescOf(g).res_off = DescOf(h).res_off => g = h
Unanswered == \A h \in Places : comps[DescOf(h).res_off[1]][DescOf(h).res_off[2]].ready = 0
Answered == \A c \in Clients, n \in Window :
              comps[c][n].ready = 1 => \E i \in Flying(c) : n = i % win_size

Stopped == killed => AllDone

Board == Typed /\ Counting /\ Serving /\ Placed /\ Apart /\ Unanswered /\ Answered /\ Stopped

\* The right answer v to request i of c.
RightValue(c, i, v) == /\ Req(c, i).t = "PUT" => v = Req(c, i).v
                       /\ Req(c, i).t = "GET" /\ Private(c, Req(c, i).k) => v \in Allowed(c, i)

\* The request with slot n of c, if there is one, has been executed.
Acted(c, n) ==
  \/ comps[c][n].ready = 1
  \/ \E s \in Servers : /\ sbd[s].res_off = <<c, n>>
                        /\ spc[s] = "ready" \/ (spc[s] = "run" /\ kmode[s] = "done")

\* The table has carried out request i of c.
Executed(c, i) == \/ i < last_completed[c]
                  \/ i \in Flying(c) /\ Acted(c, i % win_size)

\* What the table holds for a key of c's own.
Stored == \A c \in Clients, k \in Keys : Private(c, k) =>
  \/ store[k] = 0 /\ \A j \in Puts(c, k) : ~Executed(c, j)
  \/ \E j \in Puts(c, k) : /\ Executed(c, j) /\ store[k] = Req(c, j).v
                           /\ \A m \in Puts(c, k) : Executed(c, m) => m < j + win_size

\* The answer to request i of c that s prepares in its slot is right so far.
Prepares(s, c, i) ==
  LET a == comps[c][i % win_size] IN
  /\ spc[s] \in {"run", "ready"} => a.k = Req(c, i).k
  /\ spc[s] = "run" /\ Req(c, i).t = "PUT" => a.v = Req(c, i).v
  /\ spc[s] = "run" /\ kmode[s] = "done" /\ Req(c, i).t = "GET" => RightValue(c, i, kret[s])
  /\ spc[s] = "ready" => RightValue(c, i, a.v)

\* The answers on the board and on their way to it.
Waits(c, i) ==
  LET a == comps[c][i % win_size] IN
  /\ a.ready = 1 => a.k = Req(c, i).k /\ RightValue(c, i, a.v)
  /\ \A s \in Servers : sbd[s] = Desc(c, i) => Prepares(s, c, i)
Waiting == \A c \in Clients : \A i \in Flying(c) : Waits(c, i)

\* The answers collected.
Collected == \A c \in Clients : \A i \in 0 .. last_completed[c] - 1 :
  res[c][i].k = Req(c, i).k /\ RightValue(c, i, res[c][i].v)

IInv == Board /\ Stored /\ Waiting /\ Collected

-----------------------------------------------------------------------------
(* Arithmetic *)

\* The remainder of a multiple of w and something smaller than w.
LEMMA ModOf ==
  ASSUME NEW w \in Nat \ {0}, NEW n \in Nat, NEW r \in 0 .. w - 1
  PROVE  (n * w + r) % w = r
OBVIOUS

\* Adding d to i adds d to its remainder, around the window.
LEMMA ModAdd ==
  ASSUME NEW w \in Nat \ {0}, NEW i \in Nat, NEW d \in 0 .. w
  PROVE  /\ i % w \in 0 .. w - 1
         /\ (i + d) % w = IF (i % w) + d < w THEN (i % w) + d ELSE (i % w) + d - w
<1> DEFINE r == i % w
           n == i \div w
<1>1. r \in 0 .. w - 1 /\ n \in Nat /\ i = n * w + r
  OBVIOUS
<1> HIDE DEF r, n
<1>2. CASE r + d < w
  <2>1. r + d \in 0 .. w - 1 /\ i + d = n * w + (r + d)
    BY <1>1, <1>2
  <2>2. (i + d) % w = r + d
    BY <1>1, <2>1, ModOf
  <2> QED
    BY <1>1, <1>2, <2>2 DEF r
<1>3. CASE r + d >= w
  <2>1. r + d - w \in 0 .. w - 1 /\ i + d = (n + 1) * w + (r + d - w)
    BY <1>1, <1>3
  <2>2. n + 1 \in Nat
    BY <1>1
  <2>3. ((n + 1) * w + (r + d - w)) % w = r + d - w
    BY <2>1, <2>2, ModOf
  <2> QED
    BY <1>1, <1>3, <2>1, <2>3 DEF r
<1> QED
  BY <1>1, <1>2, <1>3

\* Fewer than w apart, two numbers differ modulo w.
LEMMA ModDistinct ==
  ASSUME NEW w \in Nat \ {0}, NEW i \in Nat, NEW j \in Nat, i < j, j < i + w
  PROVE  i % w # j % w
<1> DEFINE d == j - i
<1>1. d \in 0 .. w /\ i + d = j /\ 0 < d /\ d < w
  OBVIOUS
<1> HIDE DEF d
<1>2. i % w \in 0 .. w - 1
      /\ (i + d) % w = IF (i % w) + d < w THEN (i % w) + d ELSE (i % w) + d - w
  BY <1>1, ModAdd
<1> DEFINE r == i % w
           t == j % w
<1>3. r \in 0 .. w - 1 /\ t = IF r + d < w THEN r + d ELSE r + d - w
  BY <1>1, <1>2
<1> HIDE DEF r, t
<1>4. r # t
  BY <1>1, <1>3
<1> QED
  BY <1>4 DEF r, t

\* nxt_comp follows last_completed.
LEMMA ModNext ==
  ASSUME NEW w \in Nat \ {0}, NEW i \in Nat
  PROVE  ((i % w) + 1) % w = (i + 1) % w
<1> DEFINE r == i % w
<1>0. 1 \in 0 .. w
  OBVIOUS
<1>1. r \in 0 .. w - 1 /\ (i + 1) % w = IF r + 1 < w THEN r + 1 ELSE r + 1 - w
  BY <1>0, ModAdd
<1> HIDE DEF r
<1>2. CASE r + 1 < w
  BY <1>1, <1>2 DEF r
<1>3. CASE r + 1 >= w
  <2>1. r + 1 = w
    BY <1>1, <1>3
  <2>2. w % w = 0
    OBVIOUS
  <2> QED
    BY <1>1, <2>1, <2>2 DEF r
<1> QED
  BY <1>1, <1>2, <1>3

-----------------------------------------------------------------------------
(* The command line and the workload *)

\* What is known of the parameters of a run.
LEMMA Parameters ==
  ASSUME cfg \in Configs
  PROVE  /\ num_threads \in Nat \ {0} /\ win_size \in Nat \ {0}
         /\ Clients \subseteq Tids /\ Clients \subseteq Nat /\ Clients \cap Servers = {}
         /\ requests \in Seq([t : Types, k : Word, v : Word]) /\ Len(requests) \in Nat
         /\ NumReqs \in Nat /\ num_threads * NumReqs <= Len(requests)
<1>1. num_threads \in 1 .. MAX_THREADS /\ win_size \in Nat \ {0} /\ MAX_THREADS \in Nat
      /\ Servers \cap Tids = {}
  BY SystemAssumption DEF num_threads, win_size
<1>2. requests \in Seq([t : Types, k : Word, v : Word])
  BY SystemAssumption DEF requests
<1>3. Len(requests) \in Nat
  BY <1>2, LenProperties
<1>4. Clients \subseteq Tids /\ Clients \subseteq Nat
  BY <1>1 DEF Clients, Tids
<1> DEFINE L == Len(requests)
           n == num_threads
<1>5. L \in Nat /\ n \in Nat \ {0}
  BY <1>1, <1>3
<1> HIDE DEF L, n
<1>6. L \div n \in Nat /\ n * (L \div n) <= L
  BY <1>5
<1>7. NumReqs \in Nat /\ num_threads * NumReqs <= Len(requests)
  BY <1>6 DEF L, n, NumReqs
<1>8. Clients \cap Servers = {}
  BY <1>1, <1>4
<1> QED
  BY <1>1, <1>2, <1>3, <1>4, <1>7, <1>8

\* Request i of c is a request of the workload.
LEMMA Workload ==
  ASSUME cfg \in Configs, NEW c \in Clients, NEW i \in ReqIdx
  PROVE  /\ c * NumReqs + i + 1 \in 1 .. Len(requests)
         /\ Req(c, i) \in [t : Types, k : Word, v : Word]
         /\ Req(c, i).t \in {"PUT", "GET"} => Req(c, i).k \in Keys
<1> DEFINE n == num_threads
           N == NumReqs
           L == Len(requests)
<1>1. n \in Nat \ {0} /\ N \in Nat /\ L \in Nat /\ n * N <= L /\ c \in 0 .. n - 1 /\ i \in 0 .. N - 1
  BY Parameters DEF Clients, ReqIdx
<1> HIDE DEF n, N, L
<1>2. c * N + i + 1 \in 1 .. L
  <2>1. c \in Nat /\ c + 1 <= n /\ i \in Nat /\ i + 1 <= N
    BY <1>1
  <2>2. PICK e \in Nat : n = c + 1 + e
    <3>1. n - (c + 1) \in Nat /\ n = c + 1 + (n - (c + 1))
      BY <1>1, <2>1
    <3> QED
      BY <3>1
  <2>3. n * N = c * N + N + e * N /\ e * N \in Nat /\ c * N \in Nat
    BY <1>1, <2>1, <2>2
  <2>4. c * N + i + 1 <= n * N
    BY <1>1, <2>1, <2>3
  <2> QED
    BY <1>1, <2>1, <2>3, <2>4
<1>3. requests \in Seq([t : Types, k : Word, v : Word])
  BY Parameters
<1>4. Req(c, i) \in [t : Types, k : Word, v : Word]
  BY <1>2, <1>3, ElementOfSeq DEF Req, N, L
<1>5. Req(c, i).t \in {"PUT", "GET"} => Req(c, i).k \in Keys
  BY <1>2, SystemAssumption DEF Req, requests, N, L
<1> QED
  BY <1>2, <1>4, <1>5 DEF N, L

\* The parameters stay what they are.
LEMMA Fixed ==
  ASSUME cfg' = cfg
  PROVE  /\ win_size' = win_size /\ num_threads' = num_threads /\ requests' = requests
         /\ Clients' = Clients /\ NumReqs' = NumReqs /\ ReqIdx' = ReqIdx /\ Window' = Window
         /\ \A c, i : Req(c, i)' = Req(c, i) /\ Desc(c, i)' = Desc(c, i)
         /\ \A c, k : Private(c, k)' = Private(c, k) /\ Puts(c, k)' = Puts(c, k)
         /\ \A c, i : Allowed(c, i)' = Allowed(c, i)
         /\ \A c, i, v : RightValue(c, i, v)' = RightValue(c, i, v)
<1>1. /\ win_size' = win_size /\ num_threads' = num_threads /\ requests' = requests
      /\ Clients' = Clients /\ NumReqs' = NumReqs /\ ReqIdx' = ReqIdx /\ Window' = Window
  BY DEF win_size, num_threads, requests, Clients, NumReqs, ReqIdx, Window
<1>2. \A c, i : Req(c, i)' = Req(c, i) /\ Desc(c, i)' = Desc(c, i)
  BY <1>1 DEF Req, Desc
<1>3. \A c, k : Private(c, k)' = Private(c, k) /\ Puts(c, k)' = Puts(c, k)
  BY <1>1, <1>2 DEF Private, Puts
<1>4. \A c, i : Allowed(c, i)' = Allowed(c, i)
  BY <1>1, <1>2, <1>3 DEF Allowed
<1>5. \A c, i, v : RightValue(c, i, v)' = RightValue(c, i, v)
  BY <1>2, <1>3, <1>4 DEF RightValue
<1> QED
  BY <1>1, <1>2, <1>3, <1>4, <1>5

-----------------------------------------------------------------------------
(* Requests and places *)

AtClient(c) == [where |-> "client", i |-> c]
AtRing(n)   == [where |-> "ring", i |-> n]
AtGet(s)    == [where |-> "get", i |-> s]
AtRun(s)    == [where |-> "run", i |-> s]

\* The places are of four kinds.
LEMMA PlaceKinds ==
  \A h : h \in Places <=>
    \/ \E c \in Clients : h = AtClient(c) /\ rmode[c] = "called"
    \/ \E n \in 1 .. Len(q) : h = AtRing(n)
    \/ \E s \in Servers : h = AtGet(s) /\ rmode[s] = "done"
    \/ \E s \in Servers : h = AtRun(s) /\ spc[s] \in {"run", "ready", "exited"}
BY DEF Places, AtClient, AtRing, AtGet, AtRun

\* The same after a step.
LEMMA PlaceKindsNext ==
  \A h : h \in Places' <=>
    \/ \E c \in Clients' : h = AtClient(c) /\ rmode'[c] = "called"
    \/ \E n \in 1 .. Len(q') : h = AtRing(n)
    \/ \E s \in Servers : h = AtGet(s) /\ rmode'[s] = "done"
    \/ \E s \in Servers : h = AtRun(s) /\ spc'[s] \in {"run", "ready", "exited"}
BY DEF Places, AtClient, AtRing, AtGet, AtRun

\* Different places are different.
LEMMA PlacesDiffer ==
  \A x, y : /\ AtClient(x) = AtClient(y) => x = y
            /\ AtRing(x) = AtRing(y) => x = y
            /\ AtGet(x) = AtGet(y) => x = y
            /\ AtRun(x) = AtRun(y) => x = y
            /\ AtClient(x) # AtRing(y) /\ AtClient(x) # AtGet(y) /\ AtClient(x) # AtRun(y)
            /\ AtRing(x) # AtGet(y) /\ AtRing(x) # AtRun(y) /\ AtGet(x) # AtRun(y)
BY DEF AtClient, AtRing, AtGet, AtRun

\* What is in each place.
LEMMA DescOfKind ==
  \A x : /\ DescOf(AtClient(x)) = rval[x] /\ DescOf(AtRing(x)) = q[x]
         /\ DescOf(AtGet(x)) = rval[x] /\ DescOf(AtRun(x)) = sbd[x]
BY DEF DescOf, AtClient, AtRing, AtGet, AtRun

\* The same after a step.
LEMMA DescOfKindNext ==
  \A x : /\ DescOf(AtClient(x))' = rval'[x] /\ DescOf(AtRing(x))' = q'[x]
         /\ DescOf(AtGet(x))' = rval'[x] /\ DescOf(AtRun(x))' = sbd'[x]
BY DEF DescOf, AtClient, AtRing, AtGet, AtRun

\* A request is a descriptor.
LEMMA DescType ==
  ASSUME cfg \in Configs, NEW c \in Clients, NEW i \in ReqIdx
  PROVE  Desc(c, i) \in Descs /\ i % win_size \in Window
<1>1. Req(c, i) \in [t : Types, k : Word, v : Word]
  BY Workload
<1>2. win_size \in Nat \ {0} /\ c \in Nat /\ i \in Nat
  BY Parameters DEF ReqIdx
<1>3. i % win_size \in 0 .. win_size - 1
  BY <1>2
<1> QED
  BY <1>1, <1>2, <1>3 DEF Desc, Descs, Window

\* A request in flight is one of the workload, and has a slot that no other one of
\* its thread has.
LEMMA FlyingSlots ==
  ASSUME Typed, Counting, NEW c \in Clients
  PROVE  /\ Upper(c) \in Nat /\ Flying(c) \subseteq ReqIdx
         /\ \A i \in Flying(c) : i % win_size \in Window
         /\ \A i, j \in Flying(c) : i % win_size = j % win_size => i = j
         /\ Upper(c) < last_completed[c] + win_size =>
              \A i \in Flying(c) : i % win_size # Upper(c) % win_size
<1> DEFINE w == win_size
           l == last_completed[c]
           u == Upper(c)
<1>1. cfg \in Configs /\ w \in Nat \ {0} /\ NumReqs \in Nat
  BY Parameters DEF Typed
<1>2. l \in Nat /\ u \in Nat /\ u <= NumReqs /\ u <= l + w
  BY DEF Typed, Counting, Upper
<1>3. Flying(c) = l .. u - 1
  BY DEF Flying
<1> HIDE DEF l, u, w
<1>4. Flying(c) \subseteq ReqIdx
  BY <1>1, <1>2, <1>3 DEF ReqIdx
<1>5. \A i \in Flying(c) : i % w \in Window
  BY <1>1, <1>4, DescType DEF w
<1>6. ASSUME NEW i \in l .. u - 1, NEW j \in l .. u - 1, i % w = j % w PROVE i = j
  <2>1. i \in Nat /\ j \in Nat /\ i < j + w /\ j < i + w
    BY <1>1, <1>2
  <2>2. ~(i < j) /\ ~(j < i)
    BY <1>1, <1>6, <2>1, ModDistinct
  <2> QED
    BY <2>1, <2>2
<1>7. ASSUME u < l + w, NEW i \in l .. u - 1 PROVE i % w # u % w
  <2>1. i \in Nat /\ i < u /\ u < i + w
    BY <1>1, <1>2, <1>7
  <2> QED
    BY <1>1, <1>2, <2>1, ModDistinct
<1> QED
  BY <1>2, <1>3, <1>4, <1>5, <1>6, <1>7 DEF l, u, w

\* The request in a place, in full.
LEMMA InPlace ==
  ASSUME Board, NEW h \in Places
  PROVE  \E c \in Clients : \E i \in Flying(c) :
           /\ DescOf(h) = Desc(c, i) /\ i \in ReqIdx
           /\ DescOf(h).res_off[1] = c /\ DescOf(h).res_off[2] = i % win_size
           /\ i % win_size \in Window /\ comps[c][i % win_size].ready = 0
<1> PICK c \in Clients : \E i \in Flying(c) : DescOf(h) = Desc(c, i)
  BY DEF Board, Placed
<1> PICK i \in Flying(c) : DescOf(h) = Desc(c, i)
  OBVIOUS
<1>1. i \in ReqIdx /\ i % win_size \in Window
  BY FlyingSlots DEF Board
<1>2. DescOf(h).res_off = <<c, i % win_size>>
  BY DEF Desc
<1>3. comps[c][i % win_size].ready = 0
  BY <1>2 DEF Board, Unanswered
<1> QED
  BY <1>1, <1>2, <1>3

-----------------------------------------------------------------------------
(* The board *)

\* No step changes the parameters.
LEMMA ConfigFixed == [Next]_vars => cfg' = cfg
BY DEF Next, vars, ClientStep, ServerStep, SubmitReq, RingEnq, SubmitReturn, SubmitEnd, Complete,
       CompleteEnd, ServerGetCall, RingDeq, ServerRun, ServerInvalid, ServerDo, ServerReturn,
       ServerReady, Kill, Ended

\* The request that ring_get has given to s.
LEMMA Got ==
  ASSUME Board, NEW s \in Servers, rmode[s] = "done"
  PROVE  /\ AtGet(s) \in Places /\ DescOf(AtGet(s)) = rval[s] /\ rval[s] \in Descs
         /\ \E c \in Clients : \E i \in Flying(c) :
              /\ rval[s] = Desc(c, i) /\ i \in ReqIdx /\ i % win_size \in Window
              /\ rval[s].res_off[1] = c /\ rval[s].res_off[2] = i % win_size
              /\ comps[c][i % win_size].ready = 0
<1>1. AtGet(s) \in Places /\ DescOf(AtGet(s)) = rval[s]
  BY PlaceKinds, DescOfKind
<1>2. rval[s] \in Descs
  BY DEF Board, Typed, Threads
<1> QED
  BY <1>1, <1>2, InPlace

\* The request that s executes.
LEMMA Taken ==
  ASSUME Board, NEW s \in Servers, spc[s] \in {"run", "ready", "exited"}
  PROVE  /\ AtRun(s) \in Places /\ DescOf(AtRun(s)) = sbd[s] /\ sbd[s] \in Descs
         /\ \E c \in Clients : \E i \in Flying(c) :
              /\ sbd[s] = Desc(c, i) /\ i \in ReqIdx /\ i % win_size \in Window
              /\ sbd[s].res_off[1] = c /\ sbd[s].res_off[2] = i % win_size
              /\ comps[c][i % win_size].ready = 0
<1>1. AtRun(s) \in Places /\ DescOf(AtRun(s)) = sbd[s]
  BY PlaceKinds, DescOfKind
<1>2. sbd[s] \in Descs
  BY DEF Board, Typed
<1> QED
  BY <1>1, <1>2, InPlace

\* So is the empty descriptor.
LEMMA NoDescType == NoDesc \in Descs
<1>1. 0 \in Word
  BY DEF Word
<1>2. <<0, 0>> \in Nat \X Nat
  OBVIOUS
<1> QED
  BY <1>1, <1>2 DEF NoDesc, Descs

\* Every step preserves the types.
LEMMA TypedNext == Board /\ [Next]_vars => Typed'
<1> SUFFICES ASSUME Board, [Next]_vars PROVE Typed'
  OBVIOUS
<1>0. /\ Typed /\ Counting /\ Serving /\ cfg' = cfg /\ cfg \in Configs /\ win_size \in Nat \ {0}
      /\ Clients' = Clients /\ ReqIdx' = ReqIdx /\ Window' = Window /\ Clients \subseteq Threads
  BY ConfigFixed, Fixed, Parameters DEF Board, Typed, Threads
<1> USE <1>0
<1>1. CASE UNCHANGED vars
  BY <1>1 DEF vars, clientVars, ringVars, tableVars, serverVars, Typed
<1>2. ASSUME NEW c \in Clients, SubmitReq(c) PROVE Typed'
  <2>1. last_submitted[c] \in ReqIdx
    BY <1>2, Parameters DEF SubmitReq, Typed, ReqIdx
  <2>2. Descriptor(c) \in Descs
    BY <2>1, DescType DEF Descriptor, Desc
  <2> QED
    BY <1>2, <2>2 DEF SubmitReq, Ring!SubmitCall, Typed, Modes, tableVars, serverVars
<1>3. ASSUME NEW c \in Clients, RingEnq(c) PROVE Typed'
  <2>1. rval[c] \in Descs
    BY DEF Typed
  <2>2. q' \in Seq(Descs)
    BY <1>3, <2>1 DEF RingEnq, Ring!Enq, Typed
  <2> QED
    BY <1>3, <2>2, NoDescType DEF RingEnq, Ring!Enq, Typed, Modes, clientVars, tableVars, serverVars
<1>4. ASSUME NEW c \in Clients, SubmitReturn(c) PROVE Typed'
  BY <1>4, NoDescType DEF SubmitReturn, Ring!Return, Typed, Modes, tableVars, serverVars
<1>5. ASSUME NEW c \in Clients, SubmitEnd(c) PROVE Typed'
  BY <1>5 DEF SubmitEnd, Typed, ringVars, tableVars, serverVars
<1>6. ASSUME NEW c \in Clients, Complete(c) PROVE Typed'
  <2> DEFINE n == nxt_comp[c]
             a == comps[c][n]
  <2>1. n \in Window /\ a \in Answer
    BY DEF Typed
  <2>2. (n + 1) % win_size \in Window
    BY <2>1 DEF Window
  <2>3. nxt_comp' \in [Clients -> Window] /\ last_completed' \in [Clients -> Nat]
    BY <1>6, <2>2 DEF Complete, Typed
  <2>4. comps' \in [Clients -> [Window -> Answer]]
    BY <1>6, <2>1 DEF Complete, Typed, Answer
  <2>5. res' \in [Clients -> [ReqIdx -> [k : Word, v : Word]]]
    BY <1>6, <2>1 DEF Complete, Typed, Answer
  <2> QED
    BY <1>6, <2>3, <2>4, <2>5 DEF Complete, Typed, ringVars, tableVars, serverVars
<1>7. ASSUME NEW c \in Clients, CompleteEnd(c) PROVE Typed'
  BY <1>7 DEF CompleteEnd, LoopTest, Typed, ringVars, tableVars, serverVars
<1>8. ASSUME NEW s \in Servers, ServerGetCall(s) PROVE Typed'
  BY <1>8 DEF ServerGetCall, Ring!GetCall, Typed, Modes, clientVars, tableVars
<1>9. ASSUME NEW s \in Servers, RingDeq(s) PROVE Typed'
  <2>1. Head(q) \in Descs /\ Tail(q) \in Seq(Descs)
    BY <1>9, HeadTailProperties DEF RingDeq, Ring!Deq, Typed
  <2> QED
    BY <1>9, <2>1 DEF RingDeq, Ring!Deq, Typed, Modes, clientVars, tableVars, serverVars
<1>10. ASSUME NEW s \in Servers, Ring!Return(s), CopyResult(s)
       PROVE  /\ comps' \in [Clients -> [Window -> Answer]] /\ q' \in Seq(Descs) /\ rval[s] \in Descs
              /\ rmode' \in [Threads -> Modes] /\ rval' \in [Threads -> Descs]
  <2>1. rmode[s] = "done"
    BY <1>10 DEF Ring!Return
  <2>2. rval[s] \in Descs
    BY <2>1, Got
  <2> PICK c \in Clients : \E i \in Flying(c) :
        /\ i % win_size \in Window /\ rval[s].res_off[1] = c /\ rval[s].res_off[2] = i % win_size
    BY <2>1, Got
  <2> PICK i \in Flying(c) :
        /\ i % win_size \in Window /\ rval[s].res_off[1] = c /\ rval[s].res_off[2] = i % win_size
    OBVIOUS
  <2>3. comps' = [comps EXCEPT ![c][i % win_size] = [k |-> rval[s].k, v |-> rval[s].v, ready |-> 0]]
    BY <1>10 DEF CopyResult
  <2>4. [k |-> rval[s].k, v |-> rval[s].v, ready |-> 0] \in Answer
    BY <2>2 DEF Descs, Answer
  <2>5. comps' \in [Clients -> [Window -> Answer]]
    BY <2>3, <2>4 DEF Typed
  <2> QED
    BY <1>10, <2>2, <2>5, NoDescType DEF Ring!Return, Typed, Modes
<1>11. ASSUME NEW s \in Servers, ServerRun(s) PROVE Typed'
  BY <1>10, <1>11 DEF ServerRun, Table!Call, Typed, Modes, clientVars
<1>12. ASSUME NEW s \in Servers, ServerInvalid(s) PROVE Typed'
  BY <1>10, <1>12 DEF ServerInvalid, Typed, clientVars, tableVars
<1>13. ASSUME NEW s \in Servers, ServerDo(s) PROVE Typed'
  <2>1. CASE Table!DoPut(s)
    <3>1. /\ spc[s] = "run" /\ kop[s].type = "put"
          /\ store' = [store EXCEPT ![kop[s].k] = kop[s].v]
      BY <2>1 DEF Table!DoPut, Serving, ServesAt, Typed, Modes
    <3>2. sbd[s] \in Descs /\ kop[s].v \in {sbd[s].v, 0}
      BY <3>1 DEF Serving, ServesAt, Typed
    <3>3. kop[s].v \in Word
      BY <3>2 DEF Descs, Word
    <3>4. store' \in [Keys -> Word]
      BY <3>1, <3>3 DEF Typed
    <3> QED
      BY <1>13, <2>1, <3>4 DEF ServerDo, Table!DoPut, Typed, Modes, clientVars, ringVars, serverVars
  <2>2. CASE Table!DoGet(s)
    <3>1. /\ spc[s] = "run" /\ kop[s].k = sbd[s].k /\ sbd[s].req_type \in {"PUT", "GET"}
      BY <2>2 DEF Table!DoGet, Serving, ServesAt, Typed, Modes
    <3>2. sbd[s].k \in Keys
      <4> PICK c \in Clients : \E i \in Flying(c) : sbd[s] = Desc(c, i) /\ i \in ReqIdx
        BY <3>1, Taken
      <4> PICK i \in Flying(c) : sbd[s] = Desc(c, i) /\ i \in ReqIdx
        OBVIOUS
      <4>1. sbd[s].k = Req(c, i).k /\ sbd[s].req_type = Req(c, i).t
        BY DEF Desc
      <4> QED
        BY <3>1, <4>1, Workload
    <3>3. kret' \in [Servers -> Word]
      BY <2>2, <3>1, <3>2 DEF Table!DoGet, Typed
    <3> QED
      BY <1>13, <2>2, <3>3 DEF ServerDo, Table!DoGet, Typed, Modes, clientVars, ringVars, serverVars
  <2> QED
    BY <1>13, <2>1, <2>2 DEF ServerDo
<1>14. ASSUME NEW s \in Servers, spc[s] \in {"run", "ready", "exited"}
       PROVE  \E c \in Clients : \E n \in Window :
                /\ sbd[s].res_off[1] = c /\ sbd[s].res_off[2] = n /\ comps[c][n] \in Answer
  BY <1>14, Taken DEF Typed
<1>15. ASSUME NEW s \in Servers, ServerReturn(s) PROVE Typed'
  <2> PICK c \in Clients, n \in Window :
         sbd[s].res_off[1] = c /\ sbd[s].res_off[2] = n /\ comps[c][n] \in Answer
    BY <1>14, <1>15 DEF ServerReturn
  <2>1. comps' = [comps EXCEPT ![c][n].v = IF sbd[s].req_type = "GET" THEN kret[s] ELSE @]
    BY <1>15 DEF ServerReturn
  <2>2. (IF sbd[s].req_type = "GET" THEN kret[s] ELSE comps[c][n].v) \in Word
    BY DEF Typed, Answer
  <2>3. comps' \in [Clients -> [Window -> Answer]]
    BY <2>1, <2>2 DEF Typed, Answer
  <2>4. 0 \in Word
    BY DEF Word
  <2> QED
    BY <1>15, <2>3, <2>4 DEF ServerReturn, Table!Return, Typed, Modes, clientVars, ringVars
<1>16. ASSUME NEW s \in Servers, ServerReady(s) PROVE Typed'
  <2> PICK c \in Clients, n \in Window :
         sbd[s].res_off[1] = c /\ sbd[s].res_off[2] = n /\ comps[c][n] \in Answer
    BY <1>14, <1>16 DEF ServerReady
  <2>1. comps' = [comps EXCEPT ![c][n].ready = 1]
    BY <1>16 DEF ServerReady
  <2>2. comps' \in [Clients -> [Window -> Answer]]
    BY <2>1 DEF Typed, Answer
  <2> QED
    BY <1>16, <2>2, NoDescType DEF ServerReady, Typed, clientVars, ringVars, tableVars
<1>17. CASE Kill
  BY <1>17 DEF Kill, Typed, clientVars, ringVars, tableVars, serverVars
<1> QED
  BY <1>1, <1>2, <1>3, <1>4, <1>5, <1>6, <1>7, <1>8, <1>9, <1>11, <1>12, <1>13, <1>15, <1>16, <1>17
  DEF Next, ClientStep, ServerStep, Ended

\* The steps of the server leave a client's counters and calls alone.
LEMMA ClientsAlone ==
  ASSUME Board, NEW s \in Servers, ServerStep(s)
  PROVE  /\ UNCHANGED <<cfg, clientVars, killed>>
         /\ \A c \in Clients : rmode'[c] = rmode[c] /\ rval'[c] = rval[c]
<1>1. Clients \subseteq Threads /\ s \notin Clients /\ s \in Threads
      /\ DOMAIN rmode = Threads /\ DOMAIN rval = Threads
  BY Parameters DEF Board, Typed, Threads
<1>2. UNCHANGED <<cfg, clientVars, killed>>
  BY DEF ServerStep, ServerGetCall, RingDeq, ServerRun, ServerInvalid, ServerDo, ServerReturn,
         ServerReady
<1>3. \/ UNCHANGED <<rmode, rval>>
      \/ \E x, y : rmode' = [rmode EXCEPT ![s] = x] /\ rval' = [rval EXCEPT ![s] = y]
      \/ \E x : rmode' = [rmode EXCEPT ![s] = x] /\ rval' = rval
  BY DEF ServerStep, ServerGetCall, RingDeq, ServerRun, ServerInvalid, ServerDo, ServerReturn,
         ServerReady, ringVars, Ring!GetCall, Ring!Deq, Ring!Return
<1>4. \A c \in Clients : rmode'[c] = rmode[c] /\ rval'[c] = rval[c]
  BY <1>1, <1>3
<1> QED
  BY <1>2, <1>4

\* Every step preserves Counting: a thread submits only while there is room in its
\* window, and collects in the order of its requests.
LEMMA CountingNext == Board /\ [Next]_vars => Counting'
<1> SUFFICES ASSUME Board, [Next]_vars PROVE Counting'
  OBVIOUS
<1>0. /\ Typed /\ Counting /\ cfg' = cfg /\ win_size \in Nat \ {0} /\ win_size' = win_size
      /\ Clients' = Clients /\ Clients \subseteq Threads /\ NumReqs \in Nat /\ NumReqs' = NumReqs
      /\ \A c, i : Desc(c, i)' = Desc(c, i)
  BY ConfigFixed, Fixed, Parameters DEF Board, Typed, Threads
<1> USE <1>0
<1>1. ASSUME UNCHANGED <<cpc, last_submitted, last_completed, nxt_comp>>,
             \A c \in Clients : rmode'[c] = rmode[c] /\ rval'[c] = rval[c]
      PROVE  Counting'
  BY <1>1 DEF Counting, Upper
<1>2. CASE UNCHANGED vars
  BY <1>1, <1>2 DEF vars, clientVars, ringVars
<1>3. CASE \E s \in Servers : ServerStep(s)
  BY <1>1, <1>3, ClientsAlone DEF clientVars
<1>4. CASE Kill \/ Ended
  BY <1>1, <1>4 DEF Kill, Ended, vars, clientVars, ringVars
<1>5. ASSUME NEW c \in Clients, SubmitReq(c) PROVE Counting'
  <2>1. /\ cpc[c] = "submit" /\ last_submitted[c] - last_completed[c] < win_size
        /\ last_submitted[c] < NumReqs /\ rmode' = [rmode EXCEPT ![c] = "called"]
        /\ rval' = [rval EXCEPT ![c] = Desc(c, last_submitted[c])]
        /\ cpc' = [cpc EXCEPT ![c] = "ring"]
        /\ UNCHANGED <<last_submitted, last_completed, nxt_comp>>
    BY <1>5 DEF SubmitReq, Ring!SubmitCall, Room, Descriptor, Desc
  <2>2. last_submitted[c] \in Nat /\ last_completed[c] \in Nat
    BY DEF Typed
  <2>3. last_submitted[c] + 1 <= last_completed[c] + win_size /\ last_submitted[c] + 1 <= NumReqs
    BY <2>1, <2>2
  <2>4. \A d \in Clients : d # c => cpc'[d] = cpc[d] /\ rmode'[d] = rmode[d] /\ rval'[d] = rval[d]
    BY <2>1 DEF Typed
  <2>5. cpc'[c] = "ring" /\ rmode'[c] = "called" /\ rval'[c] = Desc(c, last_submitted[c])
    BY <2>1 DEF Typed
  <2> QED
    BY <2>1, <2>3, <2>4, <2>5 DEF Counting, Upper
<1>6. ASSUME NEW c \in Clients, RingEnq(c) PROVE Counting'
  <2>1. /\ rmode[c] = "called" /\ rmode' = [rmode EXCEPT ![c] = "done"]
        /\ rval' = [rval EXCEPT ![c] = NoDesc]
        /\ UNCHANGED <<cpc, last_submitted, last_completed, nxt_comp>>
    BY <1>6 DEF RingEnq, Ring!Enq, clientVars
  <2>2. \A d \in Clients : d # c => rmode'[d] = rmode[d] /\ rval'[d] = rval[d]
    BY <2>1 DEF Typed
  <2>3. rmode'[c] = "done"
    BY <2>1 DEF Typed
  <2> QED
    BY <2>1, <2>2, <2>3 DEF Counting, Upper
<1>7. ASSUME NEW c \in Clients, SubmitReturn(c) PROVE Counting'
  <2>1. /\ cpc[c] = "ring" /\ rmode' = [rmode EXCEPT ![c] = "idle"]
        /\ rval' = [rval EXCEPT ![c] = NoDesc]
        /\ last_submitted' = [last_submitted EXCEPT ![c] = @ + 1]
        /\ cpc' = [cpc EXCEPT ![c] = "submit"] /\ UNCHANGED <<last_completed, nxt_comp>>
    BY <1>7 DEF SubmitReturn, Ring!Return
  <2>2. \A d \in Clients : d # c => /\ cpc'[d] = cpc[d] /\ rmode'[d] = rmode[d]
                                   /\ rval'[d] = rval[d] /\ last_submitted'[d] = last_submitted[d]
    BY <2>1 DEF Typed
  <2>3. /\ cpc'[c] = "submit" /\ rmode'[c] = "idle" /\ last_submitted'[c] = last_submitted[c] + 1
        /\ last_submitted[c] \in Nat /\ last_completed[c] \in Nat
    BY <2>1 DEF Typed
  <2>4. last_completed[c] <= last_submitted[c] + 1
    BY <2>3 DEF Counting
  <2> QED
    BY <2>1, <2>2, <2>3, <2>4 DEF Counting, Upper
<1>8. ASSUME NEW c \in Clients, SubmitEnd(c) PROVE Counting'
  <2>1. /\ cpc[c] = "submit" /\ cpc' = [cpc EXCEPT ![c] = "comps"]
        /\ UNCHANGED <<last_submitted, last_completed, nxt_comp, rmode, rval>>
    BY <1>8 DEF SubmitEnd, ringVars
  <2>2. cpc'[c] = "comps" /\ \A d \in Clients : d # c => cpc'[d] = cpc[d]
    BY <2>1 DEF Typed
  <2> QED
    BY <2>1, <2>2 DEF Counting, Upper
<1>9. ASSUME NEW c \in Clients, Complete(c) PROVE Counting'
  <2>1. /\ cpc[c] = "comps" /\ comps[c][nxt_comp[c]].ready = 1
        /\ last_completed' = [last_completed EXCEPT ![c] = @ + 1]
        /\ nxt_comp' = [nxt_comp EXCEPT ![c] = (nxt_comp[c] + 1) % win_size]
        /\ UNCHANGED <<cpc, last_submitted, rmode, rval>>
    BY <1>9 DEF Complete, ringVars
  <2>2. /\ last_completed'[c] = last_completed[c] + 1
        /\ nxt_comp'[c] = ((last_completed[c] % win_size) + 1) % win_size
        /\ \A d \in Clients : d # c => last_completed'[d] = last_completed[d]
                                       /\ nxt_comp'[d] = nxt_comp[d]
        /\ last_submitted[c] \in Nat /\ last_completed[c] \in Nat
    BY <2>1 DEF Typed, Counting
  <2>3. nxt_comp'[c] = (last_completed[c] + 1) % win_size
    BY <2>2, ModNext
  <2>4. \E i \in Flying(c) : TRUE
    BY <2>1 DEF Board, Answered, Typed
  <2>5. Upper(c) = last_submitted[c]
    BY <2>1 DEF Upper
  <2>6. last_completed[c] + 1 <= last_submitted[c]
    BY <2>2, <2>4, <2>5 DEF Flying
  <2>7. last_submitted[c] <= NumReqs /\ last_submitted[c] <= last_completed[c] + 1 + win_size
    BY <2>2, <2>5 DEF Counting
  <2>8. ASSUME NEW d \in Clients, d # c
        PROVE  /\ cpc[d] = "ring" <=> rmode[d] # "idle"
               /\ last_completed'[d] <= last_submitted[d] /\ Upper(d) <= NumReqs
               /\ Upper(d) <= last_completed'[d] + win_size
               /\ nxt_comp'[d] = last_completed'[d] % win_size
               /\ cpc[d] = "done" => last_completed'[d] = NumReqs
               /\ rmode[d] = "called" => rval[d] = Desc(d, last_submitted[d])
    BY <2>2, <2>8 DEF Counting
  <2>9. \A d \in Clients : Upper(d)' = Upper(d)
    BY <2>1 DEF Upper
  <2>10. /\ cpc[c] # "ring" /\ rmode[c] = "idle"
    BY <2>1 DEF Counting
  <2> QED
    BY <2>1, <2>2, <2>3, <2>5, <2>6, <2>7, <2>8, <2>9, <2>10 DEF Counting
<1>10. ASSUME NEW c \in Clients, CompleteEnd(c) PROVE Counting'
  <2>1. /\ cpc[c] = "comps"
        /\ cpc' = [cpc EXCEPT ![c] = LoopTest(last_submitted[c], last_completed[c])]
        /\ UNCHANGED <<last_submitted, last_completed, nxt_comp, rmode, rval>>
    BY <1>10 DEF CompleteEnd, ringVars
  <2>2. cpc'[c] = LoopTest(last_submitted[c], last_completed[c])
        /\ \A d \in Clients : d # c => cpc'[d] = cpc[d]
    BY <2>1 DEF Typed
  <2>3. cpc'[c] # "ring" /\ Upper(c) = last_submitted[c]
    BY <2>1, <2>2 DEF LoopTest, Upper
  <2>4. last_submitted[c] \in Nat /\ last_completed[c] \in Nat /\ last_submitted[c] <= NumReqs
        /\ last_completed[c] <= last_submitted[c]
    BY <2>3 DEF Typed, Counting
  <2>5. cpc'[c] = "done" => last_completed[c] = NumReqs
    BY <2>2, <2>4 DEF LoopTest
  <2> QED
    BY <2>1, <2>2, <2>3, <2>5 DEF Counting, Upper
<1> QED
  BY <1>2, <1>3, <1>4, <1>5, <1>6, <1>7, <1>8, <1>9, <1>10 DEF Next, ClientStep

\* Every step preserves Serving.
LEMMA ServingNext == Board /\ [Next]_vars => Serving'
<1> SUFFICES ASSUME Board, [Next]_vars PROVE Serving'
  OBVIOUS
<1>0. Typed /\ Serving /\ Clients \subseteq Threads /\ Clients \cap Servers = {} /\ Servers \subseteq Threads
  BY Parameters DEF Board, Typed, Threads
<1> USE <1>0
<1>1. ASSUME UNCHANGED <<spc, sbd, kmode, kop>>, \A s \in Servers : rmode'[s] = rmode[s]
      PROVE  Serving'
  BY <1>1 DEF Serving, ServesAt
<1>2. CASE UNCHANGED vars
  BY <1>1, <1>2 DEF vars, serverVars, tableVars, ringVars
<1>3. ASSUME NEW c \in Clients, ClientStep(c) PROVE Serving'
  <2>1. UNCHANGED <<spc, sbd, kmode, kop>>
    BY <1>3 DEF ClientStep, SubmitReq, RingEnq, SubmitReturn, SubmitEnd, Complete, CompleteEnd,
                serverVars, tableVars
  <2>2. rmode' = rmode \/ \E x : rmode' = [rmode EXCEPT ![c] = x]
    BY <1>3 DEF ClientStep, SubmitReq, RingEnq, SubmitReturn, SubmitEnd, Complete, CompleteEnd,
                ringVars, Ring!SubmitCall, Ring!Enq, Ring!Return
  <2>3. \A s \in Servers : rmode'[s] = rmode[s]
    BY <2>2 DEF Typed
  <2> QED
    BY <1>1, <2>1, <2>3
<1>4. CASE Kill \/ Ended
  BY <1>1, <1>4 DEF Kill, Ended, vars, serverVars, tableVars, ringVars
<1>5. ASSUME NEW s \in Servers, ServerGetCall(s) PROVE Serving'
  BY <1>5 DEF ServerGetCall, Ring!GetCall, Serving, ServesAt, Typed, Modes, tableVars
<1>6. ASSUME NEW s \in Servers, RingDeq(s) PROVE Serving'
  BY <1>6 DEF RingDeq, Ring!Deq, Serving, ServesAt, Typed, Modes, tableVars, serverVars
<1>7. ASSUME NEW s \in Servers, ServerRun(s) PROVE Serving'
  <2>1. /\ spc[s] = "ring" /\ rval[s].req_type \in {"PUT", "GET"}
        /\ rmode' = [rmode EXCEPT ![s] = "idle"] /\ sbd' = [sbd EXCEPT ![s] = rval[s]]
        /\ kmode' = [kmode EXCEPT ![s] = "called"] /\ spc' = [spc EXCEPT ![s] = "run"]
        /\ kop' = [kop EXCEPT ![s] =
             IF rval[s].req_type = "PUT" THEN [type |-> "put", k |-> rval[s].k, v |-> rval[s].v]
                                         ELSE [type |-> "get", k |-> rval[s].k, v |-> 0]]
    BY <1>7 DEF ServerRun, Ring!Return, Table!Call
  <2>2. \A t \in Servers : t # s => /\ spc'[t] = spc[t] /\ sbd'[t] = sbd[t] /\ kmode'[t] = kmode[t]
                                   /\ kop'[t] = kop[t] /\ rmode'[t] = rmode[t]
    BY <2>1 DEF Typed
  <2>3. /\ spc'[s] = "run" /\ sbd'[s] = rval[s] /\ kmode'[s] = "called" /\ rmode'[s] = "idle"
        /\ kop'[s] = IF rval[s].req_type = "PUT" THEN [type |-> "put", k |-> rval[s].k, v |-> rval[s].v]
                                         ELSE [type |-> "get", k |-> rval[s].k, v |-> 0]
    BY <2>1 DEF Typed
  <2> QED
    BY SMTT(60), <2>1, <2>2, <2>3 DEF Serving, ServesAt
<1>8. ASSUME NEW s \in Servers, ServerInvalid(s) PROVE Serving'
  <2>1. /\ spc[s] = "ring" /\ rval[s].req_type \notin {"PUT", "GET"}
        /\ rmode' = [rmode EXCEPT ![s] = "idle"] /\ sbd' = [sbd EXCEPT ![s] = rval[s]]
        /\ spc' = [spc EXCEPT ![s] = "exited"] /\ UNCHANGED <<kmode, kop>>
    BY <1>8 DEF ServerInvalid, Ring!Return, tableVars
  <2>2. \A t \in Servers : t # s => spc'[t] = spc[t] /\ sbd'[t] = sbd[t] /\ rmode'[t] = rmode[t]
    BY <2>1 DEF Typed
  <2>3. spc'[s] = "exited" /\ sbd'[s] = rval[s] /\ rmode'[s] = "idle"
    BY <2>1 DEF Typed
  <2>4. kmode[s] = "idle"
    BY <2>1 DEF Serving, ServesAt
  <2>5. \A t \in Servers : t # s => ServesAt(t)'
    BY <2>1, <2>2 DEF Serving, ServesAt
  <2> QED
    BY <2>1, <2>3, <2>4, <2>5 DEF Serving, ServesAt
<1>9. ASSUME NEW s \in Servers, ServerDo(s) PROVE Serving'
  <2>1. /\ kmode[s] = "called" /\ kmode' = [kmode EXCEPT ![s] = "done"]
        /\ UNCHANGED <<kop, rmode, spc, sbd>>
    BY <1>9 DEF ServerDo, Table!DoPut, Table!DoGet, ringVars, serverVars
  <2> QED
    BY <2>1 DEF Serving, ServesAt, Typed
<1>10. ASSUME NEW s \in Servers, ServerReturn(s) PROVE Serving'
  <2>1. /\ spc[s] = "run" /\ kmode' = [kmode EXCEPT ![s] = "idle"]
        /\ \E x : kop' = [kop EXCEPT ![s] = x]
        /\ spc' = [spc EXCEPT ![s] = "ready"] /\ UNCHANGED <<rmode, sbd>>
    BY <1>10 DEF ServerReturn, Table!Return, ringVars
  <2>2. \A t \in Servers : t # s => spc'[t] = spc[t] /\ kmode'[t] = kmode[t] /\ kop'[t] = kop[t]
    BY <2>1 DEF Typed
  <2>3. spc'[s] = "ready" /\ kmode'[s] = "idle"
    BY <2>1 DEF Typed
  <2> QED
    BY <2>1, <2>2, <2>3 DEF Serving, ServesAt
<1>11. ASSUME NEW s \in Servers, ServerReady(s) PROVE Serving'
  <2>1. /\ spc[s] = "ready" /\ spc' = [spc EXCEPT ![s] = "get"] /\ sbd' = [sbd EXCEPT ![s] = NoDesc]
        /\ UNCHANGED <<kmode, kop, rmode>>
    BY <1>11 DEF ServerReady, ringVars, tableVars
  <2>2. spc'[s] = "get" /\ \A t \in Servers : t # s => spc'[t] = spc[t] /\ sbd'[t] = sbd[t]
    BY <2>1 DEF Typed
  <2>3. kmode[s] = "idle" /\ rmode[s] = "idle"
    BY <2>1 DEF Serving, ServesAt
  <2>4. \A t \in Servers : t # s => ServesAt(t)'
    BY <2>1, <2>2 DEF Serving, ServesAt
  <2> QED
    BY <2>1, <2>2, <2>3, <2>4 DEF Serving, ServesAt
<1> QED
  BY <1>2, <1>3, <1>4, <1>5, <1>6, <1>7, <1>8, <1>9, <1>10, <1>11 DEF Next, ServerStep

\* A client that is done does nothing more, so all stay done once the server is killed.
LEMMA StoppedNext == Board /\ [Next]_vars => Stopped'
<1> SUFFICES ASSUME Board, [Next]_vars PROVE Stopped'
  OBVIOUS
<1>0. Typed /\ Counting /\ Stopped /\ Clients' = Clients
  BY ConfigFixed, Fixed DEF Board
<1>1. ASSUME NEW c \in Clients, ClientStep(c) PROVE cpc[c] # "done" /\ killed' = killed
  BY <1>0, <1>1 DEF ClientStep, SubmitReq, RingEnq, SubmitReturn, SubmitEnd, Complete, CompleteEnd,
                    Ring!Enq, Counting
<1>2. CASE \E c \in Clients : ClientStep(c)
  BY <1>0, <1>1, <1>2 DEF Stopped, AllDone
<1>3. CASE \E s \in Servers : ServerStep(s)
  BY <1>0, <1>3, ClientsAlone DEF Stopped, AllDone, clientVars
<1>4. CASE Kill
  BY <1>0, <1>4 DEF Kill, Stopped, AllDone, clientVars
<1>5. CASE UNCHANGED vars
  BY <1>0, <1>5 DEF Stopped, AllDone, vars, clientVars
<1> QED
  BY <1>2, <1>3, <1>4, <1>5 DEF Next, Ended

\* What the board promises of the slots.
Slots == Placed /\ Apart /\ Unanswered /\ Answered

\* A step that moves requests from place to place, F[h] being where the one now in h
\* was, keeps the slots apart.
LEMMA SlotsMoved ==
  ASSUME Board, cfg' = cfg, \A c \in Clients : Flying(c)' = Flying(c), NEW F,
         \A h \in Places' : F[h] \in Places /\ DescOf(h)' = DescOf(F[h]),
         \A g, h \in Places' : F[g] = F[h] => g = h,
         \A c \in Clients, n \in Window : comps'[c][n].ready = comps[c][n].ready
  PROVE  Slots'
<1>1. Clients' = Clients /\ Window' = Window /\ win_size' = win_size
      /\ \A c, i : Desc(c, i)' = Desc(c, i)
  BY Fixed
<1>2. ASSUME NEW h \in Places'
      PROVE  \E c \in Clients' : \E i \in Flying(c)' : DescOf(h)' = Desc(c, i)'
  BY <1>1 DEF Board, Placed
<1>3. ASSUME NEW g \in Places', NEW h \in Places', DescOf(g)'.res_off = DescOf(h)'.res_off
      PROVE  g = h
  BY <1>3 DEF Board, Apart
<1>4. ASSUME NEW h \in Places'
      PROVE  comps'[DescOf(h)'.res_off[1]][DescOf(h)'.res_off[2]].ready = 0
  <2>1. F[h] \in Places /\ DescOf(h)' = DescOf(F[h])
    OBVIOUS
  <2> PICK c \in Clients : \E i \in Flying(c) :
        /\ DescOf(F[h]).res_off[1] = c /\ DescOf(F[h]).res_off[2] = i % win_size
        /\ i % win_size \in Window /\ comps[c][i % win_size].ready = 0
    BY <2>1, InPlace
  <2> PICK i \in Flying(c) :
        /\ DescOf(F[h]).res_off[1] = c /\ DescOf(F[h]).res_off[2] = i % win_size
        /\ i % win_size \in Window /\ comps[c][i % win_size].ready = 0
    OBVIOUS
  <2> QED
    BY <2>1
<1>5. ASSUME NEW c \in Clients', NEW n \in Window', comps'[c][n].ready = 1
      PROVE  \E i \in Flying(c)' : n = i % win_size'
  BY <1>1, <1>5 DEF Board, Answered
<1> QED
  BY <1>2, <1>3, <1>4, <1>5 DEF Slots, Placed, Apart, Unanswered, Answered

\* A step that leaves every place as it is.
LEMMA SlotsSame ==
  ASSUME Board, cfg' = cfg, \A c \in Clients : Flying(c)' = Flying(c),
         \A h \in Places' : h \in Places /\ DescOf(h)' = DescOf(h),
         \A c \in Clients, n \in Window : comps'[c][n].ready = comps[c][n].ready
  PROVE  Slots'
<1> DEFINE F == [h \in Places' |-> h]
<1>1. \A h \in Places' : F[h] \in Places /\ DescOf(h)' = DescOf(F[h])
  OBVIOUS
<1>2. \A g, h \in Places' : F[g] = F[h] => g = h
  OBVIOUS
<1> HIDE DEF F
<1> QED
  BY <1>1, <1>2, SlotsMoved

\* A request enters the board when it is submitted, in a slot nobody uses.
LEMMA SubmitSlots ==
  ASSUME Board, NEW c \in Clients, SubmitReq(c)
  PROVE  Slots'
<1> DEFINE l == last_submitted[c]
           p == AtClient(c)
<1>0. /\ cfg' = cfg /\ Typed /\ Counting /\ Serving /\ Clients \subseteq Threads /\ Servers \subseteq Threads
      /\ Clients \cap Servers = {} /\ Clients' = Clients /\ Window' = Window /\ win_size' = win_size
      /\ win_size \in Nat \ {0} /\ \A d, i : Desc(d, i)' = Desc(d, i)
  BY Fixed, Parameters DEF SubmitReq, Board, Typed, Threads
<1>1. /\ cpc[c] = "submit" /\ l - last_completed[c] < win_size /\ l < NumReqs
      /\ rmode' = [rmode EXCEPT ![c] = "called"] /\ rval' = [rval EXCEPT ![c] = Desc(c, l)]
      /\ cpc' = [cpc EXCEPT ![c] = "ring"]
      /\ UNCHANGED <<last_submitted, last_completed, comps, q, spc, sbd>>
  BY DEF SubmitReq, Ring!SubmitCall, Room, Descriptor, Desc, serverVars
<1>2. Upper(c) = l /\ l \in Nat /\ last_completed[c] \in Nat /\ last_completed[c] <= l
      /\ l < last_completed[c] + win_size
  BY <1>0, <1>1 DEF Upper, Typed, Counting
<1>3. Upper(c)' = l + 1 /\ Flying(c) = last_completed[c] .. l - 1
      /\ Flying(c)' = last_completed[c] .. l + 1 - 1
  BY <1>0, <1>1, <1>2 DEF Upper, Flying, Typed
<1>4. l \in Flying(c)' /\ Flying(c) \subseteq Flying(c)'
  BY <1>2, <1>3
<1>5. \A d \in Clients : d # c => Flying(d)' = Flying(d)
  BY <1>0, <1>1 DEF Flying, Upper, Typed
<1>6. \A h \in Places' : h = p \/ (h \in Places /\ DescOf(h)' = DescOf(h))
  <2>1. \A t \in Threads : t # c => rmode'[t] = rmode[t] /\ rval'[t] = rval[t]
    BY <1>0, <1>1 DEF Typed
  <2> QED
    BY <1>0, <1>1, <2>1, PlaceKinds, PlaceKindsNext, DescOfKind, DescOfKindNext
<1>7. DescOf(p)' = Desc(c, l)
  BY <1>0, <1>1, DescOfKindNext DEF Typed
<1>8. Desc(c, l).res_off = <<c, l % win_size>>
  BY DEF Desc
<1>9. \A i \in Flying(c) : i % win_size # l % win_size
  BY <1>0, <1>2, FlyingSlots
<1>10. ASSUME NEW h \in Places PROVE DescOf(h).res_off # <<c, l % win_size>>
  <2> PICK d \in Clients : \E i \in Flying(d) : DescOf(h) = Desc(d, i)
    BY DEF Board, Placed
  <2> PICK i \in Flying(d) : DescOf(h) = Desc(d, i)
    OBVIOUS
  <2>1. DescOf(h).res_off = <<d, i % win_size>>
    BY DEF Desc
  <2> QED
    BY <1>9, <2>1
<1> HIDE DEF l, p
<1>11. ASSUME NEW h \in Places'
       PROVE  \E d \in Clients' : \E i \in Flying(d)' : DescOf(h)' = Desc(d, i)'
  <2>1. CASE h = p
    BY <1>0, <1>4, <1>7, <2>1
  <2>2. CASE h \in Places /\ DescOf(h)' = DescOf(h)
    <3> PICK d \in Clients : \E i \in Flying(d) : DescOf(h) = Desc(d, i)
      BY <2>2 DEF Board, Placed
    <3>1. Flying(d) \subseteq Flying(d)'
      BY <1>4, <1>5
    <3> QED
      BY <1>0, <2>2, <3>1
  <2> QED
    BY <1>6, <2>1, <2>2
<1>12. ASSUME NEW g \in Places', NEW h \in Places', DescOf(g)'.res_off = DescOf(h)'.res_off
       PROVE  g = h
  BY <1>6, <1>7, <1>8, <1>10, <1>12 DEF Board, Apart
<1>13. ASSUME NEW h \in Places'
       PROVE  comps'[DescOf(h)'.res_off[1]][DescOf(h)'.res_off[2]].ready = 0
  <2>1. CASE h = p
    <3>1. DescOf(h)'.res_off[1] = c /\ DescOf(h)'.res_off[2] = l % win_size
      BY <1>7, <1>8, <2>1
    <3>2. l % win_size \in Window
      BY <1>0, <1>2 DEF Window
    <3>3. comps[c][l % win_size].ready # 1
      BY <1>9, <3>2 DEF Board, Answered
    <3>4. comps[c][l % win_size].ready = 0
      BY <1>0, <3>2, <3>3 DEF Typed, Answer
    <3> QED
      BY <1>1, <3>1, <3>4
  <2>2. CASE h \in Places /\ DescOf(h)' = DescOf(h)
    BY <1>1, <2>2 DEF Board, Unanswered
  <2> QED
    BY <1>6, <2>1, <2>2
<1>14. ASSUME NEW d \in Clients', NEW n \in Window', comps'[d][n].ready = 1
       PROVE  \E i \in Flying(d)' : n = i % win_size'
  <2>1. Flying(d) \subseteq Flying(d)'
    BY <1>0, <1>4, <1>5
  <2> QED
    BY <1>0, <1>1, <1>14, <2>1 DEF Board, Answered
<1> QED
  BY <1>11, <1>12, <1>13, <1>14 DEF Slots, Placed, Apart, Unanswered, Answered

\* It leaves the board when its answer is collected, the oldest first.
LEMMA CompleteSlots ==
  ASSUME Board, NEW c \in Clients, Complete(c)
  PROVE  Slots'
<1> DEFINE l == last_completed[c]
           n == nxt_comp[c]
<1>0. /\ cfg' = cfg /\ Typed /\ Counting /\ Clients' = Clients /\ Window' = Window
      /\ win_size' = win_size /\ win_size \in Nat \ {0} /\ \A d, i : Desc(d, i)' = Desc(d, i)
  BY Fixed, Parameters DEF Complete, Board, Typed
<1>1. /\ comps[c][n].ready = 1 /\ comps' = [comps EXCEPT ![c][n].ready = 0]
      /\ last_completed' = [last_completed EXCEPT ![c] = @ + 1]
      /\ UNCHANGED <<cpc, last_submitted, q, rmode, rval, spc, sbd>>
  BY DEF Complete, ringVars, serverVars
<1>2. n = l % win_size /\ n \in Window /\ l \in Nat /\ Upper(c) \in Nat
  BY <1>0, FlyingSlots DEF Counting, Typed
<1>3. Places' = Places /\ \A h : DescOf(h)' = DescOf(h)
  BY <1>0, <1>1 DEF Places, DescOf
<1>4. Flying(c) = l .. Upper(c) - 1 /\ Flying(c)' = l + 1 .. Upper(c) - 1
      /\ \A d \in Clients : d # c => Flying(d)' = Flying(d)
  BY <1>0, <1>1 DEF Flying, Upper, Typed
<1>5. \A i \in Flying(c) : i # l => i \in Flying(c)'
  BY <1>2, <1>4
<1>6. /\ comps'[c][n].ready = 0
      /\ \A d \in Clients, m \in Window : <<d, m>> # <<c, n>> => comps'[d][m] = comps[d][m]
  BY <1>0, <1>1, <1>2 DEF Typed, Answer
<1> HIDE DEF l, n
<1>7. ASSUME NEW h \in Places'
      PROVE  /\ \E d \in Clients' : \E i \in Flying(d)' : DescOf(h)' = Desc(d, i)'
             /\ comps'[DescOf(h)'.res_off[1]][DescOf(h)'.res_off[2]].ready = 0
  <2> PICK d \in Clients : \E i \in Flying(d) :
        /\ DescOf(h) = Desc(d, i) /\ DescOf(h).res_off[1] = d /\ DescOf(h).res_off[2] = i % win_size
        /\ i % win_size \in Window /\ comps[d][i % win_size].ready = 0
    BY <1>3, InPlace
  <2> PICK i \in Flying(d) :
        /\ DescOf(h) = Desc(d, i) /\ DescOf(h).res_off[1] = d /\ DescOf(h).res_off[2] = i % win_size
        /\ i % win_size \in Window /\ comps[d][i % win_size].ready = 0
    OBVIOUS
  <2>1. ~(d = c /\ i % win_size = n)
    BY <1>1
  <2>2. i \in Flying(d)'
    BY <1>2, <1>4, <1>5, <2>1
  <2>3. comps'[d][i % win_size].ready = 0
    BY <1>6, <2>1
  <2> QED
    BY <1>0, <1>3, <2>2, <2>3
<1>8. ASSUME NEW g \in Places', NEW h \in Places', DescOf(g)'.res_off = DescOf(h)'.res_off
      PROVE  g = h
  BY <1>3, <1>8 DEF Board, Apart
<1>9. ASSUME NEW d \in Clients', NEW m \in Window', comps'[d][m].ready = 1
      PROVE  \E i \in Flying(d)' : m = i % win_size'
  <2>1. d \in Clients /\ m \in Window /\ ~(d = c /\ m = n)
    BY <1>0, <1>6, <1>9
  <2>2. comps[d][m].ready = 1
    BY <1>6, <1>9, <2>1
  <2> PICK i \in Flying(d) : m = i % win_size
    BY <2>1, <2>2 DEF Board, Answered
  <2>3. i \in Flying(d)'
    BY <1>2, <1>4, <1>5, <2>1
  <2> QED
    BY <1>0, <2>3
<1> QED
  BY <1>7, <1>8, <1>9 DEF Slots, Placed, Apart, Unanswered, Answered

\* The server's last assignment turns a request into an answer.
LEMMA ReadySlots ==
  ASSUME Board, NEW s \in Servers, ServerReady(s)
  PROVE  Slots'
<1>0. /\ cfg' = cfg /\ Typed /\ Clients' = Clients /\ Window' = Window /\ win_size' = win_size
      /\ \A d, i : Desc(d, i)' = Desc(d, i)
  BY Fixed DEF ServerReady, Board
<1>1. /\ spc[s] = "ready" /\ spc' = [spc EXCEPT ![s] = "get"] /\ sbd' = [sbd EXCEPT ![s] = NoDesc]
      /\ comps' = [comps EXCEPT ![sbd[s].res_off[1]][sbd[s].res_off[2]].ready = 1]
      /\ UNCHANGED <<cpc, last_submitted, last_completed, q, rmode, rval>>
  BY DEF ServerReady, clientVars, ringVars
<1> PICK c \in Clients : \E i \in Flying(c) :
      /\ sbd[s] = Desc(c, i) /\ i % win_size \in Window
      /\ sbd[s].res_off[1] = c /\ sbd[s].res_off[2] = i % win_size
  BY <1>1, Taken
<1> PICK i \in Flying(c) :
      /\ sbd[s] = Desc(c, i) /\ i % win_size \in Window
      /\ sbd[s].res_off[1] = c /\ sbd[s].res_off[2] = i % win_size
  OBVIOUS
<1> DEFINE n == i % win_size
<1>2. AtRun(s) \in Places /\ DescOf(AtRun(s)) = sbd[s] /\ sbd[s].res_off = <<c, n>>
  BY <1>1, Taken DEF Desc
<1>3. \A h \in Places' : h \in Places /\ h # AtRun(s) /\ DescOf(h)' = DescOf(h)
  <2>1. spc'[s] = "get" /\ \A t \in Servers : t # s => spc'[t] = spc[t] /\ sbd'[t] = sbd[t]
    BY <1>0, <1>1 DEF Typed
  <2>2. \A h \in Places' : h \in Places /\ DescOf(h)' = DescOf(h)
    BY <1>0, <1>1, <2>1, PlaceKinds, PlaceKindsNext, DescOfKind, DescOfKindNext
  <2>3. AtRun(s) \notin Places'
    BY <2>1 DEF Places, AtRun
  <2> QED
    BY <2>2, <2>3
<1>4. \A d \in Clients : Flying(d)' = Flying(d)
  BY <1>1 DEF Flying, Upper
<1>5. /\ n \in Window
      /\ \A d \in Clients, m \in Window : <<d, m>> # <<c, n>> => comps'[d][m] = comps[d][m]
  BY <1>0, <1>1 DEF Typed, Answer
<1> HIDE DEF n
<1>6. ASSUME NEW h \in Places'
      PROVE  /\ \E d \in Clients' : \E j \in Flying(d)' : DescOf(h)' = Desc(d, j)'
             /\ comps'[DescOf(h)'.res_off[1]][DescOf(h)'.res_off[2]].ready = 0
  <2>1. h \in Places /\ DescOf(h)' = DescOf(h) /\ DescOf(h).res_off # <<c, n>>
    BY <1>2, <1>3 DEF Board, Apart
  <2> PICK d \in Clients : \E j \in Flying(d) :
        /\ DescOf(h) = Desc(d, j) /\ DescOf(h).res_off[1] = d /\ DescOf(h).res_off[2] = j % win_size
        /\ j % win_size \in Window /\ comps[d][j % win_size].ready = 0
    BY <2>1, InPlace
  <2> PICK j \in Flying(d) :
        /\ DescOf(h) = Desc(d, j) /\ DescOf(h).res_off[1] = d /\ DescOf(h).res_off[2] = j % win_size
        /\ j % win_size \in Window /\ comps[d][j % win_size].ready = 0
    OBVIOUS
  <2>2. <<d, j % win_size>> # <<c, n>>
    BY <2>1 DEF Desc
  <2>3. comps'[d][j % win_size].ready = 0
    BY <1>5, <2>2
  <2> QED
    BY <1>0, <1>4, <2>1, <2>3
<1>7. ASSUME NEW g \in Places', NEW h \in Places', DescOf(g)'.res_off = DescOf(h)'.res_off
      PROVE  g = h
  BY <1>3, <1>7 DEF Board, Apart
<1>8. ASSUME NEW d \in Clients', NEW m \in Window', comps'[d][m].ready = 1
      PROVE  \E j \in Flying(d)' : m = j % win_size'
  <2>1. CASE d = c /\ m = n
    BY <1>0, <1>4, <2>1 DEF n
  <2>2. CASE ~(d = c /\ m = n)
    BY <1>0, <1>4, <1>5, <1>8, <2>2 DEF Board, Answered
  <2> QED
    BY <2>1, <2>2
<1> QED
  BY <1>6, <1>7, <1>8 DEF Slots, Placed, Apart, Unanswered, Answered

\* ring_submit puts the caller's request at the end of the ring.
LEMMA EnqSlots ==
  ASSUME Board, NEW c \in Clients, RingEnq(c)
  PROVE  Slots'
<1> PICK n : n = Len(q) + 1
  OBVIOUS
<1> DEFINE F == [h \in Places' |-> IF h = AtRing(n) THEN AtClient(c) ELSE h]
<1>0. /\ cfg' = cfg /\ Typed /\ Clients' = Clients /\ Clients \subseteq Threads /\ Servers \subseteq Threads
      /\ Clients \cap Servers = {}
  BY Fixed, Parameters DEF RingEnq, Board, Typed, Threads
<1>1. /\ rmode[c] = "called" /\ q' = Append(q, rval[c]) /\ rmode' = [rmode EXCEPT ![c] = "done"]
      /\ rval' = [rval EXCEPT ![c] = NoDesc]
      /\ UNCHANGED <<cpc, last_submitted, last_completed, comps, spc, sbd>>
  BY DEF RingEnq, Ring!Enq, clientVars, serverVars
<1>2. Len(q) \in Nat /\ Len(q') = n /\ q'[n] = rval[c] /\ \A k \in 1 .. Len(q) : q'[k] = q[k]
  <2>1. q \in Seq(Descs) /\ rval[c] \in Descs
    BY <1>0 DEF Typed
  <2> QED
    BY <1>1, <2>1, AppendProperties, LenProperties
<1>3. \A k \in 1 .. Len(q') : k = n \/ k \in 1 .. Len(q)
  BY <1>2
<1>4. rmode'[c] = "done" /\ \A t \in Threads : t # c => rmode'[t] = rmode[t] /\ rval'[t] = rval[t]
  BY <1>0, <1>1 DEF Typed
<1>5. AtClient(c) \in Places /\ DescOf(AtClient(c)) = rval[c]
  BY <1>1, PlaceKinds, DescOfKind
<1>6. AtClient(c) \notin Places'
  BY <1>4 DEF Places, AtClient
<1>7. DescOf(AtRing(n))' = rval[c]
  BY <1>2, DescOfKindNext
<1>8. \A h \in Places' : h = AtRing(n) \/ (h \in Places /\ DescOf(h)' = DescOf(h))
  BY <1>0, <1>1, <1>2, <1>3, <1>4, PlaceKinds, PlaceKindsNext, DescOfKind, DescOfKindNext
<1>9. \A h \in Places' : F[h] \in Places /\ DescOf(h)' = DescOf(F[h])
  BY <1>5, <1>7, <1>8
<1>10. \A g, h \in Places' : F[g] = F[h] => g = h
  BY <1>6
<1> HIDE DEF F
<1>11. \A d \in Clients : Flying(d)' = Flying(d)
  BY <1>1 DEF Flying, Upper
<1> QED
  BY <1>0, <1>1, <1>9, <1>10, <1>11, SlotsMoved

\* ring_get takes the first request off the ring.
LEMMA DeqSlots ==
  ASSUME Board, NEW s \in Servers, RingDeq(s)
  PROVE  Slots'
<1> DEFINE F == [h \in Places' |-> IF h = AtGet(s) THEN AtRing(1)
                                   ELSE IF h.where = "ring" THEN AtRing(h.i + 1) ELSE h]
<1>0. /\ cfg' = cfg /\ Typed /\ Serving /\ Clients' = Clients /\ Clients \subseteq Threads
      /\ Servers \subseteq Threads /\ Clients \cap Servers = {}
  BY Fixed, Parameters DEF RingDeq, Board, Typed, Threads
<1>1. /\ rmode[s] = "called" /\ q # << >> /\ q' = Tail(q) /\ rmode' = [rmode EXCEPT ![s] = "done"]
      /\ rval' = [rval EXCEPT ![s] = Head(q)]
      /\ UNCHANGED <<cpc, last_submitted, last_completed, comps, spc, sbd>>
  BY DEF RingDeq, Ring!Deq, clientVars, serverVars
<1>2. /\ Len(q) \in Nat /\ Len(q) > 0 /\ Len(q') = Len(q) - 1 /\ Head(q) = q[1]
      /\ \A k \in 1 .. Len(q') : q'[k] = q[k + 1]
  BY <1>0, <1>1, HeadTailProperties, LenProperties, EmptySeq DEF Typed
<1>3. /\ 1 \in 1 .. Len(q) /\ \A k \in 1 .. Len(q') : k + 1 \in 1 .. Len(q) /\ k + 1 # 1
      /\ \A k, j \in 1 .. Len(q') : k + 1 = j + 1 => k = j
  BY <1>2
<1>4. \A t \in Threads : t # s => rmode'[t] = rmode[t] /\ rval'[t] = rval[t]
  BY <1>0, <1>1 DEF Typed
<1>5. rval'[s] = q[1]
  BY <1>0, <1>1, <1>2 DEF Typed
\* A place now is the one of s, one in the ring, or one that has not changed.
<1>6. ASSUME NEW h \in Places'
      PROVE  \/ h = AtGet(s) /\ F[h] = AtRing(1)
             \/ \E k \in 1 .. Len(q') : h = AtRing(k) /\ F[h] = AtRing(k + 1)
             \/ /\ F[h] = h /\ h \in Places /\ DescOf(h)' = DescOf(h) /\ \A k : h # AtRing(k)
  <2>1. CASE \E c \in Clients : h = AtClient(c) /\ rmode'[c] = "called"
    <3> PICK c \in Clients : h = AtClient(c) /\ rmode'[c] = "called"
      BY <2>1
    <3>1. c # s /\ rmode[c] = "called" /\ rval'[c] = rval[c]
      BY <1>0, <1>4
    <3>2. h \in Places /\ DescOf(h)' = DescOf(h)
      BY <3>1, PlaceKinds, DescOfKind, DescOfKindNext
    <3>3. h.where = "client" /\ \A x : h # AtRing(x) /\ h # AtGet(x)
      BY DEF AtClient, AtRing, AtGet
    <3> QED
      BY <3>2, <3>3
  <2>2. CASE \E k \in 1 .. Len(q') : h = AtRing(k)
    <3> PICK k \in 1 .. Len(q') : h = AtRing(k)
      BY <2>2
    <3>1. h.where = "ring" /\ h.i = k /\ \A x : h # AtGet(x)
      BY DEF AtRing, AtGet
    <3> QED
      BY <3>1
  <2>3. CASE \E t \in Servers : h = AtGet(t) /\ rmode'[t] = "done"
    <3> PICK t \in Servers : h = AtGet(t) /\ rmode'[t] = "done"
      BY <2>3
    <3>1. CASE t = s
      BY <3>1
    <3>2. CASE t # s
      <4>1. h \in Places /\ DescOf(h)' = DescOf(h)
        BY <1>0, <1>4, <3>2, PlaceKinds, DescOfKind, DescOfKindNext
      <4>2. h.where = "get" /\ h # AtGet(s) /\ \A x : h # AtRing(x)
        BY <3>2 DEF AtGet, AtRing
      <4> QED
        BY <4>1, <4>2
    <3> QED
      BY <3>1, <3>2
  <2>4. CASE \E t \in Servers : h = AtRun(t) /\ spc'[t] \in {"run", "ready", "exited"}
    <3> PICK t \in Servers : h = AtRun(t) /\ spc'[t] \in {"run", "ready", "exited"}
      BY <2>4
    <3>1. h \in Places /\ DescOf(h)' = DescOf(h)
      BY <1>1, PlaceKinds, DescOfKind, DescOfKindNext
    <3>2. h.where = "run" /\ \A x : h # AtRing(x) /\ h # AtGet(x)
      BY DEF AtRun, AtRing, AtGet
    <3> QED
      BY <3>1, <3>2
  <2> QED
    BY <1>0, <2>1, <2>2, <2>3, <2>4, PlaceKindsNext
<1> HIDE DEF F
<1>7. \A k \in 1 .. Len(q) : AtRing(k) \in Places /\ DescOf(AtRing(k)) = q[k]
  BY PlaceKinds, DescOfKind
<1>8. \A k \in 1 .. Len(q') : DescOf(AtRing(k))' = q[k + 1]
  BY <1>2, DescOfKindNext
<1>9. DescOf(AtGet(s))' = q[1]
  BY <1>5, DescOfKindNext
<1>10. \A h \in Places' : F[h] \in Places /\ DescOf(h)' = DescOf(F[h])
  BY SMTT(60), <1>3, <1>6, <1>7, <1>8, <1>9
<1>11. \A g, h \in Places' : F[g] = F[h] => g = h
  BY SMTT(60), <1>3, <1>6, PlacesDiffer
<1>12. \A d \in Clients : Flying(d)' = Flying(d)
  BY <1>1 DEF Flying, Upper
<1> QED
  BY <1>0, <1>1, <1>10, <1>11, <1>12, SlotsMoved

\* The request ring_get returns passes to the server thread's bd.
LEMMA TakeSlots ==
  ASSUME Board, NEW s \in Servers, spc[s] = "ring", Ring!Return(s), CopyResult(s),
         UNCHANGED <<cfg, clientVars>>, sbd' = [sbd EXCEPT ![s] = rval[s]],
         NEW x \in {"run", "exited"}, spc' = [spc EXCEPT ![s] = x]
  PROVE  Slots'
<1> DEFINE F == [h \in Places' |-> IF h = AtRun(s) THEN AtGet(s) ELSE h]
<1>0. /\ Typed /\ Clients' = Clients /\ Clients \subseteq Threads
      /\ Servers \subseteq Threads /\ Clients \cap Servers = {}
  BY Fixed, Parameters DEF Board, Typed, Threads
<1>1. /\ rmode[s] = "done" /\ rmode' = [rmode EXCEPT ![s] = "idle"]
      /\ rval' = [rval EXCEPT ![s] = NoDesc] /\ q' = q
      /\ UNCHANGED <<cpc, last_submitted, last_completed>>
  BY DEF Ring!Return, clientVars
<1>2. rmode'[s] = "idle" /\ \A t \in Threads : t # s => rmode'[t] = rmode[t] /\ rval'[t] = rval[t]
  BY <1>0, <1>1 DEF Typed
<1>3. sbd'[s] = rval[s] /\ \A t \in Servers : t # s => spc'[t] = spc[t] /\ sbd'[t] = sbd[t]
  BY <1>0 DEF Typed
<1>4. AtGet(s) \in Places /\ DescOf(AtGet(s)) = rval[s]
  BY <1>1, Got
<1>5. AtGet(s) \notin Places'
  BY <1>2 DEF Places, AtGet
<1>6. DescOf(AtRun(s))' = rval[s]
  BY <1>3, DescOfKindNext
<1>7. \A h \in Places' : h = AtRun(s) \/ (h \in Places /\ DescOf(h)' = DescOf(h))
  BY <1>0, <1>1, <1>2, <1>3, PlaceKinds, PlaceKindsNext, DescOfKind, DescOfKindNext
<1>8. \A h \in Places' : F[h] \in Places /\ DescOf(h)' = DescOf(F[h])
  BY <1>4, <1>6, <1>7
<1>9. \A g, h \in Places' : F[g] = F[h] => g = h
  BY <1>5
<1> HIDE DEF F
<1>10. \A d \in Clients : Flying(d)' = Flying(d)
  BY <1>1 DEF Flying, Upper
<1>11. \A d \in Clients, n \in Window : comps'[d][n].ready = comps[d][n].ready
  <2> PICK c \in Clients : \E i \in Flying(c) :
        /\ i % win_size \in Window /\ rval[s].res_off[1] = c /\ rval[s].res_off[2] = i % win_size
        /\ comps[c][i % win_size].ready = 0
    BY <1>1, Got
  <2> PICK i \in Flying(c) :
        /\ i % win_size \in Window /\ rval[s].res_off[1] = c /\ rval[s].res_off[2] = i % win_size
        /\ comps[c][i % win_size].ready = 0
    OBVIOUS
  <2>1. comps' = [comps EXCEPT ![c][i % win_size] = [k |-> rval[s].k, v |-> rval[s].v, ready |-> 0]]
    BY DEF CopyResult
  <2> QED
    BY <1>0, <2>1 DEF Typed
<1> QED
  BY <1>8, <1>9, <1>10, <1>11, SlotsMoved

\* Every step keeps the slots apart.
LEMMA SlotsNext == Board /\ [Next]_vars => Slots'
<1> SUFFICES ASSUME Board, [Next]_vars PROVE Slots'
  OBVIOUS
<1>0. /\ Typed /\ Counting /\ Serving /\ cfg' = cfg /\ Clients' = Clients /\ Clients \subseteq Threads
      /\ Servers \subseteq Threads /\ Clients \cap Servers = {}
  BY ConfigFixed, Fixed, Parameters DEF Board, Typed, Threads
<1>1. ASSUME UNCHANGED <<last_submitted, last_completed, comps, q, rmode, rval, spc, sbd>>,
             \A c \in Clients : cpc'[c] = "ring" <=> cpc[c] = "ring"
      PROVE  Slots'
  <2>1. Places' = Places /\ \A h : DescOf(h)' = DescOf(h)
    BY <1>0, <1>1 DEF Places, DescOf
  <2>2. \A d \in Clients : Flying(d)' = Flying(d)
    BY <1>1 DEF Flying, Upper
  <2> QED
    BY <1>0, <1>1, <2>1, <2>2, SlotsSame
<1>2. CASE UNCHANGED vars
  BY <1>1, <1>2 DEF vars, clientVars, ringVars, serverVars
<1>3. CASE Kill \/ Ended
  BY <1>1, <1>3 DEF Kill, Ended, vars, clientVars, ringVars, serverVars
<1>4. ASSUME NEW c \in Clients, SubmitReturn(c) PROVE Slots'
  <2>1. /\ cpc[c] = "ring" /\ rmode[c] = "done" /\ rmode' = [rmode EXCEPT ![c] = "idle"]
        /\ rval' = [rval EXCEPT ![c] = NoDesc]
        /\ last_submitted' = [last_submitted EXCEPT ![c] = @ + 1]
        /\ cpc' = [cpc EXCEPT ![c] = "submit"] /\ UNCHANGED <<last_completed, comps, q, spc, sbd>>
    BY <1>4 DEF SubmitReturn, Ring!Return, serverVars
  <2>2. /\ rmode'[c] = "idle" /\ cpc'[c] = "submit" /\ last_submitted'[c] = last_submitted[c] + 1
        /\ \A t \in Threads : t # c => rmode'[t] = rmode[t] /\ rval'[t] = rval[t]
        /\ \A d \in Clients : d # c => cpc'[d] = cpc[d] /\ last_submitted'[d] = last_submitted[d]
    BY <1>0, <2>1 DEF Typed
  <2>3. \A h \in Places' : h \in Places /\ DescOf(h)' = DescOf(h)
    BY <1>0, <2>1, <2>2, PlaceKinds, PlaceKindsNext, DescOfKind, DescOfKindNext
  <2>4. \A d \in Clients : Flying(d)' = Flying(d)
    BY <2>1, <2>2 DEF Flying, Upper
  <2> QED
    BY <1>0, <2>1, <2>3, <2>4, SlotsSame
<1>5. ASSUME NEW c \in Clients, SubmitEnd(c) PROVE Slots'
  BY <1>0, <1>1, <1>5 DEF SubmitEnd, ringVars, serverVars, Typed
<1>6. ASSUME NEW c \in Clients, CompleteEnd(c) PROVE Slots'
  BY <1>0, <1>1, <1>6 DEF CompleteEnd, LoopTest, ringVars, serverVars, Typed
<1>7. ASSUME NEW s \in Servers, ServerGetCall(s) PROVE Slots'
  <2>1. /\ spc[s] = "get" /\ rmode[s] = "idle" /\ rmode' = [rmode EXCEPT ![s] = "called"]
        /\ spc' = [spc EXCEPT ![s] = "ring"]
        /\ UNCHANGED <<cpc, last_submitted, last_completed, comps, q, rval, sbd>>
    BY <1>7 DEF ServerGetCall, Ring!GetCall, clientVars
  <2>2. /\ rmode'[s] = "called" /\ spc'[s] = "ring"
        /\ \A t \in Threads : t # s => rmode'[t] = rmode[t]
        /\ \A t \in Servers : t # s => spc'[t] = spc[t]
    BY <1>0, <2>1 DEF Typed
  <2>3. \A h \in Places' : h \in Places /\ DescOf(h)' = DescOf(h)
    BY <1>0, <2>1, <2>2, PlaceKinds, PlaceKindsNext, DescOfKind, DescOfKindNext
  <2>4. \A d \in Clients : Flying(d)' = Flying(d)
    BY <2>1 DEF Flying, Upper
  <2> QED
    BY <1>0, <2>1, <2>3, <2>4, SlotsSame
<1>8. ASSUME NEW s \in Servers, ServerRun(s) PROVE Slots'
  BY <1>8, TakeSlots DEF ServerRun
<1>9. ASSUME NEW s \in Servers, ServerInvalid(s) PROVE Slots'
  BY <1>9, TakeSlots DEF ServerInvalid
<1>10. ASSUME NEW s \in Servers, ServerDo(s) PROVE Slots'
  BY <1>1, <1>10 DEF ServerDo, clientVars, ringVars, serverVars
<1>11. ASSUME NEW s \in Servers, ServerReturn(s) PROVE Slots'
  <2>1. /\ spc[s] = "run" /\ spc' = [spc EXCEPT ![s] = "ready"]
        /\ UNCHANGED <<cpc, last_submitted, last_completed, q, rmode, rval, sbd>>
        /\ \E y : comps' = [comps EXCEPT ![sbd[s].res_off[1]][sbd[s].res_off[2]].v = y]
    BY <1>11 DEF ServerReturn, clientVars, ringVars
  <2>2. spc'[s] = "ready" /\ \A t \in Servers : t # s => spc'[t] = spc[t]
    BY <1>0, <2>1 DEF Typed
  <2>3. \A h \in Places' : h \in Places /\ DescOf(h)' = DescOf(h)
    BY <1>0, <2>1, <2>2, PlaceKinds, PlaceKindsNext, DescOfKind, DescOfKindNext
  <2>4. \A d \in Clients : Flying(d)' = Flying(d)
    BY <2>1 DEF Flying, Upper
  <2>5. \A d \in Clients, n \in Window : comps'[d][n].ready = comps[d][n].ready
    BY <1>0, <2>1 DEF Typed, Answer
  <2> QED
    BY <1>0, <2>3, <2>4, <2>5, SlotsSame
<1> QED
  BY <1>2, <1>3, <1>4, <1>5, <1>6, <1>7, <1>8, <1>9, <1>10, <1>11, SubmitSlots, EnqSlots,
     CompleteSlots, DeqSlots, ReadySlots
  DEF Next, ClientStep, ServerStep

\* The board is in order at the start.
LEMMA InitBoard == Init => Board
<1> SUFFICES ASSUME Init PROVE Board
  OBVIOUS
<1>0. /\ cfg \in Configs /\ win_size \in Nat \ {0} /\ NumReqs \in Nat /\ Clients \subseteq Threads
      /\ Clients \cap Servers = {} /\ 0 % win_size = 0 /\ 0 \in Window
  BY Parameters DEF Init, Threads, Window
<1>1. /\ q = << >> /\ rmode = [t \in Threads |-> "idle"] /\ rval = [t \in Threads |-> NoDesc]
      /\ store = [k \in Keys |-> 0] /\ kmode = [s \in Servers |-> "idle"]
      /\ kop = [s \in Servers |-> Table!NoOp] /\ kret = [s \in Servers |-> 0]
  BY DEF Init, Ring!Init, Table!Init, Threads, Ring!Threads
<1>2. 0 \in Word /\ Garbage \in Word
  BY DEF Word
<1>3. << >> \in Seq(Descs)
  OBVIOUS
<1>4. LoopTest(0, 0) \in {"submit", "done"} /\ (LoopTest(0, 0) = "done" => NumReqs = 0)
  BY <1>0 DEF LoopTest
<1>5. Typed
  <2>1. /\ cpc \in [Clients -> {"submit", "ring", "comps", "done"}]
        /\ last_submitted \in [Clients -> Nat] /\ last_completed \in [Clients -> Nat]
        /\ nxt_comp \in [Clients -> Window]
    BY <1>0, <1>4 DEF Init
  <2>2. res \in [Clients -> [ReqIdx -> [k : Word, v : Word]]]
        /\ comps \in [Clients -> [Window -> Answer]]
    BY <1>2 DEF Init, NoResult, Answer
  <2> QED
    BY <1>0, <1>1, <1>2, <1>3, <2>1, <2>2, NoDescType DEF Init, Typed, Modes
<1>6. Counting
  <2>1. ASSUME NEW c \in Clients
        PROVE  /\ cpc[c] = LoopTest(0, 0) /\ last_completed[c] = 0 /\ last_submitted[c] = 0
               /\ nxt_comp[c] = 0 /\ rmode[c] = "idle" /\ Upper(c) = 0
    BY <1>0, <1>1, <1>4 DEF Init, Upper
  <2> QED
    BY <1>0, <1>4, <2>1 DEF Counting
<1>7. Serving
  BY <1>1 DEF Init, Serving, ServesAt, Threads
<1>8. Places = {}
  BY <1>0, <1>1, PlaceKinds DEF Init, Threads
<1>9. Placed /\ Apart /\ Unanswered
  BY <1>8 DEF Placed, Apart, Unanswered
<1>10. Answered /\ Stopped
  BY DEF Init, Answered, Stopped
<1> QED
  BY <1>5, <1>6, <1>7, <1>9, <1>10 DEF Board

\* The board stays in order.
LEMMA BoardNext == Board /\ [Next]_vars => Board'
BY TypedNext, CountingNext, ServingNext, SlotsNext, StoppedNext DEF Board, Slots

\* So it always is.
LEMMA BoardHolds == Spec => []Board
BY InitBoard, BoardNext, PTL DEF Spec

(***************************************************************************)
(* A slot of the status board belongs to one request at a time: no two     *)
(* requests in flight are answered in the same slot, and none in a slot    *)
(* whose answer the client has yet to collect (submit_reqs stops at        *)
(* win_size requests in flight, process_completions collects in order).    *)
(***************************************************************************)
THEOREM SlotsExclusive == Spec => []BoardExclusive
<1>1. Board => BoardExclusive
  <2> SUFFICES ASSUME Board PROVE BoardExclusive
    OBVIOUS
  <2>1. Holders \subseteq Places
    BY DEF Holders, Places
  <2> QED
    BY <2>1 DEF Board, Apart, Unanswered, BoardExclusive
<1> QED
  BY <1>1, BoardHolds, PTL

-----------------------------------------------------------------------------
(* The answers *)

\* Two requests in flight with the same slot are the same request.
LEMMA SameSlot ==
  ASSUME Board, NEW c \in Clients, NEW i \in Flying(c), NEW d \in Clients, NEW j \in Flying(d),
         Desc(c, i).res_off = Desc(d, j).res_off
  PROVE  c = d /\ i = j
<1>1. c = d /\ i % win_size = j % win_size
  BY DEF Desc
<1> QED
  BY <1>1, FlyingSlots DEF Board

\* Only one server thread executes a request.
LEMMA OneServer ==
  ASSUME Board, NEW s \in Servers, NEW t \in Servers,
         spc[s] \in {"run", "ready", "exited"}, spc[t] \in {"run", "ready", "exited"},
         sbd[s].res_off = sbd[t].res_off
  PROVE  s = t
<1>1. AtRun(s) \in Places /\ AtRun(t) \in Places /\ DescOf(AtRun(s)) = sbd[s]
      /\ DescOf(AtRun(t)) = sbd[t]
  BY Taken
<1>2. AtRun(s) = AtRun(t)
  BY <1>1 DEF Board, Apart
<1> QED
  BY <1>2, PlacesDiffer

\* As long as no request is executed, the table keeps holding what it should.
LEMMA StoredSame ==
  ASSUME IInv, cfg' = cfg, store' = store,
         \A c \in Clients : \A i \in ReqIdx : Executed(c, i)' <=> Executed(c, i)
  PROVE  Stored'
<1>1. /\ Clients' = Clients /\ win_size' = win_size /\ \A c, i : Req(c, i)' = Req(c, i)
      /\ \A c, k : Private(c, k)' = Private(c, k) /\ Puts(c, k)' = Puts(c, k)
  BY Fixed
<1>2. \A c, k : Puts(c, k) \subseteq ReqIdx
  BY DEF Puts
<1>3. ASSUME NEW c \in Clients, NEW k \in Keys, Private(c, k)
      PROVE  \/ store[k] = 0 /\ \A j \in Puts(c, k) : ~Executed(c, j)'
             \/ \E j \in Puts(c, k) : /\ Executed(c, j)' /\ store[k] = Req(c, j).v
                                      /\ \A m \in Puts(c, k) : Executed(c, m)' => m < j + win_size
  <2>1. \A j \in Puts(c, k) : Executed(c, j)' <=> Executed(c, j)
    BY <1>2
  <2>2. \/ store[k] = 0 /\ \A j \in Puts(c, k) : ~Executed(c, j)
        \/ \E j \in Puts(c, k) : /\ Executed(c, j) /\ store[k] = Req(c, j).v
                                 /\ \A m \in Puts(c, k) : Executed(c, m) => m < j + win_size
    BY <1>3 DEF IInv, Stored
  <2> QED
    BY <2>1, <2>2
<1> QED
  BY <1>1, <1>3 DEF Stored

\* What a step that executes nothing and collects nothing must keep.
Values == Stored /\ Waiting /\ Collected

\* A step that changes neither counters of completions, nor answers, nor what the
\* server threads execute.
LEMMA ValuesSame ==
  ASSUME IInv, cfg' = cfg, \A c \in Clients : Flying(c)' = Flying(c),
         UNCHANGED <<last_completed, res, comps, store>>,
         \A s \in Servers : \/ UNCHANGED <<spc[s], sbd[s], kmode[s], kret[s]>>
                            \/ spc[s] \notin {"run", "ready"} /\ spc'[s] \notin {"run", "ready"}
  PROVE  Values'
<1>1. /\ Clients' = Clients /\ win_size' = win_size
      /\ \A c, i : Req(c, i)' = Req(c, i) /\ Desc(c, i)' = Desc(c, i)
      /\ \A c, i, v : RightValue(c, i, v)' = RightValue(c, i, v)
  BY Fixed
<1>2. \A c, n : Acted(c, n)' <=> Acted(c, n)
  BY DEF Acted
<1>3. \A c \in Clients, i \in ReqIdx : Executed(c, i)' <=> Executed(c, i)
  BY <1>1, <1>2 DEF Executed
<1>4. Stored'
  BY <1>3, StoredSame
<1>5. ASSUME NEW c \in Clients, NEW i \in Flying(c)' PROVE Waits(c, i)'
  <2>1. Waits(c, i)
    BY DEF IInv, Waiting
  <2>2. ASSUME NEW s \in Servers, sbd'[s] = Desc(c, i) PROVE Prepares(s, c, i)'
    <3>1. CASE UNCHANGED <<spc[s], sbd[s], kmode[s], kret[s]>>
      BY <1>1, <2>1, <2>2, <3>1 DEF Waits, Prepares
    <3>2. CASE spc'[s] \notin {"run", "ready"}
      BY <3>2 DEF Prepares
    <3> QED
      BY <3>1, <3>2
  <2> QED
    BY <1>1, <2>1, <2>2 DEF Waits
<1>6. Collected'
  BY <1>1 DEF IInv, Collected
<1> QED
  BY <1>1, <1>4, <1>5, <1>6 DEF Values, Waiting

\* A step in which the request (d, j) of server thread s changes state, its slot alone
\* being written, keeps the answers to the others.
LEMMA OthersWait ==
  ASSUME IInv, cfg' = cfg, NEW s \in Servers, NEW d \in Clients, NEW j \in Flying(d),
         \A c \in Clients : Flying(c)' = Flying(c),
         \A c \in Clients, n \in Window : <<c, n>> # <<d, j % win_size>> => comps'[c][n] = comps[c][n],
         \A t \in Servers : t # s => UNCHANGED <<spc[t], sbd[t], kmode[t], kret[t]>>,
         sbd'[s] = Desc(d, j) \/ spc'[s] \notin {"run", "ready"},
         NEW c \in Clients, NEW i \in Flying(c), <<c, i>> # <<d, j>>
  PROVE  Waits(c, i)'
<1>1. /\ win_size' = win_size /\ \A b, k : Req(b, k)' = Req(b, k) /\ Desc(b, k)' = Desc(b, k)
      /\ \A b, k, v : RightValue(b, k, v)' = RightValue(b, k, v)
  BY Fixed
<1>2. Waits(c, i) /\ Board
  BY DEF IInv, Waiting
<1>3. Desc(c, i).res_off # Desc(d, j).res_off
  BY <1>2, SameSlot
<1>4. <<c, i % win_size>> # <<d, j % win_size>> /\ i % win_size \in Window
  BY <1>2, <1>3, FlyingSlots DEF Desc, Board
<1>5. comps'[c][i % win_size] = comps[c][i % win_size]
  BY <1>4
<1>6. ASSUME NEW t \in Servers, sbd'[t] = Desc(c, i) PROVE Prepares(t, c, i)'
  <2>1. CASE t # s
    BY <1>1, <1>2, <1>5, <1>6, <2>1 DEF Waits, Prepares
  <2>2. CASE t = s
    <3>1. spc'[s] \notin {"run", "ready"}
      BY <1>3, <1>6, <2>2
    <3> QED
      BY <2>2, <3>1 DEF Prepares
  <2> QED
    BY <2>1, <2>2
<1> QED
  BY <1>1, <1>2, <1>5, <1>6 DEF Waits

\* A new request is not executed yet.
LEMMA SubmitValues ==
  ASSUME IInv, Board', NEW c \in Clients, SubmitReq(c)
  PROVE  Values'
<1> DEFINE l == last_submitted[c]
<1>0. /\ cfg' = cfg /\ Typed /\ Counting /\ Clients \subseteq Threads
      /\ Clients' = Clients /\ win_size' = win_size /\ ReqIdx' = ReqIdx
      /\ \A d, i : Req(d, i)' = Req(d, i) /\ Desc(d, i)' = Desc(d, i)
      /\ \A d, i, v : RightValue(d, i, v)' = RightValue(d, i, v)
  BY Fixed, Parameters DEF SubmitReq, IInv, Board, Typed, Threads
<1>1. /\ cpc[c] = "submit" /\ rmode' = [rmode EXCEPT ![c] = "called"]
      /\ rval' = [rval EXCEPT ![c] = Desc(c, l)] /\ cpc' = [cpc EXCEPT ![c] = "ring"]
      /\ UNCHANGED <<last_submitted, last_completed, res, comps, spc, sbd, store, kmode, kret>>
  BY DEF SubmitReq, Ring!SubmitCall, Descriptor, Desc, serverVars, tableVars
<1>2. /\ Upper(c) = l /\ Upper(c)' = l + 1 /\ l \in Nat /\ last_completed[c] \in Nat
      /\ last_completed[c] <= l
  BY <1>0, <1>1 DEF Upper, Typed, Counting
<1>3. Flying(c) = last_completed[c] .. l - 1 /\ Flying(c)' = last_completed[c] .. l + 1 - 1
  BY <1>1, <1>2 DEF Flying
<1>4. /\ \A i \in Flying(c)' : i = l \/ i \in Flying(c)
      /\ Flying(c) \subseteq Flying(c)' /\ l \in Flying(c)' /\ ~(l < last_completed[c])
  BY <1>2, <1>3
<1>5. \A d \in Clients : d # c => Flying(d)' = Flying(d)
  BY <1>0, <1>1 DEF Flying, Upper, Typed
<1>6. AtClient(c) \in Places' /\ DescOf(AtClient(c))' = Desc(c, l)
  BY <1>0, <1>1, PlaceKindsNext, DescOfKindNext DEF Typed
<1>7. Desc(c, l).res_off = <<c, l % win_size>>
  BY DEF Desc
<1>8. comps[c][l % win_size].ready = 0
  BY <1>1, <1>6, <1>7 DEF Board, Unanswered
<1>9. \A s \in Servers : spc[s] \in {"run", "ready"} => sbd[s].res_off # <<c, l % win_size>>
  <2> SUFFICES ASSUME NEW s \in Servers, spc[s] \in {"run", "ready"},
                      sbd[s].res_off = <<c, l % win_size>>
               PROVE  FALSE
    OBVIOUS
  <2>1. AtRun(s) \in Places' /\ DescOf(AtRun(s))' = sbd[s]
    BY <1>1, PlaceKindsNext, DescOfKindNext
  <2>2. AtRun(s) = AtClient(c)
    BY <1>6, <1>7, <2>1 DEF Board, Apart
  <2> QED
    BY <2>2 DEF AtRun, AtClient
<1>10. ~Acted(c, l % win_size)
  BY <1>8, <1>9 DEF Acted
<1>11. \A d, n : Acted(d, n)' <=> Acted(d, n)
  BY <1>1 DEF Acted
<1> HIDE DEF l
<1>12. \A d \in Clients, i \in ReqIdx : Executed(d, i)' <=> Executed(d, i)
  BY <1>0, <1>1, <1>4, <1>5, <1>10, <1>11 DEF Executed
<1>13. Stored'
  BY <1>0, <1>1, <1>12, StoredSame
<1>14. ASSUME NEW d \in Clients, NEW i \in Flying(d)' PROVE Waits(d, i)'
  <2>1. CASE i \in Flying(d)
    <3>1. Waits(d, i)
      BY <2>1 DEF IInv, Waiting
    <3> QED
      BY <1>0, <1>1, <3>1 DEF Waits, Prepares
  <2>2. CASE d = c /\ i = l
    BY <1>0, <1>1, <1>7, <1>8, <1>9, <2>2 DEF Waits, Prepares
  <2> QED
    BY <1>4, <1>5, <2>1, <2>2
<1>15. Collected'
  BY <1>0, <1>1 DEF IInv, Collected
<1> QED
  BY <1>0, <1>13, <1>14, <1>15 DEF Values, Waiting

\* The answer collected is the one to request last_completed.
LEMMA CompleteValues ==
  ASSUME IInv, NEW c \in Clients, Complete(c)
  PROVE  Values'
<1> DEFINE l == last_completed[c]
           n == nxt_comp[c]
<1>0. /\ cfg' = cfg /\ Board /\ Typed /\ Counting /\ Clients' = Clients /\ ReqIdx' = ReqIdx
      /\ win_size' = win_size /\ win_size \in Nat \ {0}
      /\ \A d, i : Req(d, i)' = Req(d, i) /\ Desc(d, i)' = Desc(d, i)
      /\ \A d, i, v : RightValue(d, i, v)' = RightValue(d, i, v)
  BY Fixed, Parameters DEF Complete, IInv, Board, Typed
<1>1. /\ comps[c][n].ready = 1 /\ comps' = [comps EXCEPT ![c][n].ready = 0]
      /\ last_completed' = [last_completed EXCEPT ![c] = @ + 1]
      /\ res' = [res EXCEPT ![c][l] = [k |-> comps[c][n].k, v |-> comps[c][n].v]]
      /\ UNCHANGED <<cpc, last_submitted, store, kmode, kret, spc, sbd>>
  BY DEF Complete, serverVars, tableVars
<1>2. /\ n = l % win_size /\ n \in Window /\ l \in Nat /\ Upper(c) \in Nat
      /\ Flying(c) \subseteq ReqIdx
      /\ \A i, j \in Flying(c) : i % win_size = j % win_size => i = j
  BY <1>0, FlyingSlots DEF Counting, Typed
<1>3. Flying(c) = l .. Upper(c) - 1 /\ Flying(c)' = l + 1 .. Upper(c) - 1
      /\ \A d \in Clients : d # c => Flying(d)' = Flying(d) /\ last_completed'[d] = last_completed[d]
  BY <1>0, <1>1 DEF Flying, Upper, Typed
<1>4. last_completed'[c] = l + 1
  BY <1>0, <1>1 DEF Typed
<1>5. l \in Flying(c)
  <2> PICK i \in Flying(c) : n = i % win_size
    BY <1>0, <1>1, <1>2 DEF Board, Answered
  <2> QED
    BY <1>2, <1>3
<1>6. comps[c][n].k = Req(c, l).k /\ RightValue(c, l, comps[c][n].v)
  BY <1>1, <1>2, <1>5 DEF IInv, Waiting, Waits
<1>7. \A d \in Clients, m \in Window : <<d, m>> # <<c, n>> => comps'[d][m] = comps[d][m]
  BY <1>0, <1>1, <1>2 DEF Typed, Answer
<1>8. \A i \in Flying(c) : i # l => i % win_size # n
  BY <1>2, <1>5
<1>9. \A i \in ReqIdx : i # l => /\ i \in Flying(c)' <=> i \in Flying(c)
                                 /\ i < l + 1 <=> i < l
  BY SMTT(60), <1>2, <1>3, <1>0, Parameters DEF ReqIdx, Typed
<1>10. res'[c][l] = [k |-> comps[c][n].k, v |-> comps[c][n].v]
       /\ \A d \in Clients, i \in ReqIdx : <<d, i>> # <<c, l>> => res'[d][i] = res[d][i]
  BY <1>0, <1>1, <1>2, <1>5 DEF Typed
<1>11. Acted(c, n) /\ l < l + 1
  BY <1>1, <1>2 DEF Acted
<1> HIDE DEF l, n
<1>12. ASSUME NEW d \in Clients, NEW i \in Flying(d), <<d, i>> # <<c, l>>
       PROVE  /\ comps'[d][i % win_size] = comps[d][i % win_size]
              /\ Acted(d, i % win_size)' <=> Acted(d, i % win_size)
  <2>1. i % win_size \in Window
    BY <1>0, FlyingSlots
  <2>2. <<d, i % win_size>> # <<c, n>>
    BY <1>8, <1>12
  <2>3. comps'[d][i % win_size] = comps[d][i % win_size]
    BY <1>7, <2>1, <2>2
  <2> QED
    BY <1>0, <1>1, <2>3 DEF Acted
<1>13. ASSUME NEW d \in Clients, NEW i \in ReqIdx PROVE Executed(d, i)' <=> Executed(d, i)
  <2>1. CASE d = c /\ i = l
    BY <1>2, <1>4, <1>5, <1>11, <2>1 DEF Executed
  <2>2. CASE d = c /\ i # l
    BY <1>0, <1>4, <1>9, <1>12, <2>2 DEF Executed, l
  <2>3. CASE d # c
    BY <1>0, <1>3, <1>12, <2>3 DEF Executed
  <2> QED
    BY <2>1, <2>2, <2>3
<1>14. Stored'
  BY <1>0, <1>1, <1>13, StoredSame
<1>15. ASSUME NEW d \in Clients, NEW i \in Flying(d)' PROVE Waits(d, i)'
  <2>1. i \in Flying(d) /\ <<d, i>> # <<c, l>>
    BY <1>2, <1>3
  <2>2. Waits(d, i) /\ comps'[d][i % win_size] = comps[d][i % win_size]
    BY <1>12, <2>1 DEF IInv, Waiting
  <2> QED
    BY <1>0, <1>1, <2>2 DEF Waits, Prepares
<1>16. ASSUME NEW d \in Clients, NEW i \in 0 .. last_completed'[d] - 1
       PROVE  res'[d][i].k = Req(d, i).k /\ RightValue(d, i, res'[d][i].v)
  <2>1. CASE d = c /\ i = l
    BY <1>6, <1>10, <2>1
  <2>2. CASE <<d, i>> # <<c, l>>
    <3>1. i \in 0 .. last_completed[d] - 1
      BY <1>2, <1>3, <1>4, <2>2 DEF l
    <3>2. i \in ReqIdx
      <4>1. NumReqs \in Nat /\ Upper(d) \in Nat /\ Upper(d) <= NumReqs
        BY <1>0, Parameters, FlyingSlots DEF Counting, Typed
      <4>2. last_completed[d] \in Nat /\ last_completed[d] <= Upper(d)
        BY <1>0 DEF Counting, Typed, Upper
      <4> QED
        BY <3>1, <4>1, <4>2 DEF ReqIdx
    <3>3. res'[d][i] = res[d][i]
      BY <1>10, <2>2, <3>2
    <3> QED
      BY <3>1, <3>3 DEF IInv, Collected
  <2> QED
    BY <2>1, <2>2
<1>17. Collected'
  BY <1>0, <1>16 DEF Collected
<1> QED
  BY <1>0, <1>14, <1>15, <1>17 DEF Values, Waiting

\* A server thread takes a request and copies it to its slot; nothing is executed.
LEMMA TakeValues ==
  ASSUME IInv, NEW s \in Servers, spc[s] = "ring", Ring!Return(s), CopyResult(s),
         UNCHANGED <<cfg, clientVars>>, sbd' = [sbd EXCEPT ![s] = rval[s]],
         NEW x \in {"run", "exited"}, spc' = [spc EXCEPT ![s] = x],
         store' = store, kret' = kret, x = "run" => kmode'[s] = "called",
         \A t \in Servers : t # s => kmode'[t] = kmode[t]
  PROVE  Values'
<1>0. /\ cfg' = cfg /\ Board /\ Typed /\ Counting /\ Clients' = Clients /\ ReqIdx' = ReqIdx
      /\ win_size' = win_size
      /\ \A d, i : Req(d, i)' = Req(d, i) /\ Desc(d, i)' = Desc(d, i)
      /\ \A d, i, v : RightValue(d, i, v)' = RightValue(d, i, v)
  BY Fixed DEF IInv, Board
<1>1. rmode[s] = "done" /\ UNCHANGED <<cpc, last_submitted, last_completed, res>>
  BY DEF Ring!Return, clientVars
<1>2. /\ sbd'[s] = rval[s] /\ spc'[s] = x
      /\ \A t \in Servers : t # s => UNCHANGED <<spc[t], sbd[t], kmode[t], kret[t]>>
  BY <1>0 DEF Typed
<1> PICK d \in Clients : \E j \in Flying(d) :
      /\ rval[s] = Desc(d, j) /\ j % win_size \in Window
      /\ rval[s].res_off[1] = d /\ rval[s].res_off[2] = j % win_size
      /\ comps[d][j % win_size].ready = 0
  BY <1>0, <1>1, Got
<1> PICK j \in Flying(d) :
      /\ rval[s] = Desc(d, j) /\ j % win_size \in Window
      /\ rval[s].res_off[1] = d /\ rval[s].res_off[2] = j % win_size
      /\ comps[d][j % win_size].ready = 0
  OBVIOUS
<1> DEFINE n == j % win_size
<1>3. comps' = [comps EXCEPT ![d][n] = [k |-> rval[s].k, v |-> rval[s].v, ready |-> 0]]
  BY DEF CopyResult
<1>4. /\ comps'[d][n] = [k |-> rval[s].k, v |-> rval[s].v, ready |-> 0]
      /\ \A c \in Clients, m \in Window : <<c, m>> # <<d, n>> => comps'[c][m] = comps[c][m]
  BY <1>0, <1>3 DEF Typed
<1>5. rval[s].k = Req(d, j).k /\ rval[s].v = Req(d, j).v /\ rval[s].res_off = <<d, n>>
  BY DEF Desc
<1>6. \A c \in Clients : Flying(c)' = Flying(c)
  BY <1>1 DEF Flying, Upper
<1>7. \A c \in Clients, m \in Window : Acted(c, m)' <=> Acted(c, m)
  <2>1. \A c \in Clients, m \in Window : comps'[c][m].ready = comps[c][m].ready
    BY <1>4
  <2>2. \A t \in Servers : (spc'[t] = "ready" \/ (spc'[t] = "run" /\ kmode'[t] = "done"))
                             <=> (spc[t] = "ready" \/ (spc[t] = "run" /\ kmode[t] = "done"))
    BY <1>2
  <2>3. \A t \in Servers : t # s => sbd'[t] = sbd[t]
    BY <1>2
  <2>4. ~(spc[s] = "ready" \/ (spc[s] = "run" /\ kmode[s] = "done"))
    OBVIOUS
  <2> QED
    BY <2>1, <2>2, <2>3, <2>4 DEF Acted
<1>8. \A c \in Clients, i \in ReqIdx : Executed(c, i)' <=> Executed(c, i)
  <2>1. \A c \in Clients : \A i \in Flying(c) : i % win_size \in Window
    BY <1>0, FlyingSlots
  <2> QED
    BY <1>0, <1>1, <1>6, <1>7, <2>1 DEF Executed
<1>9. Stored'
  BY <1>8, StoredSame
<1>10. \A t \in Servers : t # s /\ sbd[t] = Desc(d, j) => spc[t] \notin {"run", "ready"}
  <2> SUFFICES ASSUME NEW t \in Servers, sbd[t] = Desc(d, j), spc[t] \in {"run", "ready"}
               PROVE  FALSE
    OBVIOUS
  <2>1. /\ AtRun(t) \in Places /\ AtGet(s) \in Places
        /\ DescOf(AtRun(t)) = Desc(d, j) /\ DescOf(AtGet(s)) = Desc(d, j)
    BY <1>0, <1>1, Got, Taken
  <2>2. AtRun(t) = AtGet(s)
    BY <1>0, <2>1 DEF Board, Apart
  <2> QED
    BY <2>2, PlacesDiffer
<1>11. Waits(d, j)'
  <2>1. ASSUME NEW t \in Servers, sbd'[t] = Desc(d, j) PROVE Prepares(t, d, j)'
    <3>1. CASE t = s
      BY <1>0, <1>2, <1>4, <1>5, <3>1 DEF Prepares
    <3>2. CASE t # s
      BY <1>2, <1>10, <2>1, <3>2 DEF Prepares
    <3> QED
      BY <3>1, <3>2
  <2> QED
    BY <1>0, <1>4, <2>1 DEF Waits
<1> HIDE DEF n
<1>12. ASSUME NEW c \in Clients, NEW i \in Flying(c), <<c, i>> # <<d, j>> PROVE Waits(c, i)'
  BY <1>0, <1>2, <1>4, <1>6, <1>12, OthersWait DEF n
<1>13. \A c \in Clients : \A i \in Flying(c)' : Waits(c, i)'
  BY <1>6, <1>11, <1>12
<1>14. Collected'
  BY <1>0, <1>1 DEF IInv, Collected
<1> QED
  BY <1>0, <1>9, <1>13, <1>14 DEF Values, Waiting

\* The server thread has the result of put or get: for a get it goes into the slot.
LEMMA ReturnValues ==
  ASSUME IInv, NEW s \in Servers, ServerReturn(s)
  PROVE  Values'
<1>0. /\ cfg' = cfg /\ Board /\ Typed /\ Counting /\ Serving /\ Clients' = Clients
      /\ ReqIdx' = ReqIdx /\ win_size' = win_size
      /\ \A d, i : Req(d, i)' = Req(d, i) /\ Desc(d, i)' = Desc(d, i)
      /\ \A d, i, v : RightValue(d, i, v)' = RightValue(d, i, v)
  BY Fixed DEF IInv, Board, ServerReturn
<1>1. /\ spc[s] = "run" /\ kmode[s] = "done" /\ spc' = [spc EXCEPT ![s] = "ready"]
      /\ kmode' = [kmode EXCEPT ![s] = "idle"] /\ kret' = [kret EXCEPT ![s] = 0]
      /\ UNCHANGED <<cpc, last_submitted, last_completed, res, sbd, store>>
      /\ comps' = [comps EXCEPT ![sbd[s].res_off[1]][sbd[s].res_off[2]].v =
                     IF sbd[s].req_type = "GET" THEN kret[s] ELSE @]
  BY DEF ServerReturn, Table!Return, clientVars
<1>2. /\ spc'[s] = "ready"
      /\ \A t \in Servers : t # s => UNCHANGED <<spc[t], sbd[t], kmode[t], kret[t]>>
  BY <1>0, <1>1 DEF Typed
<1> PICK d \in Clients : \E j \in Flying(d) :
      /\ sbd[s] = Desc(d, j) /\ j % win_size \in Window
      /\ sbd[s].res_off[1] = d /\ sbd[s].res_off[2] = j % win_size
      /\ comps[d][j % win_size].ready = 0
  BY <1>0, <1>1, Taken
<1> PICK j \in Flying(d) :
      /\ sbd[s] = Desc(d, j) /\ j % win_size \in Window
      /\ sbd[s].res_off[1] = d /\ sbd[s].res_off[2] = j % win_size
      /\ comps[d][j % win_size].ready = 0
  OBVIOUS
<1> DEFINE n == j % win_size
<1>3. sbd[s].req_type = Req(d, j).t /\ Req(d, j).t \in {"PUT", "GET"} /\ sbd[s].res_off = <<d, n>>
  <2>1. sbd[s].req_type = Req(d, j).t /\ sbd[s].res_off = <<d, n>>
    BY DEF Desc
  <2>2. sbd[s].req_type \in {"PUT", "GET"}
    BY <1>0, <1>1 DEF Serving, ServesAt
  <2> QED
    BY <2>1, <2>2
<1>4. /\ comps'[d][n].v = (IF Req(d, j).t = "GET" THEN kret[s] ELSE comps[d][n].v)
      /\ comps'[d][n].k = comps[d][n].k /\ comps'[d][n].ready = 0
      /\ \A c \in Clients, m \in Window : <<c, m>> # <<d, n>> => comps'[c][m] = comps[c][m]
  BY <1>0, <1>1, <1>3 DEF Typed, Answer
<1>5. Prepares(s, d, j)
  BY DEF IInv, Waiting, Waits
<1>6. \A c \in Clients : Flying(c)' = Flying(c)
  BY <1>1 DEF Flying, Upper
<1>7. \A c \in Clients, m \in Window : Acted(c, m)' <=> Acted(c, m)
  <2>1. \A c \in Clients, m \in Window : comps'[c][m].ready = comps[c][m].ready
    BY <1>4
  <2>2. \A t \in Servers : (spc'[t] = "ready" \/ (spc'[t] = "run" /\ kmode'[t] = "done"))
                             <=> (spc[t] = "ready" \/ (spc[t] = "run" /\ kmode[t] = "done"))
    BY <1>1, <1>2
  <2> QED
    BY <1>1, <2>1, <2>2 DEF Acted
<1>8. \A c \in Clients, i \in ReqIdx : Executed(c, i)' <=> Executed(c, i)
  <2>1. \A c \in Clients : \A i \in Flying(c) : i % win_size \in Window
    BY <1>0, FlyingSlots
  <2> QED
    BY <1>0, <1>1, <1>6, <1>7, <2>1 DEF Executed
<1>9. Stored'
  BY <1>0, <1>1, <1>8, StoredSame
<1>10. \A t \in Servers : t # s /\ sbd[t] = Desc(d, j) => spc[t] \notin {"run", "ready"}
  BY <1>0, <1>1, OneServer
<1>11. Waits(d, j)'
  <2>1. RightValue(d, j, comps'[d][n].v)
    BY <1>1, <1>3, <1>4, <1>5 DEF Prepares, RightValue
  <2>2. comps'[d][n].k = Req(d, j).k
    BY <1>1, <1>4, <1>5 DEF Prepares
  <2>3. ASSUME NEW t \in Servers, sbd'[t] = Desc(d, j) PROVE Prepares(t, d, j)'
    <3>1. CASE t = s
      BY <1>0, <1>2, <2>1, <2>2, <3>1 DEF Prepares
    <3>2. CASE t # s
      BY <1>2, <1>10, <2>3, <3>2 DEF Prepares
    <3> QED
      BY <3>1, <3>2
  <2> QED
    BY <1>0, <1>4, <2>3 DEF Waits
<1> HIDE DEF n
<1>12. ASSUME NEW c \in Clients, NEW i \in Flying(c), <<c, i>> # <<d, j>> PROVE Waits(c, i)'
  BY <1>0, <1>1, <1>2, <1>4, <1>6, <1>12, OthersWait DEF n
<1>13. \A c \in Clients : \A i \in Flying(c)' : Waits(c, i)'
  BY <1>6, <1>11, <1>12
<1>14. Collected'
  BY <1>0, <1>1 DEF IInv, Collected
<1> QED
  BY <1>0, <1>9, <1>13, <1>14 DEF Values, Waiting

\* The answer prepared is published.
LEMMA ReadyValues ==
  ASSUME IInv, NEW s \in Servers, ServerReady(s)
  PROVE  Values'
<1>0. /\ cfg' = cfg /\ Board /\ Typed /\ Counting /\ Clients' = Clients
      /\ ReqIdx' = ReqIdx /\ win_size' = win_size
      /\ \A d, i : Req(d, i)' = Req(d, i) /\ Desc(d, i)' = Desc(d, i)
      /\ \A d, i, v : RightValue(d, i, v)' = RightValue(d, i, v)
  BY Fixed DEF IInv, Board, ServerReady
<1>1. /\ spc[s] = "ready" /\ spc' = [spc EXCEPT ![s] = "get"] /\ sbd' = [sbd EXCEPT ![s] = NoDesc]
      /\ UNCHANGED <<cpc, last_submitted, last_completed, res, store, kmode, kret>>
      /\ comps' = [comps EXCEPT ![sbd[s].res_off[1]][sbd[s].res_off[2]].ready = 1]
  BY DEF ServerReady, clientVars, tableVars
<1>2. /\ spc'[s] = "get"
      /\ \A t \in Servers : t # s => UNCHANGED <<spc[t], sbd[t], kmode[t], kret[t]>>
  BY <1>0, <1>1 DEF Typed
<1> PICK d \in Clients : \E j \in Flying(d) :
      /\ sbd[s] = Desc(d, j) /\ j % win_size \in Window
      /\ sbd[s].res_off[1] = d /\ sbd[s].res_off[2] = j % win_size
  BY <1>0, <1>1, Taken
<1> PICK j \in Flying(d) :
      /\ sbd[s] = Desc(d, j) /\ j % win_size \in Window
      /\ sbd[s].res_off[1] = d /\ sbd[s].res_off[2] = j % win_size
  OBVIOUS
<1> DEFINE n == j % win_size
<1>3. sbd[s].res_off = <<d, n>>
  BY DEF Desc
<1>4. /\ comps'[d][n].v = comps[d][n].v /\ comps'[d][n].k = comps[d][n].k
      /\ comps'[d][n].ready = 1
      /\ \A c \in Clients, m \in Window : <<c, m>> # <<d, n>> => comps'[c][m] = comps[c][m]
  BY <1>0, <1>1, <1>3 DEF Typed, Answer
<1>5. Prepares(s, d, j)
  BY DEF IInv, Waiting, Waits
<1>6. \A c \in Clients : Flying(c)' = Flying(c)
  BY <1>1 DEF Flying, Upper
<1>7. ASSUME NEW c \in Clients, NEW m \in Window PROVE Acted(c, m)' <=> Acted(c, m)
  <2>1. CASE <<c, m>> = <<d, n>>
    BY <1>1, <1>3, <1>4, <2>1 DEF Acted
  <2>2. CASE <<c, m>> # <<d, n>>
    <3>1. comps'[c][m] = comps[c][m] /\ sbd[s].res_off # <<c, m>>
      BY <1>3, <1>4, <2>2
    <3> QED
      BY <1>2, <3>1 DEF Acted
  <2> QED
    BY <2>1, <2>2
<1>8. \A c \in Clients, i \in ReqIdx : Executed(c, i)' <=> Executed(c, i)
  <2>1. \A c \in Clients : \A i \in Flying(c) : i % win_size \in Window
    BY <1>0, FlyingSlots
  <2> QED
    BY <1>0, <1>1, <1>6, <1>7, <2>1 DEF Executed
<1>9. Stored'
  BY <1>0, <1>1, <1>8, StoredSame
<1>10. \A t \in Servers : t # s /\ sbd[t] = Desc(d, j) => spc[t] \notin {"run", "ready"}
  BY <1>0, <1>1, OneServer
<1>11. Waits(d, j)'
  <2>1. RightValue(d, j, comps'[d][n].v) /\ comps'[d][n].k = Req(d, j).k
    BY <1>1, <1>4, <1>5 DEF Prepares
  <2>2. ASSUME NEW t \in Servers, sbd'[t] = Desc(d, j) PROVE Prepares(t, d, j)'
    <3>1. CASE t = s
      BY <1>2, <3>1 DEF Prepares
    <3>2. CASE t # s
      BY <1>2, <1>10, <2>2, <3>2 DEF Prepares
    <3> QED
      BY <3>1, <3>2
  <2> QED
    BY <1>0, <2>1, <2>2 DEF Waits
<1> HIDE DEF n
<1>12. ASSUME NEW c \in Clients, NEW i \in Flying(c), <<c, i>> # <<d, j>> PROVE Waits(c, i)'
  BY <1>0, <1>1, <1>2, <1>4, <1>6, <1>12, OthersWait DEF n
<1>13. \A c \in Clients : \A i \in Flying(c)' : Waits(c, i)'
  BY <1>6, <1>11, <1>12
<1>14. Collected'
  BY <1>0, <1>1 DEF IInv, Collected
<1> QED
  BY <1>0, <1>9, <1>13, <1>14 DEF Values, Waiting

\* Whatever is executed lies within a window of a request in flight.
LEMMA WithinWindow ==
  ASSUME Board, NEW d \in Clients, NEW j \in Flying(d), NEW m \in ReqIdx
  PROVE  /\ Executed(d, m) => m < j + win_size
         /\ m + win_size <= j => Executed(d, m)
<1> DEFINE l == last_completed[d]
           u == Upper(d)
           w == win_size
<1>1. l \in Nat /\ u \in Nat /\ w \in Nat \ {0} /\ u <= l + w /\ NumReqs \in Nat
  BY Parameters, FlyingSlots DEF Board, Typed, Counting
<1>2. j \in l .. u - 1 /\ m \in 0 .. NumReqs - 1
  BY DEF Flying, ReqIdx
<1>3. Executed(d, m) => m < l \/ m \in l .. u - 1
  BY DEF Executed, Flying
<1>4. m < l => Executed(d, m)
  BY DEF Executed
<1> HIDE DEF l, u, w
<1>5. Executed(d, m) => m < j + w
  BY <1>1, <1>2, <1>3
<1>6. m + w <= j => Executed(d, m)
  BY <1>1, <1>2, <1>4
<1> QED
  BY <1>5, <1>6 DEF w

\* What a get of a key of its own finds in the table is an allowed answer.
LEMMA FreshRead ==
  ASSUME IInv, NEW d \in Clients, NEW j \in Flying(d), Req(d, j).t = "GET",
         Private(d, Req(d, j).k)
  PROVE  store[Req(d, j).k] \in Allowed(d, j)
<1> DEFINE k == Req(d, j).k
           P == Puts(d, k)
           w == win_size
<1>1. Board /\ j \in ReqIdx /\ k \in Keys
  BY FlyingSlots, Workload DEF IInv, Board, Typed
<1>2. P \subseteq ReqIdx
  BY DEF Puts
<1>3. \A m \in P : (Executed(d, m) => m < j + w) /\ (m + w <= j => Executed(d, m))
  BY <1>1, <1>2, WithinWindow
<1>4. \/ store[k] = 0 /\ \A i \in P : ~Executed(d, i)
      \/ \E i \in P : /\ Executed(d, i) /\ store[k] = Req(d, i).v
                      /\ \A m \in P : Executed(d, m) => m < i + w
  BY <1>1 DEF IInv, Stored
<1>5. Allowed(d, j) = {Req(d, i).v : i \in {i \in P : /\ i < j + w
                                                    /\ ~\E m \in P : i + w <= m /\ m + w <= j}}
                        \cup (IF \E i \in P : i + w <= j THEN {} ELSE {0})
  BY DEF Allowed
<1>6. \A m \in P, i \in P : m < i + w => ~(i + w <= m)
  <2>1. w \in Nat /\ \A m \in P : m \in Nat
    BY <1>1, <1>2, Parameters DEF Board, Typed, ReqIdx
  <2> HIDE DEF P, w
  <2> QED
    BY <2>1
<1> HIDE DEF P, w, k
<1>7. CASE store[k] = 0 /\ \A i \in P : ~Executed(d, i)
  BY <1>3, <1>5, <1>7 DEF k
<1>8. CASE \E i \in P : /\ Executed(d, i) /\ store[k] = Req(d, i).v
                        /\ \A m \in P : Executed(d, m) => m < i + w
  <2> PICK i \in P : /\ Executed(d, i) /\ store[k] = Req(d, i).v
                     /\ \A m \in P : Executed(d, m) => m < i + w
    BY <1>8
  <2>1. i < j + w /\ ~\E m \in P : i + w <= m /\ m + w <= j
    BY <1>3, <1>6
  <2> QED
    BY <1>5, <2>1 DEF k
<1> QED
  BY <1>4, <1>7, <1>8

\* put or get takes effect.
LEMMA DoValues ==
  ASSUME IInv, NEW s \in Servers, ServerDo(s)
  PROVE  Values'
<1>0. /\ cfg' = cfg /\ cfg \in Configs /\ Board /\ Typed /\ Counting /\ Serving /\ Clients' = Clients
      /\ ReqIdx' = ReqIdx /\ win_size' = win_size
      /\ \A d, i : Req(d, i)' = Req(d, i) /\ Desc(d, i)' = Desc(d, i)
      /\ \A d, k : Private(d, k)' = Private(d, k) /\ Puts(d, k)' = Puts(d, k)
      /\ \A d, i, v : RightValue(d, i, v)' = RightValue(d, i, v)
  BY Fixed DEF IInv, Board, Typed, ServerDo
<1>1. /\ kmode[s] = "called" /\ kmode' = [kmode EXCEPT ![s] = "done"]
      /\ UNCHANGED <<cpc, last_submitted, last_completed, res, comps, spc, sbd>>
  BY DEF ServerDo, Table!DoPut, Table!DoGet, clientVars, serverVars
<1>2. /\ spc[s] = "run" /\ kmode'[s] = "done" /\ \A t \in Servers : t # s => kmode'[t] = kmode[t]
  BY <1>0, <1>1 DEF Typed, Serving, ServesAt
<1> PICK d \in Clients : \E j \in Flying(d) : sbd[s] = Desc(d, j) /\ j \in ReqIdx
  BY <1>0, <1>2, Taken
<1> PICK j \in Flying(d) : sbd[s] = Desc(d, j) /\ j \in ReqIdx
  OBVIOUS
<1> DEFINE n == j % win_size
           K == Req(d, j).k
<1>3. /\ sbd[s].req_type = Req(d, j).t /\ sbd[s].k = K /\ sbd[s].v = Req(d, j).v
      /\ sbd[s].res_off = <<d, n>>
  BY DEF Desc
<1>4. Req(d, j).t \in {"PUT", "GET"} /\ K \in Keys
      /\ kop[s] = IF Req(d, j).t = "PUT" THEN [type |-> "put", k |-> K, v |-> Req(d, j).v]
                                         ELSE [type |-> "get", k |-> K, v |-> 0]
  <2>1. sbd[s].req_type \in {"PUT", "GET"}
        /\ kop[s] = IF sbd[s].req_type = "PUT"
                    THEN [type |-> "put", k |-> sbd[s].k, v |-> sbd[s].v]
                    ELSE [type |-> "get", k |-> sbd[s].k, v |-> 0]
    BY <1>0, <1>2 DEF Serving, ServesAt
  <2>2. Req(d, j).t \in {"PUT", "GET"}
    BY <1>3, <2>1
  <2>3. K \in Keys
    BY <1>0, <2>2, Workload
  <2> QED
    BY <1>3, <2>1, <2>2, <2>3
<1>5. \A c \in Clients : Flying(c)' = Flying(c)
  BY <1>1 DEF Flying, Upper
<1>6. \A c, m : Acted(c, m)' <=> Acted(c, m) \/ <<c, m>> = <<d, n>>
  BY <1>1, <1>2, <1>3 DEF Acted
<1>7. ASSUME NEW c \in Clients, NEW i \in ReqIdx
      PROVE  Executed(c, i)' <=> Executed(c, i) \/ <<c, i>> = <<d, j>>
  <2>1. CASE <<c, i>> = <<d, j>>
    BY <1>0, <1>5, <1>6, <2>1 DEF Executed
  <2>2. CASE <<c, i>> # <<d, j>>
    <3>1. i \in Flying(c) => <<c, i % win_size>> # <<d, n>>
      BY <1>0, <2>2, SameSlot DEF Desc
    <3> QED
      BY <1>0, <1>1, <1>5, <1>6, <2>2, <3>1 DEF Executed
  <2> QED
    BY <2>1, <2>2
<1>8. \A c, k : \A i \in Puts(c, k) : i \in ReqIdx /\ Req(c, i).t = "PUT" /\ Req(c, i).k = k
  BY DEF Puts
<1>9. Waits(d, j)
  BY DEF IInv, Waiting
<1>10. \A t \in Servers : t # s /\ sbd[t] = Desc(d, j) => spc[t] \notin {"run", "ready"}
  BY <1>0, <1>2, OneServer
<1>11. \A t \in Servers : t # s => kret'[t] = kret[t]
  BY <1>0 DEF ServerDo, Table!DoPut, Table!DoGet, Typed
<1>12. ASSUME NEW c \in Clients, NEW i \in Flying(c), <<c, i>> # <<d, j>> PROVE Waits(c, i)'
  BY <1>0, <1>1, <1>2, <1>5, <1>11, <1>12, OthersWait
<1>13. Collected'
  BY <1>0, <1>1 DEF IInv, Collected
<1> HIDE DEF n, K
<1>14. ASSUME Req(d, j).t = "GET" => RightValue(d, j, kret'[s]) PROVE Waiting'
  <2>1. ASSUME NEW t \in Servers, sbd'[t] = Desc(d, j) PROVE Prepares(t, d, j)'
    <3>1. CASE t = s
      <4>1. Prepares(s, d, j)
        BY <1>9 DEF Waits
      <4> QED
        BY <1>0, <1>1, <1>2, <1>14, <3>1, <4>1 DEF Prepares
    <3>2. CASE t # s
      BY <1>1, <1>10, <2>1, <3>2 DEF Prepares
    <3> QED
      BY <3>1, <3>2
  <2>2. Waits(d, j)'
    BY <1>0, <1>1, <1>9, <2>1 DEF Waits
  <2> QED
    BY <1>0, <1>5, <1>12, <2>2 DEF Waiting
<1>15. CASE Table!DoPut(s)
  <2>1. kop[s].type = "put" /\ store' = [store EXCEPT ![kop[s].k] = kop[s].v]
    BY <1>15 DEF Table!DoPut
  <2>2. Req(d, j).t = "PUT"
    BY <1>4, <2>1
  <2>3. store' = [store EXCEPT ![K] = Req(d, j).v]
    BY <1>4, <2>1, <2>2
  <2>4. store'[K] = Req(d, j).v /\ \A k \in Keys : k # K => store'[k] = store[k]
    BY <1>0, <1>4, <2>3 DEF Typed
  <2>5. ASSUME NEW c \in Clients, NEW k \in Keys, Private(c, k)
        PROVE  \/ store'[k] = 0 /\ \A i \in Puts(c, k) : ~Executed(c, i)'
               \/ \E i \in Puts(c, k) : /\ Executed(c, i)' /\ store'[k] = Req(c, i).v
                                        /\ \A m \in Puts(c, k) : Executed(c, m)' => m < i + win_size
    <3>1. CASE k = K
      <4>1. c = d
        BY <2>5, <3>1 DEF Private, K
      <4>2. j \in Puts(c, k) /\ Executed(d, j)'
        BY <1>7, <2>2, <3>1, <4>1 DEF Puts, K
      <4>3. j < j + win_size
        BY <1>0, Parameters DEF ReqIdx
      <4>4. \A m \in Puts(c, k) : Executed(d, m)' => m < j + win_size
        BY <1>0, <1>7, <1>8, <4>3, WithinWindow
      <4> QED
        BY <2>4, <3>1, <4>1, <4>2, <4>4
    <3>2. CASE k # K
      <4>1. \A i \in Puts(c, k) : Executed(c, i)' <=> Executed(c, i)
        BY <1>7, <1>8, <3>2 DEF K
      <4>2. \/ store[k] = 0 /\ \A i \in Puts(c, k) : ~Executed(c, i)
            \/ \E i \in Puts(c, k) : /\ Executed(c, i) /\ store[k] = Req(c, i).v
                                     /\ \A m \in Puts(c, k) : Executed(c, m) => m < i + win_size
        BY <2>5 DEF IInv, Stored
      <4> QED
        BY <2>4, <3>2, <4>1, <4>2
    <3> QED
      BY <3>1, <3>2
  <2>6. Stored'
    BY <1>0, <2>5 DEF Stored
  <2> QED
    BY <1>13, <1>14, <2>2, <2>6 DEF Values
<1>16. CASE Table!DoGet(s)
  <2>1. kop[s].type = "get" /\ kret' = [kret EXCEPT ![s] = store[kop[s].k]] /\ store' = store
    BY <1>16 DEF Table!DoGet
  <2>2. Req(d, j).t = "GET" /\ kop[s].k = K
    BY <1>4, <2>1
  <2>3. kret'[s] = store[K]
    BY <1>0, <2>1, <2>2 DEF Typed
  <2>4. RightValue(d, j, kret'[s])
    BY <2>2, <2>3, FreshRead DEF RightValue, K
  <2>5. ASSUME NEW c \in Clients, NEW k \in Keys, Private(c, k)
        PROVE  \/ store'[k] = 0 /\ \A i \in Puts(c, k) : ~Executed(c, i)'
               \/ \E i \in Puts(c, k) : /\ Executed(c, i)' /\ store'[k] = Req(c, i).v
                                        /\ \A m \in Puts(c, k) : Executed(c, m)' => m < i + win_size
    <3>1. \A i \in Puts(c, k) : Executed(c, i)' <=> Executed(c, i)
      BY <1>7, <1>8, <2>2
    <3>2. \/ store[k] = 0 /\ \A i \in Puts(c, k) : ~Executed(c, i)
          \/ \E i \in Puts(c, k) : /\ Executed(c, i) /\ store[k] = Req(c, i).v
                                   /\ \A m \in Puts(c, k) : Executed(c, m) => m < i + win_size
      BY <2>5 DEF IInv, Stored
    <3> QED
      BY <2>1, <3>1, <3>2
  <2>6. Stored'
    BY <1>0, <2>5 DEF Stored
  <2> QED
    BY <1>13, <1>14, <2>4, <2>6 DEF Values
<1> QED
  BY <1>15, <1>16 DEF ServerDo

\* At the start nothing is executed and the table is empty.
LEMMA InitValues == Init => Values
<1> SUFFICES ASSUME Init PROVE Values
  OBVIOUS
<1>1. Board /\ NumReqs \in Nat
  BY InitBoard, Parameters DEF Board, Typed
<1>2. \A c \in Clients : last_completed[c] = 0 /\ last_submitted[c] = 0 /\ cpc[c] # "ring"
  BY <1>1 DEF Init, LoopTest
<1>3. \A c \in Clients : Flying(c) = {}
  BY <1>2 DEF Flying, Upper
<1>4. \A c \in Clients, i \in ReqIdx : ~Executed(c, i)
  BY <1>1, <1>2, <1>3 DEF Executed, ReqIdx
<1>5. \A k \in Keys : store[k] = 0
  BY DEF Init, Table!Init
<1>6. Stored
  BY <1>4, <1>5 DEF Stored, Puts
<1>7. Waiting
  BY <1>3 DEF Waiting
<1>8. Collected
  BY <1>2 DEF Collected
<1> QED
  BY <1>6, <1>7, <1>8 DEF Values

\* Every step keeps the answers right.
LEMMA ValuesNext == IInv /\ [Next]_vars => Values'
<1> SUFFICES ASSUME IInv, [Next]_vars PROVE Values'
  OBVIOUS
<1>0. /\ cfg' = cfg /\ Typed /\ Counting /\ Serving /\ Board' /\ Clients' = Clients
  BY ConfigFixed, Fixed, BoardNext DEF IInv, Board
<1>1. ASSUME UNCHANGED <<last_submitted, last_completed, res, comps, store, kmode, kret, spc, sbd>>,
             \A c \in Clients : cpc'[c] = "ring" <=> cpc[c] = "ring"
      PROVE  Values'
  <2>1. \A c \in Clients : Flying(c)' = Flying(c)
    BY <1>1 DEF Flying, Upper
  <2> QED
    BY <1>0, <1>1, <2>1, ValuesSame
<1>2. CASE UNCHANGED vars
  BY <1>1, <1>2 DEF vars, clientVars, tableVars, serverVars
<1>3. CASE Kill \/ Ended
  BY <1>1, <1>3 DEF Kill, Ended, vars, clientVars, tableVars, serverVars
<1>4. ASSUME NEW c \in Clients, SubmitReq(c) PROVE Values'
  BY <1>0, <1>4, SubmitValues
<1>5. ASSUME NEW c \in Clients, RingEnq(c) PROVE Values'
  BY <1>1, <1>5 DEF RingEnq, clientVars, tableVars, serverVars
<1>6. ASSUME NEW c \in Clients, SubmitReturn(c) PROVE Values'
  <2>1. /\ cpc[c] = "ring" /\ last_submitted' = [last_submitted EXCEPT ![c] = @ + 1]
        /\ cpc' = [cpc EXCEPT ![c] = "submit"]
        /\ UNCHANGED <<last_completed, res, comps, store, kmode, kret, spc, sbd>>
    BY <1>6 DEF SubmitReturn, tableVars, serverVars
  <2>2. /\ cpc'[c] = "submit" /\ last_submitted'[c] = last_submitted[c] + 1
        /\ \A d \in Clients : d # c => cpc'[d] = cpc[d] /\ last_submitted'[d] = last_submitted[d]
    BY <1>0, <2>1 DEF Typed
  <2>3. \A d \in Clients : Flying(d)' = Flying(d)
    BY <2>1, <2>2 DEF Flying, Upper
  <2> QED
    BY <1>0, <2>1, <2>3, ValuesSame
<1>7. ASSUME NEW c \in Clients, SubmitEnd(c) PROVE Values'
  BY <1>0, <1>1, <1>7 DEF SubmitEnd, tableVars, serverVars, Typed
<1>8. ASSUME NEW c \in Clients, CompleteEnd(c) PROVE Values'
  BY <1>0, <1>1, <1>8 DEF CompleteEnd, LoopTest, tableVars, serverVars, Typed
<1>9. ASSUME NEW s \in Servers, ServerGetCall(s) PROVE Values'
  <2>1. /\ spc[s] = "get" /\ spc' = [spc EXCEPT ![s] = "ring"]
        /\ UNCHANGED <<cpc, last_submitted, last_completed, res, comps, store, kmode, kret, sbd>>
    BY <1>9 DEF ServerGetCall, clientVars, tableVars
  <2>2. spc'[s] = "ring" /\ \A t \in Servers : t # s => spc'[t] = spc[t]
    BY <1>0, <2>1 DEF Typed
  <2>3. \A d \in Clients : Flying(d)' = Flying(d)
    BY <2>1 DEF Flying, Upper
  <2> QED
    BY <1>0, <2>1, <2>2, <2>3, ValuesSame
<1>10. ASSUME NEW s \in Servers, RingDeq(s) PROVE Values'
  BY <1>1, <1>10 DEF RingDeq, clientVars, tableVars, serverVars
<1>11. ASSUME NEW s \in Servers, ServerRun(s) PROVE Values'
  <2>1. /\ spc[s] = "ring" /\ Ring!Return(s) /\ CopyResult(s)
        /\ UNCHANGED <<cfg, clientVars, store, kret>> /\ sbd' = [sbd EXCEPT ![s] = rval[s]]
        /\ spc' = [spc EXCEPT ![s] = "run"] /\ kmode' = [kmode EXCEPT ![s] = "called"]
    BY <1>11 DEF ServerRun, Table!Call
  <2>2. kmode'[s] = "called" /\ \A t \in Servers : t # s => kmode'[t] = kmode[t]
    BY <1>0, <2>1 DEF Typed
  <2>3. "run" \in {"run", "exited"}
    OBVIOUS
  <2> QED
    BY <2>1, <2>2, <2>3, TakeValues
<1>12. ASSUME NEW s \in Servers, ServerInvalid(s) PROVE Values'
  <2>1. /\ spc[s] = "ring" /\ Ring!Return(s) /\ CopyResult(s)
        /\ UNCHANGED <<cfg, clientVars, store, kmode, kret>> /\ sbd' = [sbd EXCEPT ![s] = rval[s]]
        /\ spc' = [spc EXCEPT ![s] = "exited"]
    BY <1>12 DEF ServerInvalid, tableVars
  <2>2. "exited" \in {"run", "exited"} /\ "exited" # "run"
    OBVIOUS
  <2> QED
    BY <2>1, <2>2, TakeValues
<1> QED
  BY <1>2, <1>3, <1>4, <1>5, <1>6, <1>7, <1>8, <1>9, <1>10, <1>11, <1>12, CompleteValues,
     DoValues, ReturnValues, ReadyValues
  DEF Next, ClientStep, ServerStep

\* The inductive invariant.
LEMMA Invariant == Spec => []IInv
<1>1. Init => IInv
  BY InitBoard, InitValues DEF IInv, Values
<1>2. IInv /\ [Next]_vars => IInv'
  BY BoardNext, ValuesNext DEF IInv, Values
<1> QED
  BY <1>1, <1>2, PTL DEF Spec

(***************************************************************************)
(* An answer collected is the answer to its own request: the key and value *)
(* of a put, and for a get of a key that no other client thread uses a     *)
(* value that the puts within a window of it allow.  Server threads take   *)
(* requests from the ring in order and execute them in any order.          *)
(***************************************************************************)
THEOREM AnswersRight == Spec => []AnswersMatch
<1>1. IInv => AnswersMatch
  BY DEF IInv, Collected, RightValue, AnswersMatch
<1> QED
  BY <1>1, Invariant, PTL

\* Once every client thread is done, none of its requests is anywhere in the system.
LEMMA NothingLeft ==
  ASSUME Board, AllDone
  PROVE  /\ Places = {} /\ \A c \in Clients : last_completed[c] = NumReqs
<1>1. ASSUME NEW c \in Clients PROVE last_completed[c] = NumReqs /\ Flying(c) = {}
  <2>1. cpc[c] = "done"
    BY DEF AllDone
  <2>2. /\ last_completed[c] = NumReqs /\ Upper(c) = last_submitted[c] /\ Upper(c) <= NumReqs
        /\ last_submitted[c] \in Nat
    BY <2>1 DEF Board, Typed, Counting, Upper
  <2>3. NumReqs \in Nat
    BY Parameters DEF Board, Typed
  <2> QED
    BY <2>2, <2>3 DEF Flying
<1>2. Places = {}
  BY <1>1 DEF Board, Placed
<1> QED
  BY <1>1, <1>2

(***************************************************************************)
(* SIGKILL interrupts nothing: when main sends it the ring is empty, every *)
(* server thread waits for a request, and the table holds what was put.    *)
(***************************************************************************)
THEOREM KillQuiescent == Spec => []QuiescentAtKill
<1>1. IInv => QuiescentAtKill
  <2> SUFFICES ASSUME IInv, killed PROVE QuiescentAtKill
    BY DEF QuiescentAtKill
  <2>1. Board /\ Typed /\ Serving /\ AllDone
    BY DEF IInv, Board, Stopped
  <2>2. Places = {} /\ \A c \in Clients : last_completed[c] = NumReqs
    BY <2>1, NothingLeft
  <2>3. q = << >>
    <3>1. \A n \in 1 .. Len(q) : FALSE
      BY <2>2, PlaceKinds
    <3>2. q \in Seq(Descs) /\ Len(q) \in Nat
      BY <2>1, LenProperties DEF Typed
    <3>3. Len(q) = 0
      BY <3>1, <3>2
    <3> QED
      BY <3>2, <3>3, EmptySeq
  <2>4. ASSUME NEW s \in Servers
        PROVE  kmode[s] = "idle" /\ rmode[s] # "done" /\ spc[s] \in {"get", "ring"}
    <3>1. rmode[s] # "done" /\ spc[s] \notin {"run", "ready", "exited"}
      BY <2>2, PlaceKinds
    <3> QED
      BY <2>1, <3>1 DEF Typed, Serving, ServesAt
  <2>5. ASSUME NEW c \in Clients, NEW k \in Keys, NEW i \in Puts(c, k), Private(c, k),
               Puts(c, k) = {i}
        PROVE  store[k] = Req(c, i).v
    <3>1. i < last_completed[c]
      BY <2>1, <2>2, Parameters DEF Puts, ReqIdx, Typed
    <3>2. Executed(c, i)
      BY <3>1 DEF Executed
    <3> QED
      BY <2>5, <3>2 DEF IInv, Stored
  <2> QED
    BY <2>3, <2>4, <2>5 DEF QuiescentAtKill
<1> QED
  BY <1>1, Invariant, PTL

(***************************************************************************)
(* With -n 1 -w 1 the -c check cannot fail, whatever the workload and      *)
(* however many threads the server has: every get is answered with the     *)
(* value of the last put before it.                                        *)
(***************************************************************************)
THEOREM SyncCheck == Spec => []SyncCheckSucceeds
<1>1. IInv => SyncCheckSucceeds
  <2> SUFFICES ASSUME IInv, killed, num_threads = 1, win_size = 1,
                      NEW i \in 1 .. Len(requests), requests[i].t = "GET"
               PROVE  res[0][i - 1].v = Expected(i)
    BY DEF SyncCheckSucceeds, check_results
  <2> DEFINE L == Len(requests)
             v == res[0][i - 1].v
             k == requests[i].k
             P == {j \in 1 .. i - 1 : requests[j].t = "PUT" /\ requests[j].k = k}
             Q == Puts(0, k)
  <2>1. Board /\ Typed /\ AllDone /\ L \in Nat
    BY Parameters DEF IInv, Board, Stopped, Typed
  <2>2. Clients = {0} /\ NumReqs = L
    BY <2>1 DEF Clients, NumReqs
  <2>3. last_completed[0] = L
    BY <2>1, <2>2, NothingLeft
  <2>4. \A j \in 0 .. L - 1 : Req(0, j) = requests[j + 1]
    BY <2>1, <2>2 DEF Req
  <2>5. i - 1 \in 0 .. L - 1 /\ Req(0, i - 1) = requests[i]
    BY <2>1, <2>4
  <2>6. RightValue(0, i - 1, v)
    BY <2>2, <2>3, <2>5 DEF IInv, Collected
  <2>7. v \in Allowed(0, i - 1)
    BY <2>2, <2>5, <2>6 DEF RightValue, Private
  <2>8. Allowed(0, i - 1) = {Req(0, j).v : j \in {j \in Q : /\ j < i - 1 + 1
                                            /\ ~\E m \in Q : j + 1 <= m /\ m + 1 <= i - 1}}
                              \cup (IF \E j \in Q : j + 1 <= i - 1 THEN {} ELSE {0})
    BY <2>5 DEF Allowed
  <2>9. \A j : j \in Q <=> j \in 0 .. L - 1 /\ requests[j + 1].t = "PUT" /\ requests[j + 1].k = k
    BY <2>2, <2>4 DEF Puts, ReqIdx
  <2>10. Expected(i) = IF P = {} THEN 0 ELSE requests[CHOOSE j \in P : \A m \in P : m <= j].v
    BY DEF Expected
  <2>11. \A j \in P : j - 1 \in Q /\ j \in 1 .. i - 1
    BY <2>1, <2>9
  <2>12. i - 1 \notin Q
    BY <2>9
  <2> HIDE DEF Q
  <2>13. CASE v = 0 /\ ~\E j \in Q : j + 1 <= i - 1
    <3>1. P = {}
      <4> SUFFICES ASSUME NEW j \in P PROVE FALSE
        OBVIOUS
      <4>1. j - 1 \in Q /\ j \in 1 .. i - 1 /\ j - 1 + 1 <= i - 1
        BY <2>11
      <4> QED
        BY <2>13, <4>1
    <3> QED
      BY <2>10, <2>13, <3>1
  <2>14. CASE \E j \in Q : /\ v = Req(0, j).v /\ j < i - 1 + 1
                           /\ ~\E m \in Q : j + 1 <= m /\ m + 1 <= i - 1
    <3> PICK j \in Q : /\ v = Req(0, j).v /\ j < i - 1 + 1
                       /\ ~\E m \in Q : j + 1 <= m /\ m + 1 <= i - 1
      BY <2>14
    <3>1. j \in 0 .. L - 1 /\ j # i - 1
      BY <2>9, <2>12
    <3>2. j + 1 \in P
      BY <2>1, <2>9, <3>1
    <3>3. \A m \in P : m <= j + 1
      <4> SUFFICES ASSUME NEW m \in P, ~(m <= j + 1) PROVE FALSE
        OBVIOUS
      <4>1. m - 1 \in Q /\ m \in 1 .. i - 1
        BY <2>11
      <4>2. j + 1 <= m - 1 /\ m - 1 + 1 <= i - 1
        BY <3>1, <4>1
      <4> QED
        BY <4>1, <4>2
    <3>4. \A x \in P : (\A m \in P : m <= x) => x = j + 1
      <4>1. \A x \in P : x \in Nat
        OBVIOUS
      <4> HIDE DEF P
      <4> QED
        BY <3>1, <3>2, <3>3, <4>1
    <3> HIDE DEF P
    <3>5. (CHOOSE x \in P : \A m \in P : m <= x) = j + 1
      BY <3>2, <3>3, <3>4
    <3> QED
      BY <2>4, <2>10, <3>1, <3>2, <3>5
  <2> QED
    BY <2>7, <2>8, <2>13, <2>14
<1> QED
  BY <1>1, Invariant, PTL
=============================================================================

----------------------------- MODULE MCKVSystem -----------------------------
(* Small command lines and workloads.                                      *)
EXTENDS KVSystem

Put(key, val) == [t |-> "PUT", k |-> key, v |-> val]
\* A get leaves reqs[i].v as malloc found it.
Get(key) == [t |-> "GET", k |-> key, v |-> Garbage]
\* An entry that add_line_to_req left unwritten.
Bad == [t |-> "BAD", k |-> Garbage, v |-> Garbage]

MCKeys == {1, 2}
MCVals == {5, 6}

Cmd(n, w, reqs) == [num_threads |-> n, win_size |-> w, requests |-> reqs]

MCConfigs == {
  \* one thread, synchronous: what -c checks
  Cmd(1, 1, <<Get(1), Put(1, 5), Get(1), Put(1, 6), Get(1)>>),
  \* one thread, a window of two, more requests than the window
  Cmd(1, 2, <<Put(1, 5), Get(1), Put(1, 6), Put(2, 5), Get(1)>>),
  \* two threads, a private key each, one request left over
  Cmd(2, 2, <<Put(1, 5), Put(1, 6), Get(1), Put(2, 6), Get(2), Get(2), Get(1)>>),
  \* two threads that share a key
  Cmd(2, 1, <<Put(1, 5), Get(1), Put(1, 6), Get(1)>>),
  \* an invalid request
  Cmd(1, 2, <<Put(1, 5), Bad, Get(1)>>) }
=============================================================================

---------------------------- MODULE MCHashTable -----------------------------
(* Keys 0 and 2 share a bucket of the two; key 1 has its own.              *)
EXTENDS HashTable

MCKeys == {0, 1, 2}
MCVals == {1, 2}
=============================================================================

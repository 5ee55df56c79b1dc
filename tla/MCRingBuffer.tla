---------------------------- MODULE MCRingBuffer ----------------------------
(* Two client threads, two server threads and a ring of three slots: the   *)
(* ring can be full with a producer blocked, empty with a consumer blocked *)
(* or in between with both sides copying; both mutexes are contended and   *)
(* both indices wrap.                                                      *)
EXTENDS RingBuffer
=============================================================================

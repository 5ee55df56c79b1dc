---------------------------- MODULE MCScheduler -----------------------------
(* Three processes, one or two mutexes, small nice ranges.                 *)
EXTENDS Scheduler, TLC

TwoPages == ("m1" :> "g1") @@ ("m2" :> "g2")
SharedPage == ("m1" :> "g1") @@ ("m2" :> "g1")
OnePage  == "m1" :> "g1"
TwoMutexes == DOMAIN TwoPages
OneMutex   == DOMAIN OnePage
ThreePages == TwoPages @@ ("m3" :> "g3")
ThreeMutexes == DOMAIN ThreePages

MinusOne == -1
Both == {-1, 1}
UpDown == {-1, 2}
=============================================================================

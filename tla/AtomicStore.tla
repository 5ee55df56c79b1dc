---------------------------- MODULE AtomicStore -----------------------------
(***************************************************************************)
(* What the log promises: blocks whose stable contents change only between *)
(* operations, all at once, to what the operations so far have made them,  *)
(* and which a crash takes back to the stable contents.                    *)
(***************************************************************************)
EXTENDS Naturals

CONSTANTS Homes, Values, Zero

VARIABLES stable,    \* what a crash leaves
          view,      \* what processes see
          ops        \* operations in progress

vars == <<stable, view, ops>>

Init == /\ stable = [b \in Homes |-> Zero] /\ view = stable /\ ops = 0

Begin == ops' = ops + 1 /\ UNCHANGED <<stable, view>>
Write == /\ ops > 0
         /\ \E b \in Homes, v \in Values : view' = [view EXCEPT ![b] = v]
         /\ UNCHANGED <<stable, ops>>
End    == ops > 0 /\ ops' = ops - 1 /\ UNCHANGED <<stable, view>>
Commit == ops = 0 /\ stable' = view /\ UNCHANGED <<view, ops>>
Crash  == view' = stable /\ ops' = 0 /\ UNCHANGED stable

Next == Begin \/ Write \/ End \/ Commit \/ Crash

Spec == Init /\ [][Next]_vars
=============================================================================

------------------------------- MODULE MCWMap -------------------------------
EXTENDS WMap

MCKinds == {[shared |-> TRUE, file |-> TRUE], [shared |-> TRUE, file |-> FALSE],
            [shared |-> FALSE, file |-> FALSE]}
=============================================================================

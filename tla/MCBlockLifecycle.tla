-------------------------- MODULE MCBlockLifecycle --------------------------
EXTENDS BlockLifecycleProperties

CONSTANTS p1, a1, a2   \* transactions

MCTxs == [q \in QueueName |-> IF q = "priority" THEN {p1} ELSE {a1, a2}]
MCCranks == (p1 :> 1) @@ (a1 :> 3) @@ (a2 :> 1)
=============================================================================

------------------------------ MODULE OpQueue ------------------------------
(***************************************************************************)
(* What the queue of operations promises: an operation leaves the queue    *)
(* only after it has been performed, or to be set aside after the full     *)
(* number of attempts.  No failure, shutdown or crash loses one.           *)
(***************************************************************************)
EXTENDS Naturals

CONSTANTS Op,               \* operation ids
          Limit             \* attempts before an operation is set aside

VARIABLES pending,          \* operations waiting for their turn
          performed,        \* operations that took effect at least once
          shelved,          \* operations set aside
          tried             \* how often each operation was started

queueVars == <<pending, performed, shelved, tried>>

Init == /\ pending = {} /\ performed = {} /\ shelved = {}
        /\ tried = [o \in Op |-> 0]

Enqueue(o) == /\ tried[o] = 0 /\ o \notin performed \cup shelved
              /\ pending' = pending \cup {o}
              /\ UNCHANGED <<performed, shelved, tried>>

Try(o) == /\ o \in pending
          /\ tried' = [tried EXCEPT ![o] = @ + 1]
          /\ UNCHANGED <<pending, performed, shelved>>

Perform(o) == /\ o \in pending /\ tried[o] > 0
              /\ performed' = performed \cup {o}
              /\ UNCHANGED <<pending, shelved, tried>>

Complete(o) == /\ o \in pending \cap performed
               /\ pending' = pending \ {o}
               /\ UNCHANGED <<performed, shelved, tried>>

Shelve(o) == /\ o \in pending /\ tried[o] >= Limit
             /\ pending' = pending \ {o}
             /\ shelved' = shelved \cup {o}
             /\ UNCHANGED <<performed, tried>>

Next == \E o \in Op : Enqueue(o) \/ Try(o) \/ Perform(o) \/ Complete(o) \/ Shelve(o)

Spec == Init /\ [][Next]_queueVars
=============================================================================

----------------------------- MODULE BoundedFifo -----------------------------
(***************************************************************************)
(* What a work queue promises to its users: a bounded queue whose consumer *)
(* receives every accepted item exactly once, in the order of acceptance.  *)
(***************************************************************************)
EXTENDS Naturals, Sequences

CONSTANTS Item, Capacity

VARIABLES
    queue,      \* accepted, not yet delivered
    delivered   \* everything the consumer received so far

Init == queue = <<>> /\ delivered = <<>>

Accept(x) ==
    /\ Len(queue) < Capacity
    /\ queue' = Append(queue, x)
    /\ UNCHANGED delivered

Deliver ==
    /\ queue # <<>>
    /\ queue' = Tail(queue)
    /\ delivered' = Append(delivered, Head(queue))

Next == (\E x \in Item : Accept(x)) \/ Deliver

Spec == Init /\ [][Next]_<<queue, delivered>>
=============================================================================

----------------------------- MODULE OrderLedger -----------------------------
(***************************************************************************)
(* What an execution desk promises about its orders, whatever happens to   *)
(* its process: an order is placed once, one order at a time is owed to    *)
(* the books, and each placed order is booked at most once.                *)
(***************************************************************************)
EXTENDS Naturals

CONSTANT Ids

VARIABLES
    placed,   \* orders the venue accepted
    count     \* how often each order is in the books

vars == <<placed, count>>

Owed == {id \in placed : count[id] = 0}

Init ==
    /\ placed = {}
    /\ count = [id \in Ids |-> 0]

\* A new order only when every earlier one is in the books.
Place(id) ==
    /\ id \notin placed
    /\ Owed = {}
    /\ placed' = placed \cup {id}
    /\ UNCHANGED count

Book(id) ==
    /\ id \in Owed
    /\ count' = [count EXCEPT ![id] = 1]
    /\ UNCHANGED placed

Next == \E id \in Ids : Place(id) \/ Book(id)

Spec == Init /\ [][Next]_vars
=============================================================================

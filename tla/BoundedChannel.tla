--------------------------- MODULE BoundedChannel ---------------------------
(***************************************************************************)
(* What RWQueue promises the threads that share it, without its mutex, its *)
(* condition variables or its callers: a first-in first-out channel of at  *)
(* most Capacity items that is open until it is stopped, accepts items     *)
(* only while it is open, and can still be drained after that.             *)
(***************************************************************************)
EXTENDS Naturals, Sequences

CONSTANTS Item, Capacity

VARIABLES chan, open

chanVars == <<chan, open>>

Init == chan = <<>> /\ open = TRUE

Put == /\ open
       /\ chan' \in Seq(Item)
       /\ Len(chan') \in (Len(chan) + 1)..Capacity
       /\ SubSeq(chan', 1, Len(chan)) = chan
       /\ UNCHANGED open

Take == /\ \E n \in 1..Len(chan) : chan' = SubSeq(chan, n + 1, Len(chan))
        /\ UNCHANGED open

Stop == open' = FALSE /\ UNCHANGED chan

Next == Put \/ Take \/ Stop

Spec == Init /\ [][Next]_chanVars
=============================================================================

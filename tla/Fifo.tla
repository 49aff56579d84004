-------------------------------- MODULE Fifo --------------------------------
(***************************************************************************)
(* What a ring buffer of len-os promises: a first-in-first-out queue of at *)
(* most Places values that drops what is put into it when it is full, and  *)
(* never anything that it holds.                                           *)
(***************************************************************************)
EXTENDS Integers, Sequences

CONSTANTS Value, Places

VARIABLE queue

Init == queue = <<>>

Put(v) == queue' = IF Len(queue) < Places THEN Append(queue, v) ELSE queue

Take == queue # <<>> /\ queue' = Tail(queue)

Next == Take \/ \E v \in Value : Put(v)

Spec == Init /\ [][Next]_queue
=============================================================================

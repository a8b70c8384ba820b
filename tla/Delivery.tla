------------------------------ MODULE Delivery ------------------------------
(***************************************************************************)
(* What ListenChaincodeEvents promises its caller (events.go, the comments *)
(* on ListenChaincodeEvents and Checkpointer), free of streams, goroutines *)
(* and reconnects: every item is processed, in order, at least once, and   *)
(* the recorded position never runs ahead of what was processed.           *)
(***************************************************************************)
EXTENDS Integers

CONSTANT Items     \* what has to be delivered, numbered in ledger order

VARIABLES done,      \* items processed at least once
          recorded   \* items the checkpoint says need not be delivered again

vars == <<done, recorded>>

Before(i) == {j \in Items : j < i}
UpTo(i)   == {j \in Items : j <= i}

Init == done = {} /\ recorded = {}

\* Process an item: everything before it has been processed.
Process(i) ==
  /\ i \notin recorded
  /\ Before(i) \subseteq done
  /\ done' = done \cup {i}
  /\ UNCHANGED recorded

\* Move the checkpoint to an item that was processed.
Record(i) ==
  /\ i \in done \ recorded
  /\ recorded' = UpTo(i)
  /\ UNCHANGED done

\* A restart falls back to the position that was persisted, if any.
Forget ==
  /\ recorded' \in {UpTo(i) : i \in recorded} \cup {{}}
  /\ UNCHANGED done

Next == (\E i \in Items : Process(i) \/ Record(i)) \/ Forget

Spec == Init /\ [][Next]_vars
-----------------------------------------------------------------------------
\* Nothing is skipped: an item is processed only after every item before it, also
\* when a restart has taken the position back ("so no event is skipped").
InOrder == \A i \in done : Before(i) \subseteq done

\* A restart misses nothing: what the position leaves out was processed.
NeverAhead == recorded \subseteq done
=============================================================================

--------------------------- MODULE DeliveryProofs ---------------------------
(***************************************************************************)
(* What Delivery promises, for any set of numbered items, and so whatever  *)
(* implements it.                                                          *)
(***************************************************************************)
EXTENDS Delivery, TLAPS

Promise == done \subseteq Items /\ InOrder /\ NeverAhead

\* Moving the position to an item that was processed leaves out only what was.
LEMMA UpToProcessed ==
  ASSUME Items \subseteq Int, Promise, NEW i \in done PROVE UpTo(i) \subseteq done
<1> SUFFICES ASSUME NEW j \in Items, j <= i PROVE j \in done
  BY DEF UpTo
<1>1. i \in Int /\ j \in Int
  BY DEF Promise
<1>2. j = i \/ j < i
  BY <1>1
<1> QED BY <1>2 DEF Promise, InOrder, Before

LEMMA PromiseStep == ASSUME Items \subseteq Int, Promise, [Next]_vars PROVE Promise'
<1>1. ASSUME NEW i \in Items, Process(i) PROVE Promise'
  BY <1>1 DEF Process, Promise, InOrder, NeverAhead, Before
<1>2. ASSUME NEW i \in Items, Record(i) PROVE Promise'
  <2>1. UpTo(i) \subseteq done
    BY <1>2, UpToProcessed DEF Record
  <2> QED BY <1>2, <2>1 DEF Record, Promise, InOrder, NeverAhead, Before
<1>3. CASE Forget
  <2>1. \A i \in recorded : UpTo(i) \subseteq done
    BY UpToProcessed DEF Promise, NeverAhead
  <2> QED BY <1>3, <2>1 DEF Forget, Promise, InOrder, NeverAhead, Before
<1>4. CASE UNCHANGED vars
  BY <1>4 DEF vars, Promise, InOrder, NeverAhead, Before
<1> QED BY <1>1, <1>2, <1>3, <1>4 DEF Next

\* At-least-once, in-order delivery: in every behaviour of Delivery nothing is
\* skipped and the position is never ahead of what was processed, whatever is
\* forgotten in between.
THEOREM DeliveryKeepsPromise ==
  ASSUME Items \subseteq Int PROVE Spec => [](InOrder /\ NeverAhead)
<1>1. Init => Promise
  BY DEF Init, Promise, InOrder, NeverAhead
<1>2. Promise /\ [Next]_vars => Promise'
  BY PromiseStep
<1>3. Promise => InOrder /\ NeverAhead
  BY DEF Promise
<1> QED BY <1>1, <1>2, <1>3, PTL DEF Spec

=============================================================================

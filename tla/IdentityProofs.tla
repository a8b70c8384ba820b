--------------------------- MODULE IdentityProofs ---------------------------
(***************************************************************************)
(* Identity.Close takes the closer out of the field close without a lock,  *)
(* which two calls at a time can both find there.  The proof says that     *)
(* this is the only way to go wrong: whatever number of goroutines share   *)
(* the identity and however often they call Close, no closer runs twice    *)
(* and no call panics if no two calls overlap, as when the callers hold a  *)
(* mutex of their own.                                                     *)
(***************************************************************************)
EXTENDS Identity, TLAPS

\* A call of Close is under way.
Closing(g) == pc[g] \in {"read", "clear", "run"}

\* No two calls of Close overlap.
Serial == \A g, h \in Goroutines : Closing(g) /\ Closing(h) => g = h

\* The closer is in the field, in the local c of the call that took it, or was
\* called: it is in one place at a time.
CloserInv ==
  /\ runs \in {0, 1}
  /\ close = "closer" => runs = 0
  /\ stage \in {"new", "signer"} => close = "nil" /\ runs = 0
  /\ stage # "ready" => \A g \in Goroutines : pc[g] = "idle"
  /\ pc \in [Goroutines -> {"idle", "read", "clear", "run", "done"}]
  /\ c \in [Goroutines -> {"nil", "closer"}] /\ close \in {"nil", "closer"}
  /\ \A g \in Goroutines :
       /\ pc[g] = "read" => close = "closer"
       /\ pc[g] = "clear" => close = "closer" /\ c[g] = "closer"
       /\ pc[g] = "run" => close = "nil" /\ c[g] = "closer" /\ runs = 0

LEMMA CloserInit == Init => CloserInv
BY DEF Init, CloserInv

\* A step that begins with no two calls overlapping keeps the closer in one place.
LEMMA CloserStep == ASSUME CloserInv, Serial, [Next]_vars PROVE CloserInv'
<1> USE DEF CloserInv
<1>1. CASE SignerFails
  BY <1>1 DEF SignerFails
<1>2. CASE SignerOpened
  BY <1>2 DEF SignerOpened
<1>3. CASE IdentityRefused
  BY <1>3 DEF IdentityRefused
<1>4. CASE IdentityMade
  BY <1>4 DEF IdentityMade
<1>5. ASSUME NEW g \in Goroutines, Check(g) PROVE CloserInv'
  BY <1>5 DEF Check, Move
<1>6. ASSUME NEW g \in Goroutines, Take(g) PROVE CloserInv'
  BY <1>6 DEF Take, Move
<1>7. ASSUME NEW g \in Goroutines, Clear(g) PROVE CloserInv'
  <2>1. \A h \in Goroutines : h # g => pc[h] \notin {"read", "clear", "run"}
    BY <1>7 DEF Serial, Closing, Clear, Move
  <2> QED BY <1>7, <2>1 DEF Clear, Move
<1>8. ASSUME NEW g \in Goroutines, Run(g) PROVE CloserInv'
  <2>1. \A h \in Goroutines : h # g => pc[h] \notin {"read", "clear", "run"}
    BY <1>8 DEF Serial, Closing, Run, Move
  <2>2. c[g] = "closer" /\ runs = 0 /\ close = "nil"
    BY <1>8 DEF Run, Move
  <2> QED BY <1>8, <2>1, <2>2 DEF Run, Move
<1>9. ASSUME NEW g \in Goroutines, Again(g) PROVE CloserInv'
  BY <1>9 DEF Again, Move
<1>10. CASE UNCHANGED vars
  BY <1>10 DEF vars
<1> QED BY <1>1, <1>2, <1>3, <1>4, <1>5, <1>6, <1>7, <1>8, <1>9, <1>10 DEF Next

\* Close is safe to call more than once, from any goroutine, as long as no two
\* calls overlap (identity.go, Close).
THEOREM SerialCloseIsSafe == Spec /\ []Serial => []CloseIsSafe
<1>1. Init => CloserInv
  BY CloserInit
<1>2. CloserInv /\ Serial /\ [Next]_vars => CloserInv'
  BY CloserStep
<1>3. CloserInv => CloseIsSafe
  BY DEF CloserInv, CloseIsSafe
<1> QED BY <1>1, <1>2, <1>3, PTL DEF Spec

=============================================================================

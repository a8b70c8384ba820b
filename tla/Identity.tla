------------------------------ MODULE Identity ------------------------------
(***************************************************************************)
(* An identity with a signer to close: IdentityFromHSM (identity_hsm.go)   *)
(* opens a session of the token for it, and goroutines that share it call  *)
(* Identity.Close (identity.go), which takes the closer out of the field   *)
(* close without a lock.                                                   *)
(***************************************************************************)
EXTENDS Naturals

CONSTANT Goroutines    \* the goroutines that share the identity

VARIABLES
  stage,    \* how far IdentityFromHSM has come
  session,  \* the session of the HSM signer is open
  close,    \* the field close: "nil" or "closer"
  runs,     \* how often the closer was called
  pc,       \* where each goroutine is in Close
  c         \* its local c

vars == <<stage, session, close, runs, pc, c>>

Init ==
  /\ stage = "new" /\ session = FALSE /\ close = "nil" /\ runs = 0
  /\ pc = [g \in Goroutines |-> "idle"] /\ c = [g \in Goroutines |-> "nil"]
-----------------------------------------------------------------------------
\* The certificate cannot be used or NewHSMSigner fails: nothing was opened.
SignerFails ==
  /\ stage = "new"
  /\ stage' = "failed"
  /\ UNCHANGED <<session, close, runs, pc, c>>

SignerOpened ==
  /\ stage = "new"
  /\ stage' = "signer" /\ session' = TRUE
  /\ UNCHANGED <<close, runs, pc, c>>

\* NewIdentity refuses the MSP ID or the certificate: the session is closed.
IdentityRefused ==
  /\ stage = "signer"
  /\ stage' = "failed" /\ session' = FALSE /\ runs' = runs + 1
  /\ UNCHANGED <<close, pc, c>>

IdentityMade ==
  /\ stage = "signer"
  /\ stage' = "ready" /\ close' = "closer"
  /\ UNCHANGED <<session, runs, pc, c>>
-----------------------------------------------------------------------------
Move(g, from, to) == pc[g] = from /\ pc' = [pc EXCEPT ![g] = to]

\* if i.close == nil { return nil }
Check(g) ==
  /\ stage = "ready"
  /\ Move(g, "idle", IF close = "nil" THEN "done" ELSE "read")
  /\ UNCHANGED <<stage, session, close, runs, c>>

\* c := i.close
Take(g) ==
  /\ Move(g, "read", "clear")
  /\ c' = [c EXCEPT ![g] = close]
  /\ UNCHANGED <<stage, session, close, runs>>

\* i.close = nil
Clear(g) ==
  /\ Move(g, "clear", "run")
  /\ close' = "nil"
  /\ UNCHANGED <<stage, session, runs, c>>

\* return c(), a panic when c is nil.
Run(g) ==
  /\ Move(g, "run", IF c[g] = "nil" THEN "panic" ELSE "done")
  /\ IF c[g] = "nil" THEN UNCHANGED <<session, runs>> ELSE session' = FALSE /\ runs' = runs + 1
  /\ UNCHANGED <<stage, close, c>>

\* Close is called again.
Again(g) ==
  /\ Move(g, "done", "idle")
  /\ UNCHANGED <<stage, session, close, runs, c>>
-----------------------------------------------------------------------------
Next ==
  \/ SignerFails \/ SignerOpened \/ IdentityRefused \/ IdentityMade
  \/ \E g \in Goroutines : Check(g) \/ Take(g) \/ Clear(g) \/ Run(g) \/ Again(g)

Spec == Init /\ [][Next]_vars
-----------------------------------------------------------------------------
\* Close may be called more than once, by goroutines that share the identity
\* (identity.go, "an Identity is safe for concurrent use", "It is safe to call
\* more than once"): the session is closed at most once and no call panics.
CloseIsSafe == runs <= 1 /\ \A g \in Goroutines : pc[g] # "panic"
=============================================================================

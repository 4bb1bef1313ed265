------------------------- MODULE ComputeFenceProofs -------------------------
(* What the fence guarantees in every state, whoever implements it. *)
EXTENDS ComputeFence, TLAPS

FenceInv == TypeOK /\ Exclusive

(* Only live, uncondemned compute that the orb names is ever authorised, so  *)
(* two incarnations never hold authority together.                           *)
THEOREM FenceIsExclusive == Spec => []Exclusive
<1>1. Init => FenceInv
  <2> SUFFICES ASSUME Init PROVE FenceInv
    OBVIOUS
  <2>1. condemned \in BOOLEAN /\ ~condemned
    BY Zenon DEF Init
  <2>2. /\ incarnation \in Nat /\ owner = None /\ authorised = None /\ serving \subseteq Nat
    BY DEF Init
  <2> QED BY <2>1, <2>2 DEF FenceInv, TypeOK, Exclusive
<1>2. FenceInv /\ [Next]_fenceVars => FenceInv'
  <2> SUFFICES ASSUME FenceInv, [Next]_fenceVars PROVE FenceInv'
    OBVIOUS
  <2>1. CASE Adopt
    BY <2>1 DEF Adopt, FenceInv, TypeOK, Exclusive, None
  <2>2. CASE Condemn
    BY <2>2 DEF Condemn, FenceInv, TypeOK, Exclusive, None
  <2>3. CASE Retire
    <3>1. condemned' \in BOOLEAN /\ authorised = None
      BY <2>3 DEF Retire, FenceInv, Exclusive
    <3>2. /\ incarnation' \in Nat /\ owner' = None /\ authorised' = None
          /\ serving' \subseteq Nat
      BY <2>3, <3>1 DEF Retire, FenceInv, TypeOK
    <3> QED BY <3>1, <3>2 DEF FenceInv, TypeOK, Exclusive
  <2>4. CASE Serve
    BY <2>4 DEF Serve, FenceInv, TypeOK, Exclusive, None
  <2>5. CASE Cease
    BY <2>5 DEF Cease, FenceInv, TypeOK, Exclusive, None
  <2>6. CASE UNCHANGED fenceVars
    BY <2>6 DEF fenceVars, FenceInv, TypeOK, Exclusive
  <2> QED BY <2>1, <2>2, <2>3, <2>4, <2>5, <2>6 DEF Next
<1> QED BY <1>1, <1>2, PTL DEF Spec, FenceInv

=============================================================================

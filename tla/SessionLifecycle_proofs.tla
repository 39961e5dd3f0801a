---------------------- MODULE SessionLifecycle_proofs ----------------------
(***************************************************************************)
(* The promise of the abstract specification itself.  TokenService_steps   *)
(* shows that the whitelist implements it.                                 *)
(***************************************************************************)
EXTENDS SessionLifecycle, TLAPS

LEMMA StepKeepsClosed ==
    TypeOK /\ ClosedMeansRevoked /\ [Next]_vars
        => TypeOK' /\ ClosedMeansRevoked'
<1> SUFFICES ASSUME TypeOK, ClosedMeansRevoked, [Next]_vars
             PROVE  TypeOK' /\ ClosedMeansRevoked'
  OBVIOUS
<1>1. CASE UNCHANGED vars
  BY <1>1 DEF vars, TypeOK, ClosedMeansRevoked
<1>2. ASSUME NEW s \in Sessions, NEW u \in Users, GrantRefresh(s, u)
      PROVE  TypeOK' /\ ClosedMeansRevoked'
  BY <1>2 DEF GrantRefresh, TypeOK, ClosedMeansRevoked, Stage
<1>3. ASSUME NEW s \in Sessions,
             \/ GrantAccess(s) \/ RevokeRefresh(s) \/ RevokeAccess(s)
             \/ Close(s)
      PROVE  TypeOK' /\ ClosedMeansRevoked'
  BY <1>3 DEF GrantAccess, RevokeRefresh, RevokeAccess, Close, TypeOK,
              ClosedMeansRevoked, Stage
<1>4. QED
  BY <1>1, <1>2, <1>3 DEF Next

(* A session whose logout was acknowledged never gives access again. *)
THEOREM ClosedStaysRevoked == Spec => [](TypeOK /\ ClosedMeansRevoked)
<1>1. Init => TypeOK /\ ClosedMeansRevoked
  BY DEF Init, TypeOK, ClosedMeansRevoked, Stage
<1>2. TypeOK /\ ClosedMeansRevoked /\ [Next]_vars
        => TypeOK' /\ ClosedMeansRevoked'
  BY StepKeepsClosed
<1>3. QED
  BY <1>1, <1>2, PTL DEF Spec
=============================================================================

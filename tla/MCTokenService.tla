-------------------------- MODULE MCTokenService --------------------------
(***************************************************************************)
(* Instances of TokenService for TLC.  Requests and users are              *)
(* interchangeable, so the safety runs use their permutations; row ids are *)
(* handed out in a fixed order (NewId) and need none.                      *)
(***************************************************************************)
EXTENDS TokenService, TLC

Symmetry ==
    Permutations(Requests) \cup Permutations(Users)
=============================================================================

--------------------------- MODULE MCUserAccounts ---------------------------
(***************************************************************************)
(* Instances of UserAccounts for TLC.  Requests, emails and passwords are  *)
(* interchangeable; ids are handed out in a fixed order (NewId).           *)
(***************************************************************************)
EXTENDS UserAccounts, TLC

Symmetry ==
    Permutations(Requests) \cup Permutations(Emails) \cup Permutations(Passwords)
=============================================================================

--------------------------- MODULE MCLoginBridge ---------------------------
(***************************************************************************)
(* LoginBridge for TLC.                                                    *)
(***************************************************************************)
EXTENDS LoginBridge, TLC

Symmetry == Permutations(Logins) \cup Permutations(Callbacks)
=============================================================================

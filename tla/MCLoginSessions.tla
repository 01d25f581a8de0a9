-------------------------- MODULE MCLoginSessions --------------------------
(***************************************************************************)
(* LoginSessions for TLC: logins, keys and concurrent calls are            *)
(* interchangeable.                                                        *)
(***************************************************************************)
EXTENDS LoginSessions, TLC

Symmetry == Permutations(Logins) \cup Permutations(Keys)
            \cup Permutations(Pollers) \cup Permutations(Callbacks)
=============================================================================

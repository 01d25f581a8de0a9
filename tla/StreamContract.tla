--------------------------- MODULE StreamContract ---------------------------
(***************************************************************************)
(* What a host may rely on when it has asked for a chat stream (src/impl.go *)
(* produceCommandCodeStream), without the upstream: first the role, then    *)
(* content, then one finish reason, then the usage if it was asked for,     *)
(* then a clean close; or, at any point before, a close with an error.      *)
(***************************************************************************)
CONSTANT Streams

VARIABLES stage, outcome

contractVars == <<stage, outcome>>

Stages == {"idle", "accepted", "content", "finished", "usage"}

ContractInit ==
    /\ stage = [s \in Streams |-> "idle"]
    /\ outcome = [s \in Streams |-> "open"]

Advance(s, from, to) ==
    /\ outcome[s] = "open"
    /\ stage[s] = from
    /\ stage' = [stage EXCEPT ![s] = to]
    /\ UNCHANGED outcome

CloseClean(s) ==
    /\ outcome[s] = "open"
    /\ stage[s] \in {"finished", "usage"}
    /\ outcome' = [outcome EXCEPT ![s] = "clean"]
    /\ UNCHANGED stage

CloseError(s) ==
    /\ outcome[s] = "open"
    /\ stage[s] # "idle"
    /\ outcome' = [outcome EXCEPT ![s] = "error"]
    /\ UNCHANGED stage

ContractNext ==
    \E s \in Streams :
        \/ Advance(s, "idle", "accepted")
        \/ Advance(s, "accepted", "content")
        \/ Advance(s, "content", "finished")
        \/ Advance(s, "finished", "usage")
        \/ CloseClean(s)
        \/ CloseError(s)

ContractSpec == ContractInit /\ [][ContractNext]_contractVars
=============================================================================

---------------------------- MODULE ModelAliases ----------------------------
(***************************************************************************)
(* The model names of src/models_dynamic.go and src/impl.go.  An ID is the *)
(* sequence of its segments between slashes; a catalog is a set of IDs     *)
(* (fetch removes duplicates).                                             *)
(***************************************************************************)
EXTENDS Naturals, Sequences, FiniteSets

\* strings.Cut at the first slash: the rest, or the whole ID if there is none.
modelShortName(id) == IF Len(id) > 1 THEN Tail(id) ELSE id

\* Mutant: every model is offered under its short name.
catalogPublicIDShort(id, models) == modelShortName(id)

\* The name a model is offered under: short, unless another one would share it.
catalogPublicID(id, models) ==
    LET name == modelShortName(id)
    IN IF Cardinality({m \in models : modelShortName(m) = name}) = 1 THEN name ELSE id

\* Mutant: names are compared without their provider, and before full IDs.
upstreamModelIDsShort(id, models) ==
    LET named == {m \in models : modelShortName(m) = id}
    IN IF named # {} THEN named ELSE {id}

\* What upstreamModelID may return: an exact ID first, then a model offered under that
\* name (the first one in catalog order), otherwise the name as it came.
upstreamModelIDs(id, models) ==
    LET offered == {m \in models : catalogPublicID(m, models) = id}
    IN IF id \in models THEN {id}
       ELSE IF offered # {} THEN offered
       ELSE {id}
=============================================================================

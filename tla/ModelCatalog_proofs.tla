------------------------ MODULE ModelCatalog_proofs ------------------------
(***************************************************************************)
(* For every set of callers, IDs and periods: the catalog's mutex, the     *)
(* pacing of its refreshes and, where no ID has more than two segments,    *)
(* that the names in a listing resolve to their models.                    *)
(***************************************************************************)
EXTENDS ModelCatalog, FiniteSetTheorems, TLAPS

\* IDs of the form model or provider/model.
ShortIds(S) == \A id \in S : \E a, b : id = <<a>> \/ id = <<a, b>>

\* A short name has one segment, and is its own short name.
LEMMA ShortNameIsShort ==
    ASSUME NEW S, ShortIds(S), NEW id \in S
    PROVE  modelShortName(modelShortName(id)) = modelShortName(id)
<1> PICK a, b : id = <<a>> \/ id = <<a, b>>
    BY DEF ShortIds
<1>1. CASE id = <<a>>
    BY <1>1 DEF modelShortName
<1>2. CASE id = <<a, b>>
    <2>1. Len(id) > 1 /\ Tail(id) = <<b>>
        BY <1>2
    <2> QED BY <2>1 DEF modelShortName
<1> QED BY <1>1, <1>2

\* A model offered under a name other than its ID is the only one with that short name.
LEMMA ShortOfferIsUnique ==
    ASSUME NEW S, IsFiniteSet(S), NEW m \in S, catalogPublicID(m, S) # m
    PROVE  /\ catalogPublicID(m, S) = modelShortName(m)
           /\ \A n \in S : modelShortName(n) = modelShortName(m) => n = m
<1> DEFINE same == {n \in S : modelShortName(n) = modelShortName(m)}
<1>1. Cardinality(same) = 1 /\ catalogPublicID(m, S) = modelShortName(m)
    BY DEF catalogPublicID
<1>2. IsFiniteSet(same)
    BY FS_Subset
<1>3. PICK x : same = {x}
    BY <1>1, <1>2, FS_Singleton
<1> QED BY <1>1, <1>3

\* In one catalog of short IDs, the name a model is offered under resolves to that model.
LEMMA OfferResolves ==
    ASSUME NEW S, IsFiniteSet(S), ShortIds(S), NEW m \in S
    PROVE  upstreamModelIDs(catalogPublicID(m, S), S) = {m}
<1> DEFINE name == catalogPublicID(m, S)
<1>1. CASE name = m
    BY <1>1 DEF upstreamModelIDs
<1>2. CASE name # m
    <2>1. /\ name = modelShortName(m)
          /\ \A n \in S : modelShortName(n) = modelShortName(m) => n = m
        BY <1>2, ShortOfferIsUnique
    <2>2. modelShortName(name) = name
        BY <2>1, ShortNameIsShort
    <2>3. name \notin S
        BY <1>2, <2>1, <2>2
    <2>4. ASSUME NEW n \in S, catalogPublicID(n, S) = name PROVE n = m
        <3>1. catalogPublicID(n, S) # n
            BY <2>3, <2>4
        <3>2. modelShortName(n) = name
            BY <2>4, <3>1, ShortOfferIsUnique
        <3> QED BY <2>1, <3>2
    <2> HIDE DEF name
    <2>5. {n \in S : catalogPublicID(n, S) = name} = {m}
        BY <2>4 DEF name
    <2> QED BY <2>3, <2>5 DEF upstreamModelIDs, name
<1> QED BY <1>1, <1>2

\* A name offered in one catalog and resolved in another that still has the model never
\* leads to a third model.
LEMMA OfferSurvives ==
    ASSUME NEW old, NEW new, IsFiniteSet(old), IsFiniteSet(new), ShortIds(old), ShortIds(new),
           NEW m \in old \cap new
    PROVE  upstreamModelIDs(catalogPublicID(m, old), new) \subseteq {m, catalogPublicID(m, old)}
<1> DEFINE name == catalogPublicID(m, old)
<1>1. CASE name \in new
    BY <1>1 DEF upstreamModelIDs
<1>2. CASE name \notin new
    <2>1. name = modelShortName(m)
        BY <1>2, ShortOfferIsUnique
    <2>2. ASSUME NEW n \in new, catalogPublicID(n, new) = name PROVE n = m
        <3>1. catalogPublicID(n, new) # n
            BY <1>2, <2>2
        <3>2. /\ modelShortName(n) = name
              /\ \A k \in new : modelShortName(k) = modelShortName(n) => k = n
            BY <2>2, <3>1, ShortOfferIsUnique
        <3> QED BY <2>1, <3>2
    <2> QED BY <1>2, <2>2 DEF upstreamModelIDs
<1> QED BY <1>1, <1>2
-----------------------------------------------------------------------------
\* What a fetch accepts is usable.
LEMMA AcceptedUsable ==
    ASSUME NEW answer \in SUBSET Entry PROVE Accepted(answer) \subseteq Ids \ BadIds
<1>1. CASE \E e \in answer : e.id \in BadIds
    BY <1>1 DEF Accepted
<1>2. CASE ~\E e \in answer : e.id \in BadIds
    BY <1>2 DEF Accepted, Entry
<1> QED BY <1>1, <1>2

\* Types, the mutex, the record of the last fetch in nextRefresh, and what a call past
\* its decision may count on.
CatalogInv ==
    /\ TypeOK
    /\ Exclusive
    /\ nextRefresh = IF lastFetch.done THEN lastFetch.at + Gap ELSE 0
    /\ \A c \in DOMAIN calls :
          calls[c].pc = "copy" => lastFetch.done /\ calls[c].at < nextRefresh

LEMMA CatalogInvStep == CatalogInv /\ [Next]_vars => CatalogInv'
<1> SUFFICES ASSUME CatalogInv, [Next]_vars PROVE CatalogInv'
    OBVIOUS
<1> USE CatalogAssumption DEF CatalogInv
<1>1. CASE Tick
    BY <1>1 DEF Tick, TypeOK, Exclusive, Gap
<1>2. ASSUME NEW c \in Callers, NEW kind \in {"list", "resolve"}, Enter(c, kind)
      PROVE  CatalogInv'
    <2> DEFINE new == [pc |-> "lock", kind |-> kind, at |-> clock]
    <2>1. new \in Call
        BY DEF TypeOK, Call
    <2>2. /\ DOMAIN calls' = DOMAIN calls \cup {c} /\ calls'[c] = new
          /\ \A d \in DOMAIN calls : calls'[d] = calls[d]
          /\ c \notin DOMAIN calls
        BY <1>2 DEF Enter
    <2>3. new.pc = "lock"
        OBVIOUS
    <2>4. calls' \in [DOMAIN calls' -> Call]
        BY <1>2, <2>1 DEF Enter, TypeOK
    <2>5. UNCHANGED <<clock, holder, models, nextRefresh, listed, lastFetch>>
        BY <1>2 DEF Enter
    <2> HIDE DEF new
    <2>6. TypeOK'
        BY <2>2, <2>4, <2>5 DEF TypeOK
    <2>7. Exclusive'
        BY <2>2, <2>3, <2>5 DEF Exclusive, TypeOK
    <2> QED BY <2>2, <2>3, <2>5, <2>6, <2>7 DEF Gap
<1>3. ASSUME NEW c \in Callers, Lock(c) PROVE CatalogInv'
    <2>1. calls[c] \in Call /\ c \in DOMAIN calls
        BY <1>3 DEF Lock, At, TypeOK
    <2>2. /\ DOMAIN calls' = DOMAIN calls
          /\ \A d \in DOMAIN calls : d # c => calls'[d] = calls[d]
          /\ calls'[c] = [calls[c] EXCEPT !.at = clock,
                             !.pc = IF clock < nextRefresh THEN "copy" ELSE "fetch"]
          /\ calls' \in [DOMAIN calls -> Call]
        BY <1>3, <2>1 DEF Lock, TypeOK, Call
    <2>3. /\ calls'[c].at = clock
          /\ calls'[c].pc = IF clock < nextRefresh THEN "copy" ELSE "fetch"
        BY <2>1, <2>2 DEF Call
    <2>4. holder = NoCaller /\ holder' = c
          /\ UNCHANGED <<clock, models, nextRefresh, listed, lastFetch>>
        BY <1>3 DEF Lock
    <2>5. TypeOK'
        BY <2>2, <2>4 DEF TypeOK
    <2>6. Exclusive'
        BY <2>1, <2>2, <2>3, <2>4 DEF Exclusive, TypeOK
    <2>7. clock < nextRefresh => lastFetch.done
        BY DEF TypeOK
    <2>8. \A d \in DOMAIN calls' :
              calls'[d].pc = "copy" => lastFetch.done /\ calls'[d].at < nextRefresh
        BY <2>2, <2>3, <2>7
    <2> QED BY <2>4, <2>5, <2>6, <2>8 DEF Gap
<1>4. ASSUME NEW c \in Callers, Fetch(c) PROVE CatalogInv'
    <2>1. calls[c] \in Call /\ c \in DOMAIN calls /\ calls[c].pc = "fetch"
        BY <1>4 DEF Fetch, FetchSucceeds, FetchFails, At, TypeOK
    <2>2. calls' = [calls EXCEPT ![c].pc = "copy"]
        BY <1>4 DEF Fetch, FetchSucceeds, FetchFails
    <2>3. /\ DOMAIN calls' = DOMAIN calls
          /\ \A d \in DOMAIN calls : d # c => calls'[d] = calls[d]
          /\ calls'[c].pc = "copy" /\ calls'[c].at = calls[c].at
          /\ calls' \in [DOMAIN calls -> Call]
        BY <2>1, <2>2 DEF TypeOK, Call
    <2>4. UNCHANGED <<clock, holder, listed>>
        BY <1>4 DEF Fetch, FetchSucceeds, FetchFails
    <2>5. models' \subseteq Ids \ BadIds
        <3>1. CASE FetchSucceeds(c)
            <4>1. PICK answer \in SUBSET Entry : models' = Accepted(answer)
                BY <3>1 DEF FetchSucceeds
            <4> QED BY <4>1, AcceptedUsable
        <3>2. CASE FetchFails(c)
            BY <3>2 DEF FetchFails, TypeOK
        <3> QED BY <1>4, <3>1, <3>2 DEF Fetch
    <2>6. /\ lastFetch' \in [done : BOOLEAN, at : 0 .. MaxTime, ok : BOOLEAN]
          /\ lastFetch'.done /\ lastFetch'.at = calls[c].at
          /\ nextRefresh' = lastFetch'.at + Gap'
        <3>1. calls[c].at \in 0 .. MaxTime
            BY <2>1 DEF Call
        <3>2. CASE FetchSucceeds(c)
            <4>1. /\ lastFetch' = [done |-> TRUE, at |-> calls[c].at, ok |-> TRUE]
                  /\ nextRefresh' = calls[c].at + OkTTL
                BY <3>2 DEF FetchSucceeds
            <4> QED BY <3>1, <4>1 DEF Gap
        <3>3. CASE FetchFails(c)
            <4>1. /\ lastFetch' = [done |-> TRUE, at |-> calls[c].at, ok |-> FALSE]
                  /\ nextRefresh' = calls[c].at + RetryTTL
                BY <3>3 DEF FetchFails
            <4> QED BY <3>1, <4>1 DEF Gap
        <3> QED BY <1>4, <3>2, <3>3 DEF Fetch
    <2>7. /\ Gap' \in Nat \ {0} /\ nextRefresh' \in Nat
          /\ calls[c].at \in 0 .. MaxTime /\ calls[c].at < nextRefresh'
        BY <2>1, <2>6 DEF Gap, Call
    <2>8. \A d \in DOMAIN calls : d # c => calls[d].pc # "copy"
        BY <2>1 DEF Exclusive
    <2>9. TypeOK'
        BY <2>3, <2>4, <2>5, <2>6, <2>7 DEF TypeOK
    <2>10. Exclusive'
        BY <2>1, <2>3, <2>4 DEF Exclusive
    <2> QED BY <2>3, <2>6, <2>7, <2>8, <2>9, <2>10
<1>5. ASSUME NEW c \in Callers, Return(c) PROVE CatalogInv'
    <2>1. /\ DOMAIN calls' = DOMAIN calls \ {c}
          /\ \A d \in DOMAIN calls' : calls'[d] = calls[d]
          /\ calls' \in [DOMAIN calls' -> Call]
        BY <1>5 DEF Return, TypeOK
    <2>2. holder = c /\ holder' = NoCaller
        BY <1>5 DEF Return, At, Exclusive
    <2>3. UNCHANGED <<clock, models, nextRefresh, lastFetch>>
        BY <1>5 DEF Return
    <2>4. listed' \subseteq Ids \ BadIds
        BY <1>5 DEF Return, TypeOK, Snapshot
    <2>5. TypeOK'
        BY <2>1, <2>2, <2>3, <2>4 DEF TypeOK
    <2>6. Exclusive'
        BY <2>1, <2>2 DEF Exclusive, TypeOK
    <2> QED BY <2>1, <2>3, <2>5, <2>6 DEF Gap
<1>6. CASE UNCHANGED vars
    BY <1>6 DEF vars, TypeOK, Exclusive, Gap
<1> QED BY <1>1, <1>2, <1>3, <1>4, <1>5, <1>6 DEF Next, Fetch

\* The catalog's variables keep their types and its mutex and refresh time mean what
\* they should.
THEOREM CatalogInvHolds == Spec => []CatalogInv
<1>1. Init => CatalogInv
    BY CatalogAssumption DEF Init, CatalogInv, TypeOK, Exclusive, Gap
<1> QED BY <1>1, CatalogInvStep, PTL DEF Spec

\* Refreshes are serialized.
THEOREM RefreshesSerialized == Spec => []OneRefresh
<1>1. CatalogInv => OneRefresh
    BY DEF CatalogInv, Exclusive, OneRefresh
<1> QED BY <1>1, CatalogInvHolds, PTL

\* Only taking the mutex makes a call fetch, and only when the refresh time has come.
LEMMA FetchStart ==
    ASSUME CatalogInv, [Next]_vars, NEW c \in Callers, ~At(c, "fetch"), At(c, "fetch")'
    PROVE  clock >= nextRefresh
<1> USE DEF CatalogInv, At
<1>1. ASSUME NEW d \in Callers, Lock(d) PROVE clock >= nextRefresh
    <2>1. calls[d] \in Call /\ d \in DOMAIN calls
        BY <1>1 DEF Lock, TypeOK
    <2>2. calls'[d].pc = IF clock < nextRefresh THEN "copy" ELSE "fetch"
        BY <1>1, <2>1 DEF Lock, Call
    <2>3. DOMAIN calls' = DOMAIN calls /\ \A e \in DOMAIN calls : e # d => calls'[e] = calls[e]
        BY <1>1 DEF Lock
    <2>4. ~(clock < nextRefresh)
        BY <2>2, <2>3
    <2> QED BY <2>4 DEF TypeOK
<1>2. ASSUME NEW d \in Callers, NEW kind \in {"list", "resolve"}, Enter(d, kind)
      PROVE  FALSE
    <2>1. calls'[d].pc = "lock" /\ \A e \in DOMAIN calls' : e # d => calls'[e] = calls[e]
        BY <1>2 DEF Enter
    <2>2. DOMAIN calls' = DOMAIN calls \cup {d}
        BY <1>2 DEF Enter
    <2> QED BY <2>1, <2>2
<1>3. ASSUME NEW d \in Callers, Fetch(d) PROVE FALSE
    <2>1. calls[d] \in Call /\ calls' = [calls EXCEPT ![d].pc = "copy"]
        BY <1>3 DEF Fetch, FetchSucceeds, FetchFails, TypeOK
    <2>2. DOMAIN calls' = DOMAIN calls /\ \A e \in DOMAIN calls : e # d => calls'[e] = calls[e]
        BY <2>1
    <2>3. d \in DOMAIN calls' => calls'[d].pc = "copy"
        BY <2>1 DEF Call
    <2> QED BY <2>2, <2>3
<1>4. ASSUME NEW d \in Callers, Return(d) PROVE FALSE
    <2>1. DOMAIN calls' \subseteq DOMAIN calls /\ \A e \in DOMAIN calls' : calls'[e] = calls[e]
        BY <1>4 DEF Return
    <2> QED BY <2>1
<1>5. CASE Tick \/ UNCHANGED vars
    BY <1>5 DEF Tick, vars
<1> QED BY <1>1, <1>2, <1>3, <1>4, <1>5 DEF Next, Fetch

\* The provider is asked at most once per period, whatever the number of callers.
THEOREM RefreshPacing == Spec => RefreshesArePaced
<1>1. ASSUME CatalogInv, [Next]_vars, NEW c \in Callers,
             lastFetch.done, ~At(c, "fetch"), At(c, "fetch")'
      PROVE  clock >= lastFetch.at + Gap
    <2>1. nextRefresh = lastFetch.at + Gap
        BY <1>1 DEF CatalogInv
    <2> QED BY <1>1, <2>1, FetchStart
<1>2. CatalogInv /\ [Next]_vars
        => [\A c \in Callers : (lastFetch.done /\ ~At(c, "fetch") /\ At(c, "fetch")')
                => clock >= lastFetch.at + Gap]_vars
    BY <1>1
<1> QED BY <1>2, CatalogInvHolds, PTL DEF Spec, RefreshesArePaced

\* A caller's catalog was checked within the period that applies, however long the caller
\* waited for the mutex.
THEOREM AnswerAge == Spec => AnswersAreCurrent
<1>1. CatalogInv /\ [Next]_vars
        => [\A c \in Callers : (At(c, "copy") /\ c \notin DOMAIN calls')
                => lastFetch.done /\ calls[c].at < lastFetch.at + Gap]_vars
    BY DEF CatalogInv, At
<1> QED BY <1>1, CatalogInvHolds, PTL DEF Spec, AnswersAreCurrent

\* Only a good answer replaces the catalog, and nothing takes it away.
THEOREM LastGood == Spec => LastGoodKept
<1>1. ASSUME CatalogInv, [Next]_vars
      PROVE  /\ models # {} => models' # {}
             /\ models' # models => models' \cap BadIds = {} /\ lastFetch'.ok
    <2>1. ASSUME NEW c \in Callers, FetchSucceeds(c)
          PROVE  models' # {} /\ models' \cap BadIds = {} /\ lastFetch'.ok
        <3>1. PICK answer \in SUBSET Entry : Accepted(answer) # {} /\ models' = Accepted(answer)
            BY <2>1 DEF FetchSucceeds
        <3>2. lastFetch'.ok
            BY <2>1 DEF FetchSucceeds
        <3> QED BY <3>1, <3>2, AcceptedUsable
    <2>2. CASE UNCHANGED models
        BY <2>2
    <2>3. ASSUME NEW c \in Callers,
                 Lock(c) \/ FetchFails(c) \/ Return(c) \/ \E kind \in {"list", "resolve"} : Enter(c, kind)
          PROVE  UNCHANGED models
        BY <2>3 DEF Lock, FetchFails, Return, Enter
    <2>4. CASE Tick \/ UNCHANGED vars
        BY <2>2, <2>4 DEF Tick, vars
    <2> QED BY <1>1, <2>1, <2>2, <2>3, <2>4 DEF Next, Fetch
<1>2. CatalogInv /\ [Next]_vars
        => [/\ models # {} => models' # {}
            /\ models' # models => models' \cap BadIds = {} /\ lastFetch'.ok]_vars
    BY <1>1
<1> QED BY <1>2, CatalogInvHolds, PTL DEF Spec, LastGoodKept

\* Where no model ID has more than two segments, the names in a listing are distinct and
\* each resolves to its model, and after a refresh none leads to a third model.
THEOREM NamesAreSafe ==
    ASSUME IsFiniteSet(Ids), ShortIds(Ids)
    PROVE  Spec => [](NamesResolve /\ NamesSurviveRefresh)
<1>1. ASSUME CatalogInv PROVE NamesResolve /\ NamesSurviveRefresh
    <2>1. listed \in SUBSET Ids /\ Snapshot \in SUBSET Ids
        BY <1>1, CatalogAssumption DEF CatalogInv, TypeOK, Snapshot
    <2>2. IsFiniteSet(listed) /\ IsFiniteSet(Snapshot)
        BY <2>1, FS_Subset
    <2>3. ShortIds(listed) /\ ShortIds(Snapshot)
        BY <2>1 DEF ShortIds
    <2>4. NamesResolve
        BY <2>2, <2>3, OfferResolves DEF NamesResolve
    <2>5. NamesSurviveRefresh
        BY <2>2, <2>3, OfferSurvives DEF NamesSurviveRefresh
    <2> QED BY <2>4, <2>5
<1> QED BY <1>1, CatalogInvHolds, PTL

\* The half of it that spans two listings: a name given out before a refresh never reaches
\* a third model after it.
THEOREM NamesSurvive ==
    ASSUME IsFiniteSet(Ids), ShortIds(Ids)
    PROVE  Spec => []NamesSurviveRefresh
BY NamesAreSafe, PTL

\* The variables of the catalog keep their types, and unusable IDs are neither kept nor
\* listed.
THEOREM TypeCorrect == Spec => []TypeOK
<1>1. CatalogInv => TypeOK
    BY DEF CatalogInv
<1> QED BY <1>1, CatalogInvHolds, PTL
=============================================================================

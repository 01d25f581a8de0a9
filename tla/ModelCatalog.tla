---------------------------- MODULE ModelCatalog ----------------------------
(***************************************************************************)
(* The model catalog of src/models_dynamic.go: snapshot holds the mutex    *)
(* while it fetches, remembers when to fetch again, keeps the last good    *)
(* catalog and answers with a built-in one while there is none.  A call    *)
(* either lists the models for the host (commandCodeModels) or resolves a  *)
(* name the host learnt from the last listing (upstreamModelID).           *)
(*                                                                         *)
(* Time is counted in minutes up to the bound MaxTime; fetches take any    *)
(* time, their six seconds included.                                       *)
(***************************************************************************)
EXTENDS ModelAliases

CONSTANTS
    Ids,          \* model IDs the provider may send
    BadIds,       \* those with blanks or line breaks in them
    Fallback,     \* fallbackCatalog: the built-in IDs
    Callers,      \* concurrent calls
    NoCaller,
    OkTTL,        \* minutes between refreshes
    RetryTTL,     \* minutes before a failed refresh is retried
    MaxTime

ASSUME CatalogAssumption ==
    /\ BadIds \subseteq Ids
    /\ Fallback # {} /\ Fallback \subseteq Ids \ BadIds
    /\ NoCaller \notin Callers
    /\ OkTTL \in Nat \ {0} /\ RetryTTL \in Nat \ {0} /\ MaxTime \in Nat

VARIABLES
    clock,
    holder,       \* who holds mu
    models,       \* the last good catalog, {} before the first
    nextRefresh,
    calls,        \* calls in progress: [pc, kind, at]
    listed,       \* the catalog of the last answer to a listing
    lastFetch     \* history: start and success of the last finished fetch

vars == <<clock, holder, models, nextRefresh, calls, listed, lastFetch>>

Call == [pc : {"lock", "fetch", "copy"}, kind : {"list", "resolve"}, at : 0 .. MaxTime]
Entry == [id : Ids, compatible : BOOLEAN]

\* Mutant: unusable IDs are let through.
AcceptedAll(answer) == {e.id : e \in {f \in answer : f.compatible}}

\* What fetch makes of a well-formed answer; {} stands for an error.
Accepted(answer) ==
    IF \E e \in answer : e.id \in BadIds THEN {}
    ELSE {e.id : e \in {f \in answer : f.compatible}}

\* What snapshot returns.
Snapshot == IF models = {} THEN Fallback ELSE models

Gap == IF lastFetch.ok THEN OkTTL ELSE RetryTTL

Init ==
    /\ clock = 0
    /\ holder = NoCaller
    /\ models = {}
    /\ nextRefresh = 0
    /\ calls = [c \in {} |-> 0]
    /\ listed = {}
    /\ lastFetch = [done |-> FALSE, at |-> 0, ok |-> FALSE]

Tick ==
    /\ clock < MaxTime
    /\ clock' = clock + 1
    /\ UNCHANGED <<holder, models, nextRefresh, calls, listed, lastFetch>>

At(c, pc) == c \in DOMAIN calls /\ calls[c].pc = pc

Enter(c, kind) ==
    /\ c \notin DOMAIN calls
    /\ calls' = [d \in DOMAIN calls \cup {c} |->
                   IF d = c THEN [pc |-> "lock", kind |-> kind, at |-> clock] ELSE calls[d]]
    /\ UNCHANGED <<clock, holder, models, nextRefresh, listed, lastFetch>>

\* Mutant: off by one at the end of the period.
LockOneLate(c) ==
    /\ At(c, "lock")
    /\ holder = NoCaller
    /\ holder' = c
    /\ calls' = [calls EXCEPT ![c].at = clock,
                              ![c].pc = IF clock <= nextRefresh THEN "copy" ELSE "fetch"]
    /\ UNCHANGED <<clock, models, nextRefresh, listed, lastFetch>>

\* The mutex is taken, then the clock is read, then it is decided whether to fetch.
Lock(c) ==
    /\ At(c, "lock")
    /\ holder = NoCaller
    /\ holder' = c
    /\ calls' = [calls EXCEPT ![c].at = clock,
                              ![c].pc = IF clock < nextRefresh THEN "copy" ELSE "fetch"]
    /\ UNCHANGED <<clock, models, nextRefresh, listed, lastFetch>>

FetchSucceeds(c) ==
    /\ At(c, "fetch")
    /\ \E answer \in SUBSET Entry :
          /\ Accepted(answer) # {}
          /\ models' = Accepted(answer)
    /\ nextRefresh' = calls[c].at + OkTTL
    /\ lastFetch' = [done |-> TRUE, at |-> calls[c].at, ok |-> TRUE]
    /\ calls' = [calls EXCEPT ![c].pc = "copy"]
    /\ UNCHANGED <<clock, holder, listed>>

\* Mutant: a failure does not set the time of the next try.
FetchFailsUnpaced(c) ==
    /\ At(c, "fetch")
    /\ lastFetch' = [done |-> TRUE, at |-> calls[c].at, ok |-> FALSE]
    /\ calls' = [calls EXCEPT ![c].pc = "copy"]
    /\ UNCHANGED <<clock, holder, models, nextRefresh, listed>>

\* Mutant: a failure overwrites the catalog.
FetchFailsErasing(c) ==
    /\ At(c, "fetch")
    /\ models' = {}
    /\ nextRefresh' = calls[c].at + RetryTTL
    /\ lastFetch' = [done |-> TRUE, at |-> calls[c].at, ok |-> FALSE]
    /\ calls' = [calls EXCEPT ![c].pc = "copy"]
    /\ UNCHANGED <<clock, holder, listed>>

\* Any error, an answer without a usable model included.
FetchFails(c) ==
    /\ At(c, "fetch")
    /\ nextRefresh' = calls[c].at + RetryTTL
    /\ lastFetch' = [done |-> TRUE, at |-> calls[c].at, ok |-> FALSE]
    /\ calls' = [calls EXCEPT ![c].pc = "copy"]
    /\ UNCHANGED <<clock, holder, models, listed>>

\* Mutant: a listing returns without unlocking.
ReturnLocked(c) ==
    /\ At(c, "copy")
    /\ listed' = IF calls[c].kind = "list" THEN Snapshot ELSE listed
    /\ holder' = IF calls[c].kind = "list" THEN holder ELSE NoCaller
    /\ calls' = [d \in DOMAIN calls \ {c} |-> calls[d]]
    /\ UNCHANGED <<clock, models, nextRefresh, lastFetch>>

\* The copy is made and the mutex released; a listing reaches the host.
Return(c) ==
    /\ At(c, "copy")
    /\ listed' = IF calls[c].kind = "list" THEN Snapshot ELSE listed
    /\ holder' = NoCaller
    /\ calls' = [d \in DOMAIN calls \ {c} |-> calls[d]]
    /\ UNCHANGED <<clock, models, nextRefresh, lastFetch>>

Fetch(c) == FetchSucceeds(c) \/ FetchFails(c)

Next ==
    \/ Tick
    \/ \E c \in Callers :
          \/ \E kind \in {"list", "resolve"} : Enter(c, kind)
          \/ Lock(c) \/ Fetch(c) \/ Return(c)

Spec == Init /\ [][Next]_vars

\* A fetch ends (six seconds at most), and a Go mutex does not starve a waiter.
Fairness == \A c \in Callers : SF_vars(Lock(c)) /\ WF_vars(Fetch(c)) /\ WF_vars(Return(c))

FairSpec == Spec /\ Fairness
-----------------------------------------------------------------------------
\* The variables keep their types; only usable IDs are kept or listed.
TypeOK ==
    /\ clock \in 0 .. MaxTime
    /\ holder \in Callers \cup {NoCaller}
    /\ models \subseteq Ids \ BadIds
    /\ nextRefresh \in Nat
    /\ DOMAIN calls \subseteq Callers /\ calls \in [DOMAIN calls -> Call]
    /\ listed \subseteq Ids \ BadIds
    /\ lastFetch \in [done : BOOLEAN, at : 0 .. MaxTime, ok : BOOLEAN]

\* The mutex: every call past it is its holder.
Exclusive ==
    /\ \A c \in DOMAIN calls : calls[c].pc # "lock" <=> holder = c
    /\ holder # NoCaller => holder \in DOMAIN calls

\* "Serialize refreshes": at most one call is fetching.
OneRefresh ==
    \A c, d \in DOMAIN calls : calls[c].pc = "fetch" /\ calls[d].pc = "fetch" => c = d

\* Waiting callers do not fetch again on their own: the provider is asked at most once
\* per period, counted from the start of the fetch before, five minutes after a success
\* and one minute after a failure.
RefreshesArePaced ==
    [][\A c \in Callers :
          (lastFetch.done /\ ~At(c, "fetch") /\ At(c, "fetch")')
              => clock >= lastFetch.at + Gap]_vars

\* A caller gets a catalog that was checked within the period that applies, however long
\* it waited for the mutex.
AnswersAreCurrent ==
    [][\A c \in Callers :
          (At(c, "copy") /\ c \notin DOMAIN calls')
              => lastFetch.done /\ calls[c].at < lastFetch.at + Gap]_vars

\* "Retain the last good snapshot on any upstream failure": once there is a catalog,
\* failures do not take it away, and only a whole good answer replaces it.
LastGoodKept ==
    [][/\ models # {} => models' # {}
       /\ models' # models => models' \cap BadIds = {} /\ lastFetch'.ok]_vars

\* A name listed for a model that is still in the catalog never reaches a third model:
\* after any refresh it resolves to that model or is passed on as it is.
NamesSurviveRefresh ==
    \A m \in listed \cap Snapshot :
        LET name == catalogPublicID(m, listed)
        IN upstreamModelIDs(name, Snapshot) \subseteq {m, name}

\* "Provider-free model IDs with upstream ID resolution and collision protection"
\* (README.md): the names in a listing are distinct, and each resolves to its model.
NamesResolve ==
    \A m \in listed : upstreamModelIDs(catalogPublicID(m, listed), listed) = {m}

\* Every call returns, whatever the provider does.
CallsReturn == \A c \in Callers : c \in DOMAIN calls ~> c \notin DOMAIN calls
=============================================================================

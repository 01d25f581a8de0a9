------------------------------ MODULE QuotaPage ------------------------------
(***************************************************************************)
(* The script of the quota dashboard (src/quota_dashboard.html) in one     *)
(* browser tab, against the plugin's routes for it (handleCommandCode-     *)
(* Quota, quotaAuthorize, quotaDashboardResponse).  The script is one      *)
(* thread, but every fetch is awaited: an answer is handled long after its *)
(* request was made, when the access key, the cards and the buttons may    *)
(* belong to something else.  A run is one pass of init or refresh: it     *)
(* fetches the list of accounts, then the cards in batches.                *)
(*                                                                         *)
(* Keys are management keys.  Sizes are the numbers of accounts the server *)
(* may list, BatchSize is 3 in the page, Runs bounds the passes at a time, *)
(* MaxActs what the user and the server's administrator do.  The page is   *)
(* reached over https or on the host itself (safeOrigin holds).            *)
(***************************************************************************)
EXTENDS Naturals, FiniteSetsExt, TLC

CONSTANTS Keys, NoKey, Runs, NoRun, Sizes, BatchSize, MaxActs

ASSUME PageAssumption ==
    /\ NoKey \notin Keys /\ NoRun \notin Runs /\ Runs # {}
    /\ Sizes \subseteq Nat /\ BatchSize \in Nat \ {0} /\ MaxActs \in Nat

VARIABLES
    valid,       \* the key the server accepts
    saved,       \* the key the management console keeps in localStorage, or NoKey
    accessKey,   \* accessKey of the script
    session,     \* the key in sessionStorage: NoKey for none or an empty one
    formShown,   \* the form for a key
    allDisabled, \* the button for all accounts
    generation,  \* lists shown so far: a card is <<its list's generation, its place>>
    cards,       \* entries.length
    runs,        \* for each run, where its next batch starts (0 at the list)
    requests,    \* fetches without an answer: [run, card, key]
    asked,       \* cards of this generation whose quota was asked for
    acts,
    verified,    \* history: keys the server has answered
    rejected,    \* history: keys a 401 came for since they were last entered
    overtaken    \* history: a key was entered while another one was being checked

keyVars == <<accessKey, session>>
pageVars == <<formShown, allDisabled, generation, cards, runs, requests, asked>>
historyVars == <<verified, rejected, overtaken>>
vars == <<valid, saved, keyVars, pageVars, acts, historyVars>>

List == <<>>

Idle == Runs \ DOMAIN runs
FirstRun == CHOOSE run \in Runs : TRUE

\* init() with this key: a request for the list.
InitRequest(run, key) == [run |-> run, card |-> List, key |-> key]

\* The end of the script: init() runs if there is a key.
Opened(key) ==
    IF key = NoKey THEN [runs |-> [run \in {} |-> 0], requests |-> {}]
    ELSE [runs |-> FirstRun :> 0, requests |-> {InitRequest(FirstRun, key)}]

Init ==
    /\ valid \in Keys
    /\ saved \in Keys \cup {NoKey}
    /\ accessKey = saved /\ session = NoKey
    /\ formShown = TRUE /\ allDisabled = TRUE
    /\ generation = 0 /\ cards = 0 /\ asked = {}
    /\ runs = Opened(saved).runs
    /\ requests = Opened(saved).requests
    /\ acts = 0
    /\ verified = {} /\ rejected = {} /\ overtaken = FALSE

Act == acts < MaxActs /\ acts' = acts + 1

\* The key of the page: restoreAccess takes the session's, then the console's.
Restored == IF session # NoKey THEN session ELSE saved

\* The tab is loaded again: what was under way is gone, the session's storage is not.
Reload ==
    /\ Act
    /\ accessKey' = Restored
    /\ formShown' = TRUE /\ allDisabled' = TRUE
    /\ cards' = 0 /\ asked' = {}
    /\ runs' = Opened(Restored).runs
    /\ requests' = Opened(Restored).requests
    /\ rejected' = rejected \ {Restored}
    /\ UNCHANGED <<valid, saved, session, generation, verified, overtaken>>

\* The administrator changes the server's key.
Rotate ==
    /\ Act
    /\ \E key \in Keys \ {valid} : valid' = key
    /\ UNCHANGED <<saved, keyVars, pageVars, historyVars>>

\* init() from a button: the button waits, the list is asked for.
StartInit(key) ==
    \E run \in Idle :
        /\ runs' = runs @@ (run :> 0)
        /\ requests' = requests \cup {InitRequest(run, key)}
        /\ allDisabled' = TRUE

\* Mutant: the key is kept for the session as it is entered.
SubmitStores(key) ==
    /\ Act
    /\ formShown
    /\ accessKey' = key /\ session' = key
    /\ StartInit(key)
    /\ rejected' = rejected \ {key}
    /\ overtaken' = (overtaken \/ \E q \in requests : q.card = List)
    /\ UNCHANGED <<valid, saved, formShown, generation, cards, asked, verified>>

\* The form is there as long as no list has come: also while a key is being checked.
Submit(key) ==
    /\ Act
    /\ formShown
    /\ accessKey' = key
    /\ StartInit(key)
    /\ rejected' = rejected \ {key}
    /\ overtaken' = (overtaken \/ \E q \in requests : q.card = List)
    /\ UNCHANGED <<valid, saved, session, formShown, generation, cards, asked, verified>>

\* Mutant: the last card is in no batch.
BatchShort(from, pending) ==
    {place \in from + 1 .. from + BatchSize :
        place < cards' /\ \A q \in pending : q.card # <<generation', place>>}

\* Places of the cards in the batch from this place on that are not loading already.
Batch(from, pending) ==
    {place \in from + 1 .. from + BatchSize :
        place <= cards' /\ \A q \in pending : q.card # <<generation', place>>}

\* refresh() goes on with the first batch that has anything to load, or ends.  It reads
\* entries anew for each batch, and a card uses the key of the moment it is asked.
Continue(run, from, pending, before, disabled) ==
    LET starts == {start \in from .. cards' :
                      (start - from) % BatchSize = 0 /\ Batch(start, pending) # {}}
        places == Batch(Min(starts), pending)
    IN IF starts = {}
       THEN /\ runs' = [r \in DOMAIN runs \ {run} |-> runs[r]]
            /\ requests' = pending
            /\ asked' = before
            /\ allDisabled' = FALSE
       ELSE /\ runs' = (run :> Min(starts) + BatchSize) @@ runs
            /\ requests' = pending \cup
                  {[run |-> run, card |-> <<generation', place>>, key |-> accessKey'] : place \in places}
            /\ asked' = before \cup places
            /\ allDisabled' = disabled

\* The button for all accounts: refresh(true), or init() while there are none.
ClickAll ==
    /\ Act
    /\ ~allDisabled
    /\ IF cards = 0 THEN StartInit(accessKey) /\ UNCHANGED <<generation, cards, asked, keyVars>>
       ELSE /\ UNCHANGED <<generation, cards, keyVars>>
            /\ \E run \in Idle : Continue(run, 0, requests, asked, TRUE)
    /\ UNCHANGED <<valid, saved, formShown, historyVars>>

\* The button of one card, which is disabled while the card loads.
ClickCard(place) ==
    LET card == <<generation, place>> IN
    /\ Act
    /\ place <= cards
    /\ \A q \in requests : q.card # card
    /\ requests' = requests \cup {[run |-> NoRun, card |-> card, key |-> accessKey]}
    /\ asked' = asked \cup {place}
    /\ UNCHANGED <<valid, saved, keyVars, formShown, allDisabled, generation, cards, runs, historyVars>>

\* What may come back.  quotaAuthorize says 401 to another key, and to the right one when
\* it cannot reach the server's management API; anything may fail otherwise, too.  A key
\* is judged here when its answer arrives: one that was judged before a Rotate and is
\* good now had a 401, which is possible at any time.
Outcomes(key) == {"401", "failed"} \cup IF key = valid THEN {"ok"} ELSE {}

\* Mutant: a 401 forgets the key of the script only.
AbsorbHalf(key, outcome) ==
    /\ IF outcome = "401"
       THEN accessKey' = NoKey /\ formShown' = TRUE /\ rejected' = rejected \cup ({key} \ {NoKey})
       ELSE UNCHANGED <<accessKey, formShown, rejected>>
    /\ verified' = IF outcome = "ok" THEN verified \cup {key} ELSE verified
    /\ UNCHANGED session

\* api(): a 401 forgets the key, whichever it is by now, and shows the form.
Absorb(key, outcome) ==
    /\ IF outcome = "401"
       THEN /\ session' = NoKey /\ accessKey' = NoKey /\ formShown' = TRUE
            /\ rejected' = rejected \cup ({key} \ {NoKey})
       ELSE UNCHANGED <<session, accessKey, formShown, rejected>>
    /\ verified' = IF outcome = "ok" THEN verified \cup {key} ELSE verified

\* The list: the key of now is kept for the session, new cards replace the old ones, and
\* their first batch is asked for.
ListArrives(q) ==
    /\ q \in requests /\ q.card = List
    /\ "ok" \in Outcomes(q.key)
    /\ session' = accessKey
    /\ formShown' = FALSE
    /\ generation' = generation + 1
    /\ cards' \in Sizes
    /\ verified' = verified \cup {q.key}
    /\ UNCHANGED <<valid, saved, accessKey, acts, rejected, overtaken>>
    /\ Continue(q.run, 0, requests \ {q}, {}, TRUE)

\* Mutant: the button comes back with a list only.
ListFailsDisabled(q) ==
    /\ q \in requests /\ q.card = List
    /\ \E outcome \in Outcomes(q.key) \ {"ok"} : Absorb(q.key, outcome)
    /\ requests' = requests \ {q}
    /\ runs' = [r \in DOMAIN runs \ {q.run} |-> runs[r]]
    /\ UNCHANGED <<valid, saved, allDisabled, generation, cards, asked, acts, overtaken>>

\* No list: the run ends and the button comes back.
ListFails(q) ==
    /\ q \in requests /\ q.card = List
    /\ \E outcome \in Outcomes(q.key) \ {"ok"} : Absorb(q.key, outcome)
    /\ requests' = requests \ {q}
    /\ runs' = [r \in DOMAIN runs \ {q.run} |-> runs[r]]
    /\ allDisabled' = FALSE
    /\ UNCHANGED <<valid, saved, generation, cards, asked, acts, overtaken>>

\* An answer for a card, good or bad: load() ends, and with the last one of a batch its
\* run goes on.
CardArrives(q) ==
    /\ q \in requests /\ q.card # List
    /\ \E outcome \in Outcomes(q.key) : Absorb(q.key, outcome)
    /\ UNCHANGED <<valid, saved, generation, cards, acts, overtaken>>
    /\ LET pending == requests \ {q} IN
       IF q.run = NoRun \/ \E p \in pending : p.run = q.run
       THEN requests' = pending /\ UNCHANGED <<runs, asked, allDisabled>>
       ELSE Continue(q.run, runs[q.run], pending, asked, allDisabled)

Arrive(q) == ListArrives(q) \/ ListFails(q) \/ CardArrives(q)

Next ==
    \/ Reload \/ Rotate \/ ClickAll
    \/ \E key \in Keys : Submit(key)
    \/ \E place \in 1 .. cards : ClickCard(place)
    \/ \E q \in requests : Arrive(q)

Spec == Init /\ [][Next]_vars

\* Every fetch ends: the plugin waits 4 s for the check of the key and 20 s for each of
\* its own requests, or the connection breaks.  The user need not do anything.
FairSpec ==
    /\ Spec
    /\ \A run \in Runs \cup {NoRun} : WF_vars(\E q \in requests : q.run = run /\ Arrive(q))
-----------------------------------------------------------------------------
\* A key the server has rejected is forgotten: no answer to another request that was
\* under way brings it back, into the script or into the session's storage.  It is used
\* again only if the user enters it again or the console keeps it.
RejectedKeyForgotten == accessKey \notin rejected /\ session \notin rejected

\* "Cached for this tab's session after verification" (the page's own text): the key in
\* the session's storage is one the server has answered, unless the user entered another
\* key while that one was being checked.
StoredKeyVerified == overtaken \/ session \in verified \cup {NoKey}

\* When the user leaves the page alone it comes to rest, whatever failed and however many
\* runs overlapped: nothing is loading, and the button is there or, before the first key,
\* the form.
ComesToRest ==
    <>[](requests = {} /\ runs = [run \in {} |-> 0]
         /\ (allDisabled => formShown /\ accessKey = NoKey /\ cards = 0))

\* Every card shown is asked for in the end or replaced by a new list, although a run
\* skips cards that another run is loading and lists change under it.
EveryCardIsAsked ==
    \A place \in 1 .. Max(Sizes) :
        place <= cards ~> place > cards \/ place \in asked
=============================================================================

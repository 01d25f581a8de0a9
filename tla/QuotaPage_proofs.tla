-------------------------- MODULE QuotaPage_proofs --------------------------
(***************************************************************************)
(* For every number of keys, accounts and overlapping runs, and however    *)
(* often the user acts and the server's key changes: what the page may     *)
(* remember of the keys it was given.                                      *)
(***************************************************************************)
EXTENDS QuotaPage, TLAPS

\* Whoever goes on with a run changes neither the keys nor what is known of them, and asks
\* for cards only, with the key of the moment.
LEMMA ContinueAsks ==
    ASSUME NEW run, NEW from, NEW pending, NEW before, NEW disabled,
           Continue(run, from, pending, before, disabled)
    PROVE  \A q \in requests' : q \in pending \/ q.card # List
<1> DEFINE starts == {start \in from .. cards' :
                         (start - from) % BatchSize = 0 /\ Batch(start, pending) # {}}
           places == Batch(Min(starts), pending)
           Ask(place) == [run |-> run, card |-> <<generation', place>>, key |-> accessKey']
<1>1. requests' = pending \/ requests' = pending \cup {Ask(place) : place \in places}
    BY DEF Continue
<1>2. \A place : Ask(place).card # List
    BY DEF List
<1> HIDE DEF places, Ask
<1> QED BY <1>1, <1>2

\* What an answer does to the keys: a 401 forgets both, nothing else touches them.
LEMMA Absorbed ==
    ASSUME NEW key, NEW outcome, Absorb(key, outcome)
    PROVE  /\ \/ UNCHANGED <<accessKey, session, rejected>>
              \/ accessKey' = NoKey /\ session' = NoKey /\ rejected' = rejected \cup ({key} \ {NoKey})
           /\ verified \subseteq verified'
BY DEF Absorb

\* A fetch for a card or one that failed: one request fewer for the list or for the card,
\* and its run may go on.
LEMMA AnswerKeys ==
    ASSUME NEW q \in requests, ListFails(q) \/ CardArrives(q)
    PROVE  /\ \/ UNCHANGED <<accessKey, session, rejected>>
              \/ accessKey' = NoKey /\ session' = NoKey /\ rejected' = rejected \cup ({q.key} \ {NoKey})
           /\ verified \subseteq verified' /\ overtaken' = overtaken
           /\ \A p \in requests' : p \in requests \/ p.card # List
<1>1. CASE ListFails(q)
    BY <1>1, Absorbed DEF ListFails
<1>2. CASE CardArrives(q)
    <2>1. /\ \/ UNCHANGED <<accessKey, session, rejected>>
             \/ accessKey' = NoKey /\ session' = NoKey /\ rejected' = rejected \cup ({q.key} \ {NoKey})
          /\ verified \subseteq verified' /\ overtaken' = overtaken
        BY <1>2, Absorbed DEF CardArrives
    <2> DEFINE pending == requests \ {q}
    <2>2. requests' = pending \/ Continue(q.run, runs[q.run], pending, asked, allDisabled)
        BY <1>2 DEF CardArrives
    <2>3. \A p \in requests' : p \in pending \/ p.card # List
        <3> HIDE DEF pending
        <3> QED BY <2>2, ContinueAsks
    <2> QED BY <2>1, <2>3
<1> QED BY <1>1, <1>2

-----------------------------------------------------------------------------
\* RejectedKeyForgotten is inductive once no rejected key is taken for the absence of one.
Forgotten == accessKey \notin rejected /\ session \notin rejected /\ NoKey \notin rejected

LEMMA ForgottenStep ==
    ASSUME Forgotten, [Next]_vars
    PROVE  Forgotten'
<1>1. CASE Reload
    BY <1>1 DEF Reload, Forgotten
<1>2. CASE Rotate
    BY <1>2 DEF Rotate, Forgotten, keyVars, historyVars
<1>3. ASSUME NEW key \in Keys, Submit(key) PROVE Forgotten'
    BY <1>3 DEF Submit, Forgotten
<1>4. CASE ClickAll
    BY <1>4 DEF ClickAll, Forgotten, keyVars, historyVars, StartInit
<1>5. ASSUME NEW place \in 1 .. cards, ClickCard(place) PROVE Forgotten'
    BY <1>5 DEF ClickCard, Forgotten, keyVars, historyVars
<1>6. ASSUME NEW q \in requests, ListArrives(q) PROVE Forgotten'
    BY <1>6 DEF ListArrives, Forgotten
<1>7. ASSUME NEW q \in requests, ListFails(q) \/ CardArrives(q) PROVE Forgotten'
    BY <1>7, AnswerKeys DEF Forgotten
<1>8. CASE UNCHANGED vars
    BY <1>8 DEF vars, keyVars, historyVars, Forgotten
<1> QED BY <1>1, <1>2, <1>3, <1>4, <1>5, <1>6, <1>7, <1>8 DEF Next, Arrive

\* For any number of keys and of requests under way: once the server has rejected a key,
\* no answer that was still to come brings it back into the script or into the storage.
THEOREM RejectedStaysForgotten == Spec => []RejectedKeyForgotten
<1>1. Init => Forgotten
    BY DEF Init, Forgotten
<1>2. Forgotten => RejectedKeyForgotten
    BY DEF Forgotten, RejectedKeyForgotten
<1> QED BY <1>1, <1>2, ForgottenStep, PTL DEF Spec

-----------------------------------------------------------------------------
\* The key of the script when a list may come: the one it is asked for with, one that was
\* verified before, or none.
Current == \A q \in requests : q.card = List => accessKey \in verified \cup {q.key, NoKey}

StoredInv == ~overtaken => session \in verified \cup {NoKey} /\ Current

LEMMA StoredStep ==
    ASSUME StoredInv, [Next]_vars
    PROVE  StoredInv'
<1> SUFFICES ASSUME ~overtaken'
             PROVE  session' \in verified' \cup {NoKey} /\ Current'
    BY DEF StoredInv
<1>1. ~overtaken
      BY DEF Next, Reload, Rotate, ClickAll, Submit, ClickCard, Arrive, ListArrives, ListFails,
             CardArrives, vars, historyVars
<1>2. session \in verified \cup {NoKey} /\ Current
    BY <1>1 DEF StoredInv
<1>3. CASE Reload
    <2>1. \A q \in Opened(Restored).requests : q.key = Restored
        BY DEF Opened, InitRequest
    <2> QED BY <1>2, <1>3, <2>1 DEF Reload, Current
<1>4. CASE Rotate
    BY <1>2, <1>4 DEF Rotate, Current, keyVars, historyVars, pageVars
<1>5. ASSUME NEW key \in Keys, Submit(key) PROVE session' \in verified' \cup {NoKey} /\ Current'
    <2>1. \A q \in requests : q.card # List
        BY <1>5 DEF Submit
    <2>2. \A q \in requests' : q.card = List => q.key = key
        BY <1>5, <2>1 DEF Submit, StartInit, InitRequest
    <2> QED BY <1>2, <1>5, <2>2 DEF Submit, Current
<1>6. CASE ClickAll
    <2>1. accessKey' = accessKey /\ session' = session /\ verified' = verified
        BY <1>6 DEF ClickAll, keyVars, historyVars
    <2>2. \A q \in requests' : q.card = List => q \in requests \/ q.key = accessKey
        <3>1. CASE cards = 0
            BY <1>6, <3>1 DEF ClickAll, StartInit, InitRequest
        <3>2. CASE cards # 0
            BY <1>6, <3>2, ContinueAsks DEF ClickAll
        <3> QED BY <3>1, <3>2
    <2> QED BY <1>2, <2>1, <2>2 DEF Current
<1>7. ASSUME NEW place \in 1 .. cards, ClickCard(place)
      PROVE  session' \in verified' \cup {NoKey} /\ Current'
    <2>1. \A q \in requests' : q \in requests \/ q.card # List
        BY <1>7 DEF ClickCard, List
    <2> QED BY <1>2, <1>7, <2>1 DEF ClickCard, Current, keyVars, historyVars
<1>8. ASSUME NEW q \in requests, ListArrives(q)
      PROVE  session' \in verified' \cup {NoKey} /\ Current'
    <2>1. /\ q.card = List /\ session' = accessKey /\ accessKey' = accessKey
          /\ verified' = verified \cup {q.key}
        BY <1>8 DEF ListArrives
    <2>2. \A p \in requests' : p \in requests \/ p.card # List
        <3> DEFINE pending == requests \ {q}
        <3>1. Continue(q.run, 0, pending, {}, TRUE)
            BY <1>8 DEF ListArrives
        <3>2. \A p \in requests' : p \in pending \/ p.card # List
            <4> HIDE DEF pending
            <4> QED BY <3>1, ContinueAsks
        <3> QED BY <3>2
    <2> QED BY <1>2, <2>1, <2>2 DEF Current
<1>9. ASSUME NEW q \in requests, ListFails(q) \/ CardArrives(q)
      PROVE  session' \in verified' \cup {NoKey} /\ Current'
    BY <1>2, <1>9, AnswerKeys DEF Current
<1>10. CASE UNCHANGED vars
    BY <1>2, <1>10 DEF vars, keyVars, historyVars, pageVars, Current
<1> QED BY <1>3, <1>4, <1>5, <1>6, <1>7, <1>8, <1>9, <1>10 DEF Next, Arrive

\* For any number of keys and runs: as long as no key was entered while another one was
\* being checked, the key in the session's storage is one the server has answered.
THEOREM StoredIsVerified == Spec => []StoredKeyVerified
<1>1. Init => StoredInv
    <2>1. \A q \in Opened(saved).requests : q.key = saved
        BY DEF Opened, InitRequest
    <2> QED BY <2>1 DEF Init, StoredInv, Current
<1>2. StoredInv => StoredKeyVerified
    BY DEF StoredInv, StoredKeyVerified
<1> QED BY <1>1, <1>2, StoredStep, PTL DEF Spec
=============================================================================

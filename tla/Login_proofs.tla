---------------------------- MODULE Login_proofs ----------------------------
(***************************************************************************)
(* For every set of logins, keys and concurrent calls and every value of   *)
(* TTL and MaxTime, first about the plugin (LoginSessions): the types, the *)
(* single holder of a login, and from it the at-most-once hand-over and    *)
(* the refinement of LoginPromise.  Then, for every set of polls and       *)
(* browser requests, about plugin and helper together (LoginBridge): the   *)
(* types of the loopback helper, that one helper process forwards one      *)
(* credential, and that "Authorization saved" is shown for verified keys   *)
(* only.  The plugin's half of such a step is a step of LoginSessions or   *)
(* none, which is how the facts of the first part are used in the second.  *)
(***************************************************************************)
EXTENDS LoginBridge, TLAPS

\* Every step of the plugin keeps the types.
LEMMA TypeStep == TypeOK /\ [Next]_vars => TypeOK'
<1> SUFFICES ASSUME TypeOK, [Next]_vars PROVE TypeOK'
    OBVIOUS
<1> USE TimeAssumption
<1>1. CASE Tick
    BY <1>1 DEF Tick, TypeOK, Time
<1>2. ASSUME NEW l \in Logins, StartCall(l) PROVE TypeOK'
    <2>1. /\ DOMAIN issued' \subseteq Logins /\ issued' \in [DOMAIN issued' -> Time]
          /\ DOMAIN issued' = DOMAIN issued \cup {l}
        BY <1>2 DEF With, StartCall, TypeOK
    <2> QED BY <1>2, <2>1 DEF StartCall, TypeOK
<1>3. ASSUME NEW l \in Logins, StartInsert(l) PROVE TypeOK'
    <2> DEFINE swept == {k \in DOMAIN sessions : Expired(sessions[k], issued[l])}
               fresh == [createdAt |-> issued[l], credential |-> NoKey]
    <2>1. fresh \in Session
        BY <1>3 DEF StartInsert, TypeOK, Session, Credential
    <2>2. /\ DOMAIN Without(sessions, swept) \subseteq Logins
          /\ Without(sessions, swept) \in [DOMAIN Without(sessions, swept) -> Session]
        BY DEF Without, TypeOK
    <2>3. DOMAIN sessions' \subseteq Logins /\ sessions' \in [DOMAIN sessions' -> Session]
        <3> HIDE DEF swept, fresh
        <3>1. sessions' = With(Without(sessions, swept), l, fresh)
            BY <1>3 DEF StartInsert, swept, fresh
        <3> QED BY <1>3, <2>1, <2>2, <3>1 DEF With, StartInsert
    <2> QED BY <1>3, <2>3 DEF StartInsert, TypeOK
<1>4. ASSUME NEW p \in Pollers, NEW l \in Logins, PollCall(p, l) PROVE TypeOK'
    <2>1. [login |-> l, at |-> now] \in Poll
        BY DEF TypeOK, Poll
    <2>2. DOMAIN polls' \subseteq Pollers /\ polls' \in [DOMAIN polls' -> Poll]
        BY <1>4, <2>1 DEF With, PollCall, TypeOK
    <2> QED BY <1>4, <2>2 DEF PollCall, TypeOK
<1>5. ASSUME NEW p \in Pollers, PollStep(p) PROVE TypeOK'
    <2>1. DOMAIN polls' \subseteq Pollers /\ polls' \in [DOMAIN polls' -> Poll]
        BY <1>5 DEF Without, PollStep, PollSuccess, PollExpired, PollPending, TypeOK
    <2>2. DOMAIN sessions' \subseteq Logins /\ sessions' \in [DOMAIN sessions' -> Session]
        BY <1>5 DEF Without, PollStep, PollSuccess, PollExpired, PollPending, TypeOK
    <2>3. claims' \in [Logins -> Nat]
        BY <1>5 DEF PollStep, PollSuccess, PollExpired, PollPending, TypeOK
    <2> QED BY <1>5, <2>1, <2>2, <2>3
        DEF PollStep, PollSuccess, PollExpired, PollPending, TypeOK
<1>6. ASSUME NEW c \in Callbacks, NEW l \in Logins, NEW proof \in BOOLEAN,
             NEW key \in Credential, CallbackCall(c, l, proof, key)
      PROVE  TypeOK'
    <2> DEFINE d == [pc |-> "match", login |-> l, proof |-> proof, key |-> key, at |-> now]
    <2>1. d \in Delivery \cup Attempt
        BY DEF TypeOK, Delivery
    <2>2. /\ DOMAIN callbacks' \subseteq Callbacks
          /\ callbacks' \in [DOMAIN callbacks' -> Delivery \cup Attempt]
        <3> HIDE DEF d
        <3>1. callbacks' = With(callbacks, c, d)
            BY <1>6 DEF CallbackCall, d
        <3> QED BY <2>1, <3>1 DEF With, TypeOK
    <2> QED BY <1>6, <2>2 DEF CallbackCall, TypeOK
<1>7. ASSUME NEW c \in Callbacks, CallbackReject(c) \/ CallbackSpend(c) \/ VerifyFails(c)
      PROVE  TypeOK'
    <2>1. /\ DOMAIN callbacks' \subseteq Callbacks
          /\ callbacks' \in [DOMAIN callbacks' -> Delivery \cup Attempt]
        BY <1>7 DEF Without, CallbackReject, CallbackSpend, VerifyFails, TypeOK
    <2>2. DOMAIN sessions' \subseteq Logins /\ sessions' \in [DOMAIN sessions' -> Session]
        BY <1>7 DEF Without, CallbackReject, CallbackSpend, VerifyFails, TypeOK
    <2> QED BY <1>7, <2>1, <2>2 DEF CallbackReject, CallbackSpend, VerifyFails, TypeOK
<1>8. ASSUME NEW c \in Callbacks, CallbackAdmit(c) PROVE TypeOK'
    <2> DEFINE d == callbacks[c]
    <2>1. d \in Delivery /\ sessions[d.login] \in Session
        BY <1>8 DEF CallbackAdmit, AtMatch, Matched, TypeOK, Delivery, Attempt
    <2>2. [pc |-> "verify", login |-> d.login, key |-> d.key,
           createdAt |-> sessions[d.login].createdAt] \in Attempt
        BY <1>8, <2>1 DEF CallbackAdmit, Delivery, Attempt, Session, Credential
    <2>3. DOMAIN sessions' \subseteq Logins /\ sessions' \in [DOMAIN sessions' -> Session]
        BY <1>8 DEF Without, CallbackAdmit, TypeOK
    <2> QED BY <1>8, <2>2, <2>3 DEF CallbackAdmit, TypeOK
<1>9. ASSUME NEW c \in Callbacks, VerifySucceeds(c) PROVE TypeOK'
    <2>1. callbacks[c] \in Attempt
        BY <1>9 DEF VerifySucceeds, AtVerify, TypeOK, Delivery, Attempt
    <2>2. [callbacks[c] EXCEPT !.pc = "store"] \in Attempt
        BY <2>1 DEF Attempt
    <2>3. <<callbacks[c].login, callbacks[c].key>> \in Logins \X Keys
        BY <2>1 DEF Attempt
    <2> QED BY <1>9, <2>2, <2>3 DEF VerifySucceeds, AtVerify, TypeOK
<1>10. ASSUME NEW c \in Callbacks, CallbackStore(c) PROVE TypeOK'
    <2> DEFINE a == callbacks[c]
               back == [createdAt |-> a.createdAt, credential |-> a.key]
    <2>1. a \in Attempt
        BY <1>10 DEF CallbackStore, TypeOK, Delivery, Attempt
    <2>2. a.login \in Logins /\ back \in Session
        BY <2>1 DEF Attempt, Session, Credential
    <2>3. DOMAIN sessions' \subseteq Logins /\ sessions' \in [DOMAIN sessions' -> Session]
        <3>1. sessions' = With(sessions, a.login, back)
            BY <1>10 DEF CallbackStore
        <3> HIDE DEF a, back
        <3> QED BY <2>2, <3>1 DEF With, TypeOK
    <2>4. /\ DOMAIN callbacks' \subseteq Callbacks
          /\ callbacks' \in [DOMAIN callbacks' -> Delivery \cup Attempt]
        BY <1>10 DEF Without, CallbackStore, TypeOK
    <2> QED BY <1>10, <2>3, <2>4 DEF CallbackStore, TypeOK
<1>11. CASE UNCHANGED vars
    BY <1>11 DEF vars, TypeOK
<1> QED
    BY <1>1, <1>2, <1>3, <1>4, <1>5, <1>6, <1>7, <1>8, <1>9, <1>10, <1>11
    DEF Next, CallbackStep

\* The variables of the login table keep their types in every execution.
THEOREM TypeCorrect == Spec => []TypeOK
<1>1. Init => TypeOK
    BY TimeAssumption DEF Init, TypeOK, Time
<1> QED BY <1>1, TypeStep, PTL DEF Spec

\* Every step keeps a login with one holder.  Only a start call creates a holder; every
\* other step passes the login on, hands it over or drops it.
LEMMA HeldOnceStep == TypeOK /\ TypeOK' /\ HeldOnce /\ [Next]_vars => HeldOnce'
<1> SUFFICES ASSUME TypeOK, TypeOK', HeldOnce, [Next]_vars PROVE HeldOnce'
    OBVIOUS
<1>1. ASSUME NEW l \in Logins, StartCall(l) PROVE HeldOnce'
    <2>1. l \notin DOMAIN sessions /\ l \notin starting /\ Attempts(l) = {} /\ claims[l] = 0
        BY <1>1 DEF StartCall, HeldOnce, TypeOK
    <2>2. DOMAIN issued' = DOMAIN issued \cup {l}
        BY <1>1 DEF StartCall, With
    <2> QED BY <1>1, <2>1, <2>2 DEF StartCall, HeldOnce, Attempts
<1>2. ASSUME NEW l \in Logins, StartInsert(l) PROVE HeldOnce'
    <2>1. DOMAIN sessions' \subseteq DOMAIN sessions \cup {l}
        BY <1>2 DEF StartInsert, With, Without
    <2>2. l \in DOMAIN issued /\ Attempts(l) = {} /\ claims[l] = 0
        BY <1>2 DEF StartInsert, HeldOnce, TypeOK
    <2> QED BY <1>2, <2>1, <2>2 DEF StartInsert, HeldOnce, Attempts
<1>3. ASSUME NEW p \in Pollers, PollSuccess(p) PROVE HeldOnce'
    <2> DEFINE l == polls[p].login
    <2>1. l \in DOMAIN sessions /\ l \in Logins /\ l \in DOMAIN issued
        BY <1>3 DEF PollSuccess, PollFinds, HeldOnce, TypeOK, Poll
    <2>2. l \notin starting /\ Attempts(l) = {}
        BY <2>1 DEF HeldOnce
    <2>3. DOMAIN sessions' = DOMAIN sessions \ {l}
        BY <1>3 DEF PollSuccess, Without
    <2>4. \A k \in Logins : k # l => claims'[k] = claims[k]
        BY <1>3 DEF PollSuccess, TypeOK
    <2> QED BY <1>3, <2>1, <2>2, <2>3, <2>4 DEF PollSuccess, HeldOnce, Attempts
<1>4. ASSUME NEW p \in Pollers, PollExpired(p) \/ PollPending(p) PROVE HeldOnce'
    <2>1. DOMAIN sessions' \subseteq DOMAIN sessions
        BY <1>4 DEF PollExpired, PollPending, Without
    <2> QED BY <1>4, <2>1 DEF PollExpired, PollPending, HeldOnce, Attempts
<1>5. ASSUME NEW p \in Pollers, NEW l \in Logins, PollCall(p, l) PROVE HeldOnce'
    BY <1>5 DEF PollCall, HeldOnce, Attempts
<1>6. ASSUME NEW c \in Callbacks, NEW l \in Logins, NEW proof \in BOOLEAN,
             NEW key \in Credential, CallbackCall(c, l, proof, key)
      PROVE  HeldOnce'
    <2>1. \A k \in Logins : Attempts(k)' = Attempts(k)
        BY <1>6 DEF CallbackCall, With, Attempts
    <2> QED BY <1>6, <2>1 DEF CallbackCall, HeldOnce
<1>7. ASSUME NEW c \in Callbacks, CallbackReject(c) \/ CallbackSpend(c) \/ VerifyFails(c)
      PROVE  HeldOnce'
    <2>1. \A k \in Logins : Attempts(k)' \subseteq Attempts(k)
        BY <1>7 DEF CallbackReject, CallbackSpend, VerifyFails, Without, Attempts
    <2>2. DOMAIN sessions' \subseteq DOMAIN sessions
        BY <1>7 DEF CallbackReject, CallbackSpend, VerifyFails, Without
    <2> QED BY <1>7, <2>1, <2>2 DEF CallbackReject, CallbackSpend, VerifyFails, HeldOnce
<1>8. ASSUME NEW c \in Callbacks, CallbackAdmit(c) PROVE HeldOnce'
    <2> DEFINE l == callbacks[c].login
    <2>1. l \in DOMAIN sessions /\ l \in Logins
        BY <1>8 DEF CallbackAdmit, AtMatch, Matched, TypeOK
    <2>2. l \in DOMAIN issued /\ l \notin starting /\ Attempts(l) = {} /\ claims[l] = 0
        BY <2>1 DEF HeldOnce
    <2>3. DOMAIN sessions' = DOMAIN sessions \ {l}
        BY <1>8 DEF CallbackAdmit, Without
    <2>4. /\ Attempts(l)' = {c}
          /\ \A k \in Logins : k # l => Attempts(k)' = Attempts(k)
        BY <1>8, <2>2 DEF CallbackAdmit, AtMatch, Attempts
    <2> QED BY <1>8, <2>1, <2>2, <2>3, <2>4 DEF CallbackAdmit, HeldOnce
<1>9. ASSUME NEW c \in Callbacks, VerifySucceeds(c) PROVE HeldOnce'
    <2>1. callbacks[c] \in Attempt /\ callbacks[c].pc = "verify"
        BY <1>9 DEF VerifySucceeds, AtVerify, TypeOK, Delivery, Attempt
    <2>2. DOMAIN callbacks' = DOMAIN callbacks
        BY <1>9 DEF VerifySucceeds
    <2>3. callbacks'[c].login = callbacks[c].login /\ callbacks'[c].pc = "store"
        BY <1>9, <2>1 DEF VerifySucceeds, AtVerify, Attempt
    <2>4. \A d \in DOMAIN callbacks : d # c => callbacks'[d] = callbacks[d]
        BY <1>9 DEF VerifySucceeds
    <2>5. \A k \in Logins : Attempts(k)' = Attempts(k)
        BY <2>1, <2>2, <2>3, <2>4 DEF Attempts
    <2> QED BY <1>9, <2>5 DEF VerifySucceeds, HeldOnce
<1>10. ASSUME NEW c \in Callbacks, CallbackStore(c) PROVE HeldOnce'
    <2> PICK l \in Logins : l = callbacks[c].login
        BY <1>10 DEF CallbackStore, TypeOK, Delivery, Attempt
    <2>1. c \in Attempts(l)
        BY <1>10 DEF CallbackStore, Attempts
    <2>2. l \in DOMAIN issued /\ claims[l] = 0 /\ l \notin starting /\ Attempts(l) = {c}
        BY <2>1 DEF HeldOnce
    <2>3. /\ Attempts(l)' = {}
          /\ \A k \in Logins : k # l => Attempts(k)' = Attempts(k)
        <3>1. /\ DOMAIN callbacks' = DOMAIN callbacks \ {c}
              /\ \A d \in DOMAIN callbacks' : callbacks'[d] = callbacks[d]
            BY <1>10 DEF CallbackStore, Without
        <3>2. \A k \in Logins : Attempts(k)' = Attempts(k) \ {c}
            BY <3>1 DEF Attempts
        <3>3. \A k \in Logins : k # l => c \notin Attempts(k)
            BY DEF Attempts
        <3>4. \A k \in Logins : k # l => Attempts(k) \ {c} = Attempts(k)
            BY <3>3
        <3>5. Attempts(l) \ {c} = {}
            BY <2>2
        <3> HIDE DEF Attempts
        <3> QED BY <3>2, <3>4, <3>5
    <2>4. DOMAIN sessions' = DOMAIN sessions \cup {l}
        BY <1>10 DEF CallbackStore, With
    <2>5. \A k \in Logins : k \in DOMAIN sessions' <=> k = l \/ k \in DOMAIN sessions
        BY <2>4
    <2>6. UNCHANGED <<issued, starting, claims>>
        BY <1>10 DEF CallbackStore
    <2> QED BY <2>1, <2>2, <2>3, <2>5, <2>6 DEF HeldOnce
<1>11. CASE Tick \/ UNCHANGED vars
    BY <1>11 DEF Tick, vars, HeldOnce, Attempts
<1> QED
    BY <1>1, <1>2, <1>3, <1>4, <1>5, <1>6, <1>7, <1>8, <1>9, <1>10, <1>11
    DEF Next, PollStep, CallbackStep

\* In every execution a login has one holder: its start call, the table, one verifying
\* callback, or nobody once it was handed over.
THEOREM HeldOnceHolds == Spec => []HeldOnce
<1>1. Init => HeldOnce
    BY DEF Init, HeldOnce, Attempts
<1> QED BY <1>1, TypeCorrect, HeldOnceStep, PTL DEF Spec

\* A credential is handed over from a session in the table, whose login nobody claimed.
LEMMA ClaimStep ==
    TypeOK /\ HeldOnce /\ ClaimedAtMostOnce /\ [Next]_vars => ClaimedAtMostOnce'
<1> SUFFICES ASSUME TypeOK, HeldOnce, ClaimedAtMostOnce, [Next]_vars PROVE ClaimedAtMostOnce'
    OBVIOUS
<1>1. ASSUME NEW p \in Pollers, PollSuccess(p) PROVE ClaimedAtMostOnce'
    <2> PICK l \in Logins : l = polls[p].login
        BY <1>1 DEF PollSuccess, PollFinds, TypeOK, Poll
    <2>1. claims[l] = 0
        BY <1>1 DEF PollSuccess, PollFinds, HeldOnce
    <2>2. claims' = [claims EXCEPT ![l] = @ + 1]
        BY <1>1 DEF PollSuccess
    <2> QED BY <2>1, <2>2 DEF ClaimedAtMostOnce, TypeOK
<1>2. CASE UNCHANGED claims
    BY <1>2 DEF ClaimedAtMostOnce
<1>3. ASSUME NEW c \in Callbacks, CallbackStep(c) PROVE ClaimedAtMostOnce'
    BY <1>2, <1>3 DEF CallbackStep, CallbackReject, CallbackSpend, CallbackAdmit, VerifyFails,
                VerifySucceeds, CallbackStore
<1>4. ASSUME NEW p \in Pollers, PollExpired(p) \/ PollPending(p) PROVE ClaimedAtMostOnce'
    BY <1>2, <1>4 DEF PollExpired, PollPending
<1>5. ASSUME NEW l \in Logins, StartCall(l) \/ StartInsert(l) PROVE ClaimedAtMostOnce'
    BY <1>2, <1>5 DEF StartCall, StartInsert
<1>6. ASSUME NEW p \in Pollers, NEW l \in Logins, PollCall(p, l) PROVE ClaimedAtMostOnce'
    BY <1>2, <1>6 DEF PollCall
<1>7. ASSUME NEW c \in Callbacks, NEW l \in Logins, NEW proof \in BOOLEAN,
             NEW key \in Credential, CallbackCall(c, l, proof, key)
      PROVE  ClaimedAtMostOnce'
    BY <1>2, <1>7 DEF CallbackCall
<1>8. CASE Tick \/ UNCHANGED vars
    BY <1>2, <1>8 DEF Tick, vars
<1> QED
    BY <1>1, <1>3, <1>4, <1>5, <1>6, <1>7, <1>8 DEF Next, PollStep

\* A login hands over a credential at most once, whatever the interleaving of starts,
\* polls and deliveries.
THEOREM ClaimedOnce == Spec => []ClaimedAtMostOnce
<1>1. Init => ClaimedAtMostOnce
    <2> SUFFICES ASSUME Init, NEW l \in Logins PROVE claims[l] <= 1
        BY DEF ClaimedAtMostOnce
    <2>1. claims[l] = 0
        BY DEF Init
    <2> QED BY <2>1
<1> QED BY <1>1, TypeCorrect, HeldOnceHolds, ClaimStep, PTL DEF Spec

\* What CredentialsProved rests on: a callback that is about to put its credential into
\* the table has seen it accepted.
StoresProved ==
    \A c \in DOMAIN callbacks :
        callbacks[c].pc = "store" => <<callbacks[c].login, callbacks[c].key>> \in proved

LEMMA ProvedStep ==
    TypeOK /\ CredentialsProved /\ StoresProved /\ [Next]_vars
        => CredentialsProved' /\ StoresProved'
<1> SUFFICES ASSUME TypeOK, CredentialsProved, StoresProved, [Next]_vars
             PROVE  CredentialsProved' /\ StoresProved'
    OBVIOUS
<1>1. ASSUME NEW l \in Logins, StartInsert(l) PROVE CredentialsProved' /\ StoresProved'
    <2>1. \A k \in DOMAIN sessions' : \/ k \in DOMAIN sessions /\ sessions'[k] = sessions[k]
                                      \/ sessions'[k].credential = NoKey
        BY <1>1 DEF StartInsert, With, Without
    <2> QED BY <1>1, <2>1 DEF StartInsert, CredentialsProved, StoresProved
<1>2. ASSUME NEW p \in Pollers, PollStep(p) PROVE CredentialsProved' /\ StoresProved'
    <2>1. \A k \in DOMAIN sessions' : k \in DOMAIN sessions /\ sessions'[k] = sessions[k]
        BY <1>2 DEF PollStep, PollSuccess, PollExpired, PollPending, Without
    <2> QED BY <1>2, <2>1 DEF PollStep, PollSuccess, PollExpired, PollPending,
                              CredentialsProved, StoresProved
<1>3. ASSUME NEW c \in Callbacks, NEW l \in Logins, NEW proof \in BOOLEAN,
             NEW key \in Credential, CallbackCall(c, l, proof, key)
      PROVE  CredentialsProved' /\ StoresProved'
    <2>1. \A d \in DOMAIN callbacks' : \/ d \in DOMAIN callbacks /\ callbacks'[d] = callbacks[d]
                                       \/ callbacks'[d].pc = "match"
        BY <1>3 DEF CallbackCall, With
    <2> QED BY <1>3, <2>1 DEF CallbackCall, CredentialsProved, StoresProved
<1>4. ASSUME NEW c \in Callbacks,
             CallbackReject(c) \/ CallbackSpend(c) \/ VerifyFails(c) \/ CallbackAdmit(c)
      PROVE  CredentialsProved' /\ StoresProved'
    <2>1. \A k \in DOMAIN sessions' : k \in DOMAIN sessions /\ sessions'[k] = sessions[k]
        BY <1>4 DEF CallbackReject, CallbackSpend, VerifyFails, CallbackAdmit, Without
    <2>2. \A d \in DOMAIN callbacks' : \/ d \in DOMAIN callbacks /\ callbacks'[d] = callbacks[d]
                                       \/ callbacks'[d].pc = "verify"
        BY <1>4 DEF CallbackReject, CallbackSpend, VerifyFails, CallbackAdmit, Without
    <2>3. proved' = proved
        BY <1>4 DEF CallbackReject, CallbackSpend, VerifyFails, CallbackAdmit
    <2> QED BY <2>1, <2>2, <2>3 DEF CredentialsProved, StoresProved
<1>5. ASSUME NEW c \in Callbacks, VerifySucceeds(c) PROVE CredentialsProved' /\ StoresProved'
    <2>1. callbacks[c] \in Attempt
        BY <1>5 DEF VerifySucceeds, AtVerify, TypeOK, Delivery, Attempt
    <2>2. /\ DOMAIN callbacks' = DOMAIN callbacks
          /\ \A d \in DOMAIN callbacks : d # c => callbacks'[d] = callbacks[d]
          /\ callbacks'[c].login = callbacks[c].login
          /\ callbacks'[c].key = callbacks[c].key
        BY <1>5, <2>1 DEF VerifySucceeds, AtVerify, Attempt
    <2>3. sessions' = sessions /\ proved' = proved \cup {<<callbacks[c].login, callbacks[c].key>>}
        BY <1>5 DEF VerifySucceeds
    <2> QED BY <2>2, <2>3 DEF CredentialsProved, StoresProved
<1>6. ASSUME NEW c \in Callbacks, CallbackStore(c) PROVE CredentialsProved' /\ StoresProved'
    <2> PICK a \in Attempt : a = callbacks[c]
        BY <1>6 DEF CallbackStore, TypeOK, Delivery, Attempt
    <2>1. <<a.login, a.key>> \in proved
        BY <1>6 DEF CallbackStore, StoresProved
    <2>2. \A k \in DOMAIN sessions' :
              \/ k = a.login /\ sessions'[k].credential = a.key
              \/ k \in DOMAIN sessions /\ sessions'[k] = sessions[k]
        BY <1>6 DEF CallbackStore, With
    <2>3. \A d \in DOMAIN callbacks' : d \in DOMAIN callbacks /\ callbacks'[d] = callbacks[d]
        BY <1>6 DEF CallbackStore, Without
    <2>4. proved' = proved
        BY <1>6 DEF CallbackStore
    <2> QED BY <2>1, <2>2, <2>3, <2>4 DEF CredentialsProved, StoresProved
<1>7. CASE UNCHANGED <<sessions, callbacks, proved>>
    BY <1>7 DEF CredentialsProved, StoresProved
<1> QED
    BY <1>1, <1>2, <1>3, <1>4, <1>5, <1>6, <1>7
    DEF Next, vars, Tick, StartCall, PollCall, CallbackStep

\* Every credential waiting in the table was accepted upstream for a delivery that proved
\* the login it waits under.
THEOREM OnlyProvedCredentials == Spec => []CredentialsProved
<1>1. Init => CredentialsProved /\ StoresProved
    BY DEF Init, CredentialsProved, StoresProved
<1> QED BY <1>1, TypeCorrect, ProvedStep, PTL DEF Spec

\* Every step of the plugin is a step of LoginPromise, or none.
LEMMA PromiseStep ==
    TypeOK /\ TypeOK' /\ HeldOnce /\ HeldOnce' /\ [Next]_vars
        => [Promise!PromiseNext]_Promise!promiseVars
<1> SUFFICES ASSUME TypeOK, TypeOK', HeldOnce, HeldOnce', [Next]_vars
             PROVE  Promise!PromiseNext \/ UNCHANGED Promise!promiseVars
    OBVIOUS
<1>1. ASSUME NEW l \in Logins, StartCall(l) PROVE Promise!Issue(l)
    <2>1. DOMAIN issued' = DOMAIN issued \cup {l} /\ l \notin DOMAIN issued
        BY <1>1 DEF StartCall, With
    <2>2. \A k \in Logins : Held(k)' <=> Held(k) \/ k = l
        BY <1>1 DEF StartCall, Held, Attempts
    <2>3. \A k \in Logins : Offered(k)' = Offered(k)
        BY <1>1 DEF StartCall, Offered
    <2>4. claims' = claims
        BY <1>1 DEF StartCall
    <2> QED BY <2>1, <2>2, <2>3, <2>4 DEF Promise!Issue
<1>2. ASSUME NEW l \in Logins, StartInsert(l) PROVE \E S \in SUBSET {k \in Logins : Held(k)} : Promise!Lose(S)
    <2> DEFINE swept == {k \in DOMAIN sessions : Expired(sessions[k], issued[l])}
    <2>1. l \notin DOMAIN sessions
        BY <1>2 DEF StartInsert, HeldOnce
    <2>2. DOMAIN sessions' = (DOMAIN sessions \ swept) \cup {l}
        BY <1>2 DEF StartInsert, With, Without
    <2>3. \A k \in DOMAIN sessions \ swept : sessions'[k] = sessions[k]
        BY <1>2, <2>1 DEF StartInsert, With, Without
    <2>4. sessions'[l].credential = NoKey
        BY <1>2 DEF StartInsert, With, Without
    <2>5. swept \in SUBSET {k \in Logins : Held(k)}
        BY DEF Held, TypeOK
    <2> HIDE DEF swept
    <2>6. \A k \in Logins : Held(k)' <=> Held(k) /\ k \notin swept
        <3>1. \A k \in swept : k \notin starting /\ Attempts(k) = {} /\ k \in DOMAIN sessions
            BY <2>5 DEF HeldOnce, swept
        <3>2. \A k \in Logins : Attempts(k)' = Attempts(k)
            BY <1>2 DEF StartInsert, Attempts
        <3>3. starting' = starting \ {l} /\ l \in starting
            BY <1>2 DEF StartInsert
        <3>4. l \notin swept
            BY <2>1, <3>1
        <3> QED BY <2>2, <3>1, <3>2, <3>3, <3>4 DEF Held
    <2>7. \A k \in Logins : Offered(k)' = IF k \in swept THEN NoKey ELSE Offered(k)
        <3>1. \A k \in swept : k \in DOMAIN sessions
            BY DEF swept
        <3> QED BY <2>1, <2>2, <2>3, <2>4, <3>1 DEF Offered
    <2>8. UNCHANGED <<issued, claims>>
        BY <1>2 DEF StartInsert
    <2> QED BY <2>5, <2>6, <2>7, <2>8 DEF Promise!Lose
<1>3. ASSUME NEW p \in Pollers, PollSuccess(p) PROVE \E l \in Logins : Promise!Claim(l)
    <2> PICK l \in Logins : l = polls[p].login
        BY <1>3 DEF PollSuccess, PollFinds, TypeOK, Poll
    <2>1. l \in DOMAIN sessions /\ sessions[l].credential # NoKey
        BY <1>3 DEF PollSuccess, PollFinds
    <2>2. l \notin starting /\ Attempts(l) = {}
        BY <2>1 DEF HeldOnce
    <2>3. /\ DOMAIN sessions' = DOMAIN sessions \ {l}
          /\ \A k \in DOMAIN sessions \ {l} : sessions'[k] = sessions[k]
        BY <1>3 DEF PollSuccess, Without
    <2>4. \A k \in Logins : Held(k)' <=> Held(k) /\ k # l
        BY <1>3, <2>2, <2>3 DEF PollSuccess, Held, Attempts
    <2>5. \A k \in Logins : Offered(k)' = IF k = l THEN NoKey ELSE Offered(k)
        BY <2>3 DEF Offered
    <2>6. issued' = issued /\ claims' = [claims EXCEPT ![l] = @ + 1]
        BY <1>3 DEF PollSuccess
    <2>7. Held(l) /\ Offered(l) # NoKey
        BY <2>1 DEF Held, Offered
    <2> QED BY <2>4, <2>5, <2>6, <2>7 DEF Promise!Claim
<1>4. ASSUME NEW l \in Logins, l \in DOMAIN sessions, sessions' = Without(sessions, {l}),
             UNCHANGED <<issued, starting, claims>>, Attempts(l)' = {},
             \A k \in Logins : k # l => Attempts(k)' = Attempts(k)
      PROVE  Promise!Lose({l}) /\ {l} \in SUBSET {k \in Logins : Held(k)}
    <2>1. l \notin starting
        BY <1>4 DEF HeldOnce
    <2>2. /\ DOMAIN sessions' = DOMAIN sessions \ {l}
          /\ \A k \in DOMAIN sessions \ {l} : sessions'[k] = sessions[k]
        BY <1>4 DEF Without
    <2>3. \A k \in Logins : Held(k)' <=> Held(k) /\ k # l
        BY <1>4, <2>1, <2>2 DEF Held
    <2>4. \A k \in Logins : Offered(k)' = IF k = l THEN NoKey ELSE Offered(k)
        BY <2>2 DEF Offered
    <2>5. Held(l)
        BY <1>4 DEF Held
    <2> QED BY <1>4, <2>3, <2>4, <2>5 DEF Promise!Lose
<1>5. ASSUME NEW p \in Pollers, PollExpired(p)
      PROVE  \E S \in SUBSET {k \in Logins : Held(k)} : Promise!Lose(S)
    <2> PICK l \in Logins : l = polls[p].login
        BY <1>5 DEF PollExpired, PollFinds, TypeOK, Poll
    <2>1. /\ l \in DOMAIN sessions /\ sessions' = Without(sessions, {l})
          /\ UNCHANGED <<issued, starting, claims>>
          /\ \A k \in Logins : Attempts(k)' = Attempts(k)
        BY <1>5 DEF PollExpired, PollFinds, Attempts
    <2>2. Attempts(l)' = {}
        BY <2>1 DEF HeldOnce
    <2> QED BY <1>4, <2>1, <2>2
<1>6. ASSUME NEW c \in Callbacks, CallbackSpend(c)
      PROVE  \E S \in SUBSET {k \in Logins : Held(k)} : Promise!Lose(S)
    <2> PICK l \in Logins : l = callbacks[c].login
        BY <1>6 DEF CallbackSpend, AtMatch, TypeOK, Delivery, Attempt
    <2>1. /\ l \in DOMAIN sessions /\ sessions' = Without(sessions, {l})
          /\ UNCHANGED <<issued, starting, claims>>
        BY <1>6 DEF CallbackSpend, Matched
    <2>2. \A k \in Logins : Attempts(k)' = Attempts(k)
        BY <1>6 DEF CallbackSpend, AtMatch, Without, Attempts
    <2>3. Attempts(l)' = {}
        BY <2>1, <2>2 DEF HeldOnce
    <2> QED BY <1>4, <2>1, <2>2, <2>3
<1>7. ASSUME NEW c \in Callbacks, CallbackAdmit(c) PROVE \E l \in Logins : Promise!Retry(l)
    <2> PICK l \in Logins : l = callbacks[c].login
        BY <1>7 DEF CallbackAdmit, AtMatch, TypeOK, Delivery, Attempt
    <2>1. l \in DOMAIN sessions
        BY <1>7 DEF CallbackAdmit, Matched
    <2>2. /\ DOMAIN sessions' = DOMAIN sessions \ {l}
          /\ \A k \in DOMAIN sessions \ {l} : sessions'[k] = sessions[k]
        BY <1>7 DEF CallbackAdmit, Without
    <2>3. c \in Attempts(l)' /\ \A k \in Logins : k # l => Attempts(k)' = Attempts(k)
        BY <1>7 DEF CallbackAdmit, AtMatch, Attempts
    <2>4. UNCHANGED <<issued, starting, claims>>
        BY <1>7 DEF CallbackAdmit
    <2>5. Held(l) /\ Held(l)'
        BY <2>1, <2>3 DEF Held
    <2>6. \A k \in Logins : Held(k)' <=> Held(k)
        <3>1. \A k \in Logins : k # l => (Held(k)' <=> Held(k))
            BY <2>2, <2>3, <2>4 DEF Held
        <3> QED BY <2>5, <3>1
    <2>7. \A k \in Logins : Offered(k)' = IF k = l THEN NoKey ELSE Offered(k)
        BY <2>2 DEF Offered
    <2> QED BY <2>4, <2>5, <2>6, <2>7 DEF Promise!Retry
<1>8. ASSUME NEW c \in Callbacks, VerifyFails(c)
      PROVE  \E S \in SUBSET {k \in Logins : Held(k)} : Promise!Lose(S)
    <2> PICK l \in Logins : l = callbacks[c].login /\ c \in Attempts(l)
        BY <1>8 DEF VerifyFails, AtVerify, TypeOK, Delivery, Attempt, Attempts
    <2>1. l \notin starting /\ l \notin DOMAIN sessions /\ Attempts(l) = {c}
        BY DEF HeldOnce
    <2>2. /\ DOMAIN callbacks' = DOMAIN callbacks \ {c}
          /\ \A d \in DOMAIN callbacks' : callbacks'[d] = callbacks[d]
        BY <1>8 DEF VerifyFails, Without
    <2>3. Attempts(l)' = {} /\ \A k \in Logins : k # l => Attempts(k)' = Attempts(k)
        BY <2>1, <2>2 DEF Attempts
    <2>4. UNCHANGED <<issued, starting, sessions, claims>>
        BY <1>8 DEF VerifyFails
    <2>5. Held(l) /\ ~Held(l)'
        BY <2>1, <2>3, <2>4 DEF Held
    <2>6. \A k \in Logins : k # l => (Held(k)' <=> Held(k))
        BY <2>3, <2>4 DEF Held
    <2>7. \A k \in Logins : Offered(k)' = IF k \in {l} THEN NoKey ELSE Offered(k)
        BY <2>1, <2>4 DEF Offered
    <2>8. \A k \in Logins : Held(k)' <=> Held(k) /\ k # l
        BY <2>5, <2>6
    <2> QED BY <2>4, <2>5, <2>7, <2>8 DEF Promise!Lose
<1>9. ASSUME NEW c \in Callbacks, CallbackStore(c)
      PROVE  \E l \in Logins : \E key \in Keys : Promise!Prove(l, key)
    <2> PICK a \in Attempt : a = callbacks[c]
        BY <1>9 DEF CallbackStore, TypeOK, Delivery, Attempt
    <2> PICK l \in Logins : l = a.login /\ c \in Attempts(l)
        BY <1>9 DEF CallbackStore, Attempts, Attempt
    <2>1. a.key \in Keys
        BY DEF Attempt
    <2>2. l \notin starting /\ l \notin DOMAIN sessions /\ Attempts(l) = {c}
        BY DEF HeldOnce
    <2>3. /\ DOMAIN sessions' = DOMAIN sessions \cup {l}
          /\ sessions'[l].credential = a.key
          /\ \A k \in DOMAIN sessions : k # l => sessions'[k] = sessions[k]
        BY <1>9 DEF CallbackStore, With
    <2>4. UNCHANGED <<issued, starting, claims>>
        BY <1>9 DEF CallbackStore
    <2>5. \A k \in Logins : k # l => Attempts(k)' = Attempts(k)
        BY <1>9 DEF CallbackStore, Without, Attempts
    <2>6. Held(l) /\ Held(l)'
        BY <2>3 DEF Held
    <2>7. \A k \in Logins : k # l => (Held(k)' <=> Held(k))
        BY <2>3, <2>4, <2>5 DEF Held
    <2>8. \A k \in Logins : Held(k)' <=> Held(k)
        BY <2>6, <2>7
    <2>9. \A k \in Logins : Offered(k)' = IF k = l THEN a.key ELSE Offered(k)
        BY <2>3 DEF Offered
    <2>10. Offered(l) = NoKey
        BY <2>2 DEF Offered
    <2> QED BY <2>1, <2>4, <2>6, <2>8, <2>9, <2>10 DEF Promise!Prove
<1>10. ASSUME UNCHANGED <<issued, starting, sessions, claims>>,
              \A k \in Logins : Attempts(k)' = Attempts(k)
       PROVE  UNCHANGED Promise!promiseVars
    <2>1. \A k \in Logins : (Held(k)' <=> Held(k)) /\ Offered(k)' = Offered(k)
        BY <1>10 DEF Held, Offered
    <2> QED BY <1>10, <2>1 DEF Promise!promiseVars
<1>11. ASSUME NEW c \in Callbacks, VerifySucceeds(c) \/ CallbackReject(c)
       PROVE  UNCHANGED Promise!promiseVars
    <2>1. CASE VerifySucceeds(c)
        <3>1. callbacks[c] \in Attempt /\ callbacks[c].pc = "verify"
            BY <2>1 DEF VerifySucceeds, AtVerify, TypeOK, Delivery, Attempt
        <3>2. /\ DOMAIN callbacks' = DOMAIN callbacks
              /\ \A d \in DOMAIN callbacks : d # c => callbacks'[d] = callbacks[d]
              /\ callbacks'[c].login = callbacks[c].login /\ callbacks'[c].pc = "store"
            BY <2>1, <3>1 DEF VerifySucceeds, AtVerify, Attempt
        <3>3. \A k \in Logins : Attempts(k)' = Attempts(k)
            BY <3>1, <3>2 DEF Attempts
        <3> QED BY <1>10, <2>1, <3>3 DEF VerifySucceeds
    <2>2. CASE CallbackReject(c)
        <3>1. \A k \in Logins : Attempts(k)' = Attempts(k)
            BY <2>2 DEF CallbackReject, AtMatch, Without, Attempts
        <3> QED BY <1>10, <2>2, <3>1 DEF CallbackReject
    <2> QED BY <1>11, <2>1, <2>2
<1>12. ASSUME NEW c \in Callbacks, NEW l \in Logins, NEW proof \in BOOLEAN,
              NEW key \in Credential, CallbackCall(c, l, proof, key)
       PROVE  UNCHANGED Promise!promiseVars
    <2>1. \A k \in Logins : Attempts(k)' = Attempts(k)
        BY <1>12 DEF CallbackCall, With, Attempts
    <2> QED BY <1>10, <1>12, <2>1 DEF CallbackCall
<1>13. ASSUME UNCHANGED <<issued, starting, sessions, claims, callbacks>>
       PROVE  UNCHANGED Promise!promiseVars
    BY <1>10, <1>13 DEF Attempts
<1>14. ASSUME NEW p \in Pollers, PollPending(p) \/ \E l \in Logins : PollCall(p, l)
       PROVE  UNCHANGED Promise!promiseVars
    BY <1>13, <1>14 DEF PollPending, PollCall
<1>15. CASE Tick \/ UNCHANGED vars
    BY <1>13, <1>15 DEF Tick, vars
<1>16. ASSUME NEW l \in Logins, StartCall(l) \/ StartInsert(l) PROVE Promise!PromiseNext
    BY <1>1, <1>2, <1>16 DEF Promise!PromiseNext
<1>17. ASSUME NEW p \in Pollers, PollSuccess(p) \/ PollExpired(p) PROVE Promise!PromiseNext
    BY <1>3, <1>5, <1>17 DEF Promise!PromiseNext
<1>18. ASSUME NEW c \in Callbacks,
              CallbackSpend(c) \/ CallbackAdmit(c) \/ VerifyFails(c) \/ CallbackStore(c)
       PROVE  Promise!PromiseNext
    BY <1>6, <1>7, <1>8, <1>9, <1>18 DEF Promise!PromiseNext
<1> QED
    BY <1>11, <1>12, <1>14, <1>15, <1>16, <1>17, <1>18 DEF Next, PollStep, CallbackStep

\* The plugin's login table implements LoginPromise.
THEOREM Refinement == Spec => KeepsPromise
<1>1. Init => Promise!PromiseInit
    BY DEF Init, Promise!PromiseInit, Held, Offered, Attempts
<1> QED
    BY <1>1, TypeCorrect, HeldOnceHolds, PromiseStep, PTL
    DEF Spec, KeepsPromise, Promise!PromiseSpec
-----------------------------------------------------------------------------
\* What LifetimeKept leaves open: no time in the table is ahead of the clock.
NoneAhead ==
    /\ \A l \in DOMAIN issued : issued[l] <= now
    /\ \A p \in DOMAIN polls : polls[p].at <= now
    /\ \A c \in DOMAIN callbacks : callbacks[c].pc = "match" => callbacks[c].at <= now

\* LifetimeKept without Attempts: the same for a callback.
HeldTimes ==
    /\ \A l \in DOMAIN sessions : l \in DOMAIN issued /\ sessions[l].createdAt = issued[l]
    /\ \A c \in DOMAIN callbacks : callbacks[c].pc # "match" =>
          /\ callbacks[c].login \in DOMAIN issued
          /\ callbacks[c].createdAt = issued[callbacks[c].login]

\* Every step leaves the creation time of a login with it, and reads no time but the clock's.
LEMMA TimesStep ==
    TypeOK /\ HeldOnce /\ NoneAhead /\ HeldTimes /\ [Next]_vars => NoneAhead' /\ HeldTimes'
<1> SUFFICES ASSUME TypeOK, HeldOnce, NoneAhead, HeldTimes, [Next]_vars
             PROVE  NoneAhead' /\ HeldTimes'
    OBVIOUS
<1>0. /\ now \in Nat /\ \A l \in DOMAIN issued : issued[l] \in Nat
      /\ \A p \in DOMAIN polls : polls[p].at \in Nat
      /\ \A c \in DOMAIN callbacks : callbacks[c].pc = "match" => callbacks[c].at \in Nat
    BY TimeAssumption DEF TypeOK, Time, Poll, Delivery, Attempt
<1>1. CASE Tick
    <2>1. now' = now + 1 /\ UNCHANGED <<issued, sessions, polls, callbacks>>
        BY <1>1 DEF Tick
    <2> QED BY <1>0, <2>1 DEF NoneAhead, HeldTimes
<1>2. ASSUME NEW l \in Logins, StartCall(l) PROVE NoneAhead' /\ HeldTimes'
    <2>1. /\ l \notin DOMAIN issued /\ issued' = With(issued, l, now)
          /\ UNCHANGED <<now, sessions, polls, callbacks>>
        BY <1>2 DEF StartCall
    <2>2. /\ DOMAIN issued' = DOMAIN issued \cup {l} /\ issued'[l] = now
          /\ \A k \in DOMAIN issued : issued'[k] = issued[k]
        BY <2>1 DEF With
    <2> QED BY <1>0, <2>1, <2>2 DEF NoneAhead, HeldTimes
<1>3. ASSUME NEW l \in Logins, StartInsert(l) PROVE NoneAhead' /\ HeldTimes'
    <2>1. \A k \in DOMAIN sessions' : \/ k \in DOMAIN sessions /\ sessions'[k] = sessions[k]
                                      \/ k = l /\ sessions'[k].createdAt = issued[l]
        BY <1>3 DEF StartInsert, With, Without
    <2>2. l \in DOMAIN issued /\ UNCHANGED <<now, issued, polls, callbacks>>
        BY <1>3 DEF StartInsert, TypeOK
    <2> QED BY <2>1, <2>2 DEF NoneAhead, HeldTimes
<1>4. ASSUME NEW p \in Pollers, PollStep(p) PROVE NoneAhead' /\ HeldTimes'
    <2>1. \A k \in DOMAIN sessions' : k \in DOMAIN sessions /\ sessions'[k] = sessions[k]
        BY <1>4 DEF PollStep, PollSuccess, PollExpired, PollPending, Without
    <2>2. \A q \in DOMAIN polls' : q \in DOMAIN polls /\ polls'[q] = polls[q]
        BY <1>4 DEF PollStep, PollSuccess, PollExpired, PollPending, Without
    <2>3. UNCHANGED <<now, issued, callbacks>>
        BY <1>4 DEF PollStep, PollSuccess, PollExpired, PollPending
    <2> QED BY <2>1, <2>2, <2>3 DEF NoneAhead, HeldTimes
<1>5. ASSUME NEW p \in Pollers, NEW l \in Logins, PollCall(p, l) PROVE NoneAhead' /\ HeldTimes'
    <2>1. \A q \in DOMAIN polls' : \/ q \in DOMAIN polls /\ polls'[q] = polls[q]
                                   \/ polls'[q].at = now
        BY <1>5 DEF PollCall, With
    <2>2. UNCHANGED <<now, issued, sessions, callbacks>>
        BY <1>5 DEF PollCall
    <2> QED BY <1>0, <2>1, <2>2 DEF NoneAhead, HeldTimes
<1>6. ASSUME NEW c \in Callbacks, NEW l \in Logins, NEW proof \in BOOLEAN,
             NEW key \in Credential, CallbackCall(c, l, proof, key)
      PROVE  NoneAhead' /\ HeldTimes'
    <2>1. \A d \in DOMAIN callbacks' : \/ d \in DOMAIN callbacks /\ callbacks'[d] = callbacks[d]
                                       \/ callbacks'[d].pc = "match" /\ callbacks'[d].at = now
        BY <1>6 DEF CallbackCall, With
    <2>2. UNCHANGED <<now, issued, sessions, polls>>
        BY <1>6 DEF CallbackCall
    <2> QED BY <1>0, <2>1, <2>2 DEF NoneAhead, HeldTimes
<1>7. ASSUME NEW c \in Callbacks, CallbackReject(c) \/ CallbackSpend(c) \/ VerifyFails(c)
      PROVE  NoneAhead' /\ HeldTimes'
    <2>1. \A k \in DOMAIN sessions' : k \in DOMAIN sessions /\ sessions'[k] = sessions[k]
        BY <1>7 DEF CallbackReject, CallbackSpend, VerifyFails, Without
    <2>2. \A d \in DOMAIN callbacks' : d \in DOMAIN callbacks /\ callbacks'[d] = callbacks[d]
        BY <1>7 DEF CallbackReject, CallbackSpend, VerifyFails, Without
    <2>3. UNCHANGED <<now, issued, polls>>
        BY <1>7 DEF CallbackReject, CallbackSpend, VerifyFails
    <2> QED BY <2>1, <2>2, <2>3 DEF NoneAhead, HeldTimes
<1>8. ASSUME NEW c \in Callbacks, CallbackAdmit(c) PROVE NoneAhead' /\ HeldTimes'
    <2> DEFINE l == callbacks[c].login
    <2>1. /\ l \in DOMAIN issued /\ sessions[l].createdAt = issued[l]
          /\ UNCHANGED <<now, issued, polls>>
        BY <1>8 DEF CallbackAdmit, Matched, HeldTimes
    <2>2. \A k \in DOMAIN sessions' : k \in DOMAIN sessions /\ sessions'[k] = sessions[k]
        BY <1>8 DEF CallbackAdmit, Without
    <2>3. \A d \in DOMAIN callbacks' :
             \/ d \in DOMAIN callbacks /\ callbacks'[d] = callbacks[d]
             \/ /\ callbacks'[d].pc = "verify" /\ callbacks'[d].login = l
                /\ callbacks'[d].createdAt = sessions[l].createdAt
        BY <1>8 DEF CallbackAdmit
    <2> QED BY <2>1, <2>2, <2>3 DEF NoneAhead, HeldTimes
<1>9. ASSUME NEW c \in Callbacks, VerifySucceeds(c) PROVE NoneAhead' /\ HeldTimes'
    <2>1. callbacks[c] \in Attempt /\ callbacks[c].pc = "verify" /\ c \in DOMAIN callbacks
        BY <1>9 DEF VerifySucceeds, AtVerify, TypeOK, Delivery, Attempt
    <2>2. \A d \in DOMAIN callbacks' :
             /\ d \in DOMAIN callbacks
             /\ \/ callbacks'[d] = callbacks[d]
                \/ /\ callbacks'[d].pc = "store" /\ callbacks[d].pc = "verify"
                   /\ callbacks'[d].login = callbacks[d].login
                   /\ callbacks'[d].createdAt = callbacks[d].createdAt
        BY <1>9, <2>1 DEF VerifySucceeds, Attempt
    <2>3. UNCHANGED <<now, issued, polls, sessions>>
        BY <1>9 DEF VerifySucceeds
    <2> QED BY <2>2, <2>3 DEF NoneAhead, HeldTimes
<1>10. ASSUME NEW c \in Callbacks, CallbackStore(c) PROVE NoneAhead' /\ HeldTimes'
    <2> DEFINE a == callbacks[c]
    <2>1. /\ a.login \in DOMAIN issued /\ a.createdAt = issued[a.login]
          /\ UNCHANGED <<now, issued, polls>>
        BY <1>10 DEF CallbackStore, HeldTimes
    <2>2. \A k \in DOMAIN sessions' : \/ k \in DOMAIN sessions /\ sessions'[k] = sessions[k]
                                      \/ k = a.login /\ sessions'[k].createdAt = a.createdAt
        BY <1>10 DEF CallbackStore, With
    <2>3. \A d \in DOMAIN callbacks' : d \in DOMAIN callbacks /\ callbacks'[d] = callbacks[d]
        BY <1>10 DEF CallbackStore, Without
    <2> QED BY <2>1, <2>2, <2>3 DEF NoneAhead, HeldTimes
<1>11. CASE UNCHANGED vars
    BY <1>11 DEF vars, NoneAhead, HeldTimes
<1> QED
    BY <1>1, <1>2, <1>3, <1>4, <1>5, <1>6, <1>7, <1>8, <1>9, <1>10, <1>11
    DEF Next, CallbackStep

\* The times of the login table, in every execution.
LEMMA TimesHold == Spec => [](TypeOK /\ NoneAhead /\ HeldTimes)
<1>1. Init => NoneAhead /\ HeldTimes
    BY DEF Init, NoneAhead, HeldTimes
<1> QED BY <1>1, TypeCorrect, HeldOnceHolds, TimesStep, PTL DEF Spec

\* Taking a session out for its verification and putting it back never prolongs it.
THEOREM Lifetimes == Spec => []LifetimeKept
<1>1. HeldTimes => LifetimeKept
    BY DEF HeldTimes, LifetimeKept, Attempts
<1> QED BY <1>1, TimesHold, PTL

\* A credential is handed over only to a poll made before the expiry time the host was
\* told, and only one that was accepted upstream.
THEOREM TimelyClaims == Spec => ClaimsAreTimely
<1> DEFINE Timely == \A l \in Logins : claims'[l] # claims[l] =>
              /\ l \in DOMAIN issued
              /\ \E p \in DOMAIN polls : /\ p \notin DOMAIN polls'
                                         /\ polls[p].login = l
                                         /\ polls[p].at <= issued[l] + TTL
              /\ \E key \in Keys : <<l, key>> \in proved
<1>1. TypeOK /\ HeldTimes /\ CredentialsProved /\ [Next]_vars => [Timely]_vars
    <2> SUFFICES ASSUME TypeOK, HeldTimes, CredentialsProved, Next PROVE Timely
        OBVIOUS
    <2>1. CASE UNCHANGED claims
        BY <2>1
    <2>2. ASSUME NEW p \in Pollers, PollSuccess(p) PROVE Timely
        <3> DEFINE l == polls[p].login
        <3>1. /\ p \in DOMAIN polls /\ l \in DOMAIN sessions /\ l \in Logins
              /\ ~Expired(sessions[l], polls[p].at) /\ sessions[l].credential # NoKey
            BY <2>2 DEF PollSuccess, PollFinds, TypeOK, Poll
        <3>2. claims' = [claims EXCEPT ![l] = @ + 1] /\ p \notin DOMAIN polls'
            BY <2>2 DEF PollSuccess, Without
        <3>3. l \in DOMAIN issued /\ sessions[l].createdAt = issued[l]
            BY <3>1 DEF HeldTimes
        <3>4. polls[p].at <= issued[l] + TTL
            <4>1. polls[p].at \in Nat /\ issued[l] \in Nat
                BY <3>1, <3>3, TimeAssumption DEF TypeOK, Poll, Time
            <4> QED BY <3>1, <3>3, <4>1, TimeAssumption DEF Expired
        <3>5. sessions[l].credential \in Keys /\ <<l, sessions[l].credential>> \in proved
            BY <3>1 DEF CredentialsProved, TypeOK, Session, Credential
        <3>6. \A k \in Logins : k # l => claims'[k] = claims[k]
            BY <3>2 DEF TypeOK
        <3> QED BY <3>1, <3>2, <3>3, <3>4, <3>5, <3>6
    <2>3. ASSUME NEW p \in Pollers,
                 PollExpired(p) \/ PollPending(p) \/ \E l \in Logins : PollCall(p, l)
          PROVE  UNCHANGED claims
        BY <2>3 DEF PollExpired, PollPending, PollCall
    <2>4. ASSUME NEW c \in Callbacks,
                 \/ CallbackStep(c)
                 \/ \E l \in Logins, proof \in BOOLEAN, key \in Credential :
                       CallbackCall(c, l, proof, key)
          PROVE  UNCHANGED claims
        BY <2>4 DEF CallbackStep, CallbackReject, CallbackSpend, CallbackAdmit, VerifyFails,
                    VerifySucceeds, CallbackStore, CallbackCall
    <2>5. ASSUME NEW l \in Logins, StartCall(l) \/ StartInsert(l) PROVE UNCHANGED claims
        BY <2>5 DEF StartCall, StartInsert
    <2>6. Tick => UNCHANGED claims
        BY DEF Tick
    <2> HIDE DEF Timely
    <2> QED BY <2>1, <2>2, <2>3, <2>4, <2>5, <2>6 DEF Next, PollStep
<1> QED BY <1>1, TimesHold, OnlyProvedCredentials, PTL DEF Spec, ClaimsAreTimely

\* A session leaves the table because it is past its expiry time, because it was handed
\* over, or for a delivery that proves it; nothing else on the public route ends it.
THEOREM OnlyProofOrAge == Spec => OnlyProofOrAgeEndsASession
<1> DEFINE Ended(l) ==
              \/ now > issued[l] + TTL
              \/ claims'[l] = claims[l] + 1
              \/ \E c \in DOMAIN callbacks :
                    AtMatch(c) /\ callbacks[c].login = l /\ callbacks[c].proof
           Proper == \A l \in DOMAIN sessions : l \notin DOMAIN sessions' => Ended(l)
<1>1. TypeOK /\ NoneAhead /\ HeldTimes /\ [Next]_vars => [Proper]_vars
    <2> SUFFICES ASSUME TypeOK, NoneAhead, HeldTimes, Next,
                        NEW l \in DOMAIN sessions, l \notin DOMAIN sessions'
                 PROVE  Ended(l)
        OBVIOUS
    <2>1. /\ l \in Logins /\ l \in DOMAIN issued /\ sessions[l].createdAt = issued[l]
          /\ now \in Nat /\ issued[l] \in Nat
        BY TimeAssumption DEF TypeOK, HeldTimes, Time
    <2>2. ASSUME NEW at \in Nat, at <= now, Expired(sessions[l], at) PROVE Ended(l)
        <3>1. now > issued[l] + TTL
            BY <2>1, <2>2, TimeAssumption DEF Expired
        <3> QED BY <3>1
    <2>3. ASSUME NEW k \in Logins, StartInsert(k) PROVE Ended(l)
        <3>1. l \in {j \in DOMAIN sessions : Expired(sessions[j], issued[k])}
            BY <2>3 DEF StartInsert, With, Without
        <3>2. issued[k] \in Nat /\ issued[k] <= now
            BY <2>3, TimeAssumption DEF StartInsert, TypeOK, NoneAhead, Time
        <3> HIDE DEF Ended
        <3> QED BY <2>2, <3>1, <3>2
    <2>4. ASSUME NEW p \in Pollers, PollSuccess(p) PROVE Ended(l)
        <3>1. polls[p].login = l /\ claims' = [claims EXCEPT ![l] = @ + 1]
            BY <2>4 DEF PollSuccess, Without
        <3> QED BY <2>1, <3>1 DEF TypeOK
    <2>5. ASSUME NEW p \in Pollers, PollExpired(p) PROVE Ended(l)
        <3>1. polls[p].login = l /\ Expired(sessions[l], polls[p].at) /\ p \in DOMAIN polls
            BY <2>5 DEF PollExpired, PollFinds, Without
        <3>2. polls[p].at \in Nat /\ polls[p].at <= now
            BY <3>1, TimeAssumption DEF TypeOK, Poll, NoneAhead, Time
        <3> HIDE DEF Ended
        <3> QED BY <2>2, <3>1, <3>2
    <2>6. ASSUME NEW c \in Callbacks, CallbackSpend(c) \/ CallbackAdmit(c) PROVE Ended(l)
        <3>1. AtMatch(c) /\ c \in DOMAIN callbacks /\ callbacks[c].proof /\ callbacks[c].login = l
            BY <2>6 DEF CallbackSpend, CallbackAdmit, AtMatch, Matched, Without
        <3> QED BY <3>1
    <2>7. ASSUME NEW c \in Callbacks, CallbackStore(c) PROVE FALSE
        BY <2>7 DEF CallbackStore, With
    <2>8. ASSUME NEW c \in Callbacks,
                 \/ CallbackReject(c) \/ VerifyFails(c) \/ VerifySucceeds(c)
                 \/ \E k \in Logins, proof \in BOOLEAN, key \in Credential :
                       CallbackCall(c, k, proof, key)
          PROVE  FALSE
        BY <2>8 DEF CallbackReject, VerifyFails, VerifySucceeds, CallbackCall
    <2>9. ASSUME NEW p \in Pollers, PollPending(p) \/ \E k \in Logins : PollCall(p, k)
          PROVE  FALSE
        BY <2>9 DEF PollPending, PollCall
    <2>10. ~ Tick /\ ~ \E k \in Logins : StartCall(k)
        BY DEF Tick, StartCall
    <2> HIDE DEF Ended
    <2> QED BY <2>3, <2>4, <2>5, <2>6, <2>7, <2>8, <2>9, <2>10 DEF Next, PollStep, CallbackStep
<1> QED BY <1>1, TimesHold, PTL DEF Spec, OnlyProofOrAgeEndsASession
-----------------------------------------------------------------------------
\* Browser requests are about logins that were issued.
ThreadsIssued == \A t \in DOMAIN threads : threads[t].login \in DOMAIN issued

\* Every step of the helper and the plugin together is one of the plugin, or none.
LEMMA FlowIsLogin == BridgeTypeOK /\ [FlowNext]_flowVars => [Next]_vars
<1> SUFFICES ASSUME BridgeTypeOK, [FlowNext]_flowVars PROVE [Next]_vars
    OBVIOUS
<1>1. CASE HostStep
    BY <1>1 DEF HostStep, Next
<1>2. ASSUME NEW c \in Callbacks, PluginCallback(c) PROVE Next
    BY <1>2 DEF PluginCallback, Next
<1>3. ASSUME NEW t \in Callbacks, Forward(t) PROVE Next
    <2>1. threads[t].login \in Logins /\ threads[t].key \in Credential
        BY <1>3 DEF Forward, At, BridgeTypeOK, Thread
    <2>2. CallbackCall(t, threads[t].login, TRUE, threads[t].key)
        BY <1>3 DEF Forward
    <2> QED BY <2>1, <2>2 DEF Next
<1>4. ASSUME NEW t \in Callbacks,
             \/ \E l \in Logins : StartRequest(t, l)
             \/ \E l \in Logins, key \in Keys : Deliver(t, l, key)
             \/ StartBind(t) \/ ForwardFails(t) \/ Reply(t) \/ ReplyLost(t)
      PROVE  UNCHANGED vars
    BY <1>4 DEF StartRequest, Deliver, StartBind, ForwardFails, Reply, ReplyLost
<1>5. Shutdown \/ Restart => UNCHANGED vars
    BY DEF Shutdown, Restart
<1>6. UNCHANGED flowVars => UNCHANGED vars
    BY DEF flowVars
<1> QED BY <1>1, <1>2, <1>3, <1>4, <1>5, <1>6 DEF FlowNext

\* The plugin forgets no login and no verification.
LEMMA LoginGrows ==
    TypeOK /\ [Next]_vars => DOMAIN issued \subseteq DOMAIN issued' /\ proved \subseteq proved'
<1> SUFFICES ASSUME TypeOK, [Next]_vars
             PROVE  DOMAIN issued \subseteq DOMAIN issued' /\ proved \subseteq proved'
    OBVIOUS
<1>1. ASSUME NEW l \in Logins, StartCall(l) \/ StartInsert(l)
      PROVE  DOMAIN issued \subseteq DOMAIN issued' /\ proved \subseteq proved'
    BY <1>1 DEF StartCall, StartInsert, With
<1>2. ASSUME NEW p \in Pollers, PollStep(p) \/ \E l \in Logins : PollCall(p, l)
      PROVE  UNCHANGED <<issued, proved>>
    BY <1>2 DEF PollStep, PollSuccess, PollExpired, PollPending, PollCall
<1>3. ASSUME NEW c \in Callbacks,
             \/ CallbackStep(c)
             \/ \E l \in Logins, proof \in BOOLEAN, key \in Credential :
                   CallbackCall(c, l, proof, key)
      PROVE  issued' = issued /\ proved \subseteq proved'
    BY <1>3 DEF CallbackStep, CallbackReject, CallbackSpend, CallbackAdmit, VerifyFails,
                VerifySucceeds, CallbackStore, CallbackCall
<1>4. Tick \/ UNCHANGED vars => UNCHANGED <<issued, proved>>
    BY DEF Tick, vars
<1> QED BY <1>1, <1>2, <1>3, <1>4 DEF Next

\* Every step keeps the helper's types.
LEMMA BridgeStep ==
    TypeOK /\ BridgeTypeOK /\ ThreadsIssued /\ [FlowNext]_flowVars
        => BridgeTypeOK' /\ ThreadsIssued'
<1> SUFFICES ASSUME TypeOK, BridgeTypeOK, ThreadsIssued, [FlowNext]_flowVars
             PROVE  BridgeTypeOK' /\ ThreadsIssued'
    OBVIOUS
<1>0. DOMAIN issued \subseteq DOMAIN issued'
    BY FlowIsLogin, LoginGrows
<1> DEFINE Rest == /\ running' \in BOOLEAN /\ consumed' \in BOOLEAN /\ stopping' \in BOOLEAN
                   /\ bound' \in Logins \cup {NoLogin}
                   /\ redirected' \subseteq DOMAIN issued'
                   /\ told' \in [Logins -> SUBSET Outcome] /\ forwards' \in Nat
           ThreadsTyped == /\ DOMAIN threads' \subseteq Callbacks
                           /\ threads' \in [DOMAIN threads' -> Thread]
                           /\ \A t \in DOMAIN threads' : threads'[t].login \in DOMAIN issued'
<1>1. Rest /\ ThreadsTyped => BridgeTypeOK' /\ ThreadsIssued'
    BY DEF BridgeTypeOK, ThreadsIssued
<1>2. CASE HostStep \/ UNCHANGED flowVars
    <2>1. UNCHANGED bridgeVars
        BY <1>2 DEF HostStep, flowVars
    <2> QED BY <1>0, <2>1 DEF bridgeVars, BridgeTypeOK, ThreadsIssued
<1>3. ASSUME NEW c \in Callbacks, PluginCallback(c) PROVE BridgeTypeOK' /\ ThreadsIssued'
    <2>1. Rest
        BY <1>0, <1>3 DEF PluginCallback, BridgeTypeOK
    <2>2. threads' = threads \/ \E pc \in {"accepted", "refused"} :
             At(c, "await") /\ threads' = [threads EXCEPT ![c].pc = pc]
        BY <1>3 DEF PluginCallback
    <2>3. ThreadsTyped
        BY <1>0, <2>2 DEF BridgeTypeOK, ThreadsIssued, Thread, At
    <2> QED BY <1>1, <2>1, <2>3
<1>4. ASSUME NEW t \in Callbacks, NEW l \in Logins, StartRequest(t, l)
      PROVE  BridgeTypeOK' /\ ThreadsIssued'
    <2>1. Rest
        BY <1>0, <1>4 DEF StartRequest, BridgeTypeOK
    <2> DEFINE new == [pc |-> "bind", login |-> l, key |-> NoKey]
    <2>2. threads' = With(threads, t, new) /\ new \in Thread /\ new.login \in DOMAIN issued
        BY <1>4 DEF StartRequest, Thread, Credential
    <2> HIDE DEF new
    <2>3. ThreadsTyped
        BY <1>0, <2>2 DEF BridgeTypeOK, ThreadsIssued, With
    <2> QED BY <1>1, <2>1, <2>3
<1>5. ASSUME NEW t \in Callbacks, NEW l \in Logins, NEW key \in Keys, Deliver(t, l, key)
      PROVE  BridgeTypeOK' /\ ThreadsIssued'
    <2>1. Rest
        BY <1>0, <1>5 DEF Deliver, BridgeTypeOK
    <2> DEFINE new == [pc |-> "send", login |-> l, key |-> key]
    <2>2. threads' = With(threads, t, new) /\ new \in Thread /\ new.login \in DOMAIN issued
        BY <1>5 DEF Deliver, Thread, Credential, BridgeTypeOK
    <2> HIDE DEF new
    <2>3. ThreadsTyped
        BY <1>0, <2>2 DEF BridgeTypeOK, ThreadsIssued, With
    <2> QED BY <1>1, <2>1, <2>3
<1>6. ASSUME NEW t \in Callbacks, Forward(t) PROVE BridgeTypeOK' /\ ThreadsIssued'
    <2>1. Rest
        BY <1>0, <1>6 DEF Forward, BridgeTypeOK
    <2>2. ThreadsTyped
        BY <1>0, <1>6 DEF Forward, At, BridgeTypeOK, ThreadsIssued, Thread
    <2> QED BY <1>1, <2>1, <2>2
<1>7. ASSUME NEW t \in Callbacks, StartBind(t) \/ ForwardFails(t) \/ Reply(t) \/ ReplyLost(t)
      PROVE  BridgeTypeOK' /\ ThreadsIssued'
    <2>1. t \in DOMAIN threads /\ threads[t].login \in DOMAIN issued /\ threads[t].login \in Logins
        BY <1>7 DEF StartBind, ForwardFails, Reply, ReplyLost, At, BridgeTypeOK, ThreadsIssued,
                    Thread
    <2>2. Rest
        <3>1. told' \in [Logins -> SUBSET Outcome]
            BY <1>7, <2>1 DEF StartBind, ForwardFails, Reply, ReplyLost, BridgeTypeOK, Outcome
        <3> QED BY <1>0, <1>7, <2>1, <3>1
                DEF StartBind, ForwardFails, Reply, ReplyLost, BridgeTypeOK
    <2>3. ThreadsTyped
        BY <1>0, <1>7 DEF StartBind, ForwardFails, Reply, ReplyLost, Without, BridgeTypeOK,
                          ThreadsIssued
    <2> QED BY <1>1, <2>2, <2>3
<1>8. CASE Shutdown \/ Restart
    <2>1. Rest
        <3>1. /\ running' \in BOOLEAN /\ consumed' \in BOOLEAN /\ stopping' \in BOOLEAN
              /\ bound' \in Logins \cup {NoLogin}
            BY <1>8, Zenon DEF Shutdown, Restart, BridgeTypeOK
        <3>2. forwards' \in Nat /\ UNCHANGED <<redirected, told>>
            BY <1>8 DEF Shutdown, Restart, BridgeTypeOK
        <3> QED BY <1>0, <3>1, <3>2 DEF BridgeTypeOK
    <2>2. ThreadsTyped
        <3>1. threads' = [t \in {} |-> 0] /\ DOMAIN threads' = {}
            BY <1>8 DEF Shutdown, Restart
        <3>2. threads' \in [DOMAIN threads' -> Thread]
            BY <3>1
        <3> QED BY <3>1, <3>2
    <2> QED BY <1>1, <2>1, <2>2
<1> QED BY <1>2, <1>3, <1>4, <1>5, <1>6, <1>7, <1>8 DEF FlowNext

\* The types of the plugin and of the helper, in every execution of the two together.
LEMMA FlowTyped == FlowSpec => [](TypeOK /\ BridgeTypeOK /\ ThreadsIssued)
<1>1. FlowInit => TypeOK /\ BridgeTypeOK /\ ThreadsIssued
    <2>1. FlowInit => TypeOK
        BY TimeAssumption DEF FlowInit, Init, TypeOK, Time
    <2>2. ASSUME FlowInit PROVE BridgeTypeOK /\ ThreadsIssued
        <3>1. threads = [t \in {} |-> 0] /\ DOMAIN threads = {}
            BY <2>2 DEF FlowInit
        <3>2. told \in [Logins -> SUBSET Outcome]
            BY <2>2 DEF FlowInit
        <3>3. threads \in [DOMAIN threads -> Thread]
            BY <3>1
        <3> QED BY <2>2, <3>1, <3>2, <3>3 DEF FlowInit, BridgeTypeOK, ThreadsIssued
    <2> QED BY <2>1, <2>2
<1>2. TypeOK /\ BridgeTypeOK /\ ThreadsIssued /\ [FlowNext]_flowVars
         => TypeOK' /\ BridgeTypeOK' /\ ThreadsIssued'
    BY BridgeStep, FlowIsLogin, TypeStep
<1> QED BY <1>1, <1>2, PTL DEF FlowSpec

\* The helper's variables keep their types in every execution.
THEOREM BridgeTypes == FlowSpec => []BridgeTypeOK
BY FlowTyped, PTL
-----------------------------------------------------------------------------
\* What ForwardedOnce rests on: the one delivery that found the helper not consumed is on
\* its way, or was forwarded.
Sending == {t \in DOMAIN threads : threads[t].pc = "send"}
ForwardInv ==
    /\ forwards \in {0, 1}
    /\ \A t, u \in Sending : t = u
    /\ Sending # {} => forwards = 0
    /\ consumed = FALSE => forwards = 0 /\ Sending = {}

\* Every step keeps the one delivery of a helper process the only one.
LEMMA ForwardStep == BridgeTypeOK /\ ForwardInv /\ [FlowNext]_flowVars => ForwardInv'
<1> SUFFICES ASSUME BridgeTypeOK, ForwardInv, [FlowNext]_flowVars PROVE ForwardInv'
    OBVIOUS
<1>1. ASSUME UNCHANGED <<forwards, consumed>>, Sending' \subseteq Sending PROVE ForwardInv'
    BY <1>1 DEF ForwardInv
<1>2. CASE HostStep \/ UNCHANGED flowVars
    <2>1. UNCHANGED bridgeVars
        BY <1>2 DEF HostStep, flowVars
    <2> QED BY <1>1, <2>1 DEF bridgeVars, Sending
<1>3. ASSUME NEW c \in Callbacks, PluginCallback(c) PROVE ForwardInv'
    <2>1. threads' = threads \/ \E pc \in {"accepted", "refused"} :
             At(c, "await") /\ threads' = [threads EXCEPT ![c].pc = pc]
        BY <1>3 DEF PluginCallback
    <2>2. \A t \in DOMAIN threads' : t \in DOMAIN threads /\ (threads'[t].pc = "send" => threads[t].pc = "send")
        BY <2>1 DEF BridgeTypeOK, Thread, At
    <2> QED BY <1>1, <1>3, <2>2 DEF PluginCallback, Sending
<1>4. ASSUME NEW t \in Callbacks, NEW l \in Logins, StartRequest(t, l) PROVE ForwardInv'
    BY <1>1, <1>4 DEF StartRequest, With, Sending
<1>5. ASSUME NEW t \in Callbacks, NEW l \in Logins, NEW key \in Keys, Deliver(t, l, key)
      PROVE  ForwardInv'
    <2>1. consumed = FALSE /\ consumed' = TRUE /\ UNCHANGED forwards
        BY <1>5, Zenon DEF Deliver, BridgeTypeOK
    <2>2. Sending = {} /\ forwards = 0
        BY <2>1 DEF ForwardInv
    <2>3. Sending' \subseteq Sending \cup {t}
        BY <1>5 DEF Deliver, With, Sending
    <2> QED BY <2>1, <2>2, <2>3 DEF ForwardInv
<1>6. ASSUME NEW t \in Callbacks, Forward(t) PROVE ForwardInv'
    <2>1. t \in Sending
        BY <1>6 DEF Forward, At, Sending
    <2>2. forwards = 0 /\ \A u \in Sending : u = t
        BY <2>1 DEF ForwardInv
    <2>3. Sending' = {}
        BY <1>6, <2>2 DEF Forward, At, BridgeTypeOK, Thread, Sending
    <2>4. forwards' = 1 /\ consumed' = consumed /\ ~ (consumed = FALSE)
        BY <1>6, <2>1, <2>2 DEF Forward, ForwardInv
    <2> QED BY <2>3, <2>4 DEF ForwardInv
<1>7. ASSUME NEW t \in Callbacks, StartBind(t) \/ ForwardFails(t) \/ Reply(t) \/ ReplyLost(t)
      PROVE  ForwardInv'
    BY <1>1, <1>7 DEF StartBind, ForwardFails, Reply, ReplyLost, Without, Sending
<1>8. CASE Shutdown
    BY <1>1, <1>8 DEF Shutdown, Sending
<1>9. CASE Restart
    BY <1>9 DEF Restart, Sending, ForwardInv
<1> QED BY <1>2, <1>3, <1>4, <1>5, <1>6, <1>7, <1>8, <1>9 DEF FlowNext

\* One helper process forwards one credential: server.consumed is set under
\* transaction_lock, before the request is sent.
THEOREM ForwardsOnce == FlowSpec => []ForwardedOnce
<1>1. FlowInit => ForwardInv
    BY DEF FlowInit, ForwardInv, Sending
<1>2. ForwardInv => ForwardedOnce
    BY DEF ForwardInv, ForwardedOnce
<1> QED BY <1>1, <1>2, ForwardStep, BridgeTypes, PTL DEF FlowSpec

\* What SavedMeansStored rests on: a thread that was answered 2xx is about a login with a
\* verified key, and one that waits has its own callback at work in the plugin.
Verified(l) == \E key \in Keys : <<l, key>> \in proved
AnswerInv ==
    /\ \A l \in Logins : "saved" \in told[l] => Verified(l)
    /\ \A t \in DOMAIN threads :
          /\ threads[t].pc = "accepted" => Verified(threads[t].login)
          /\ threads[t].pc = "await" =>
                t \in DOMAIN callbacks /\ callbacks[t].login = threads[t].login

\* Every step keeps the helper's waiting threads with their callbacks, and shows "saved"
\* for a verified key.
LEMMA AnswerStep ==
    TypeOK /\ BridgeTypeOK /\ StoresProved /\ AnswerInv /\ [FlowNext]_flowVars => AnswerInv'
<1> SUFFICES ASSUME TypeOK, BridgeTypeOK, StoresProved, AnswerInv, [FlowNext]_flowVars
             PROVE  AnswerInv'
    OBVIOUS
<1>0. \A l : Verified(l) => Verified(l)'
    BY FlowIsLogin, LoginGrows DEF Verified
<1>1. ASSUME UNCHANGED callbacks, UNCHANGED told,
             \A t \in DOMAIN threads' :
                \/ t \in DOMAIN threads /\ threads'[t] = threads[t]
                \/ threads'[t].pc \notin {"await", "accepted"}
      PROVE  AnswerInv'
    BY <1>0, <1>1 DEF AnswerInv
<1>2. CASE HostStep \/ UNCHANGED flowVars
    <2>1. UNCHANGED <<threads, told>>
        BY <1>2 DEF HostStep, flowVars, bridgeVars
    <2>2. UNCHANGED callbacks
        BY <1>2 DEF HostStep, Tick, StartCall, StartInsert, PollStep, PollSuccess, PollExpired,
                    PollPending, PollCall, flowVars, vars
    <2> QED BY <1>1, <2>1, <2>2
<1>3. ASSUME NEW c \in Callbacks, PluginCallback(c) PROVE AnswerInv'
    <2>1. /\ c \in DOMAIN callbacks /\ UNCHANGED told
          /\ \A d \in DOMAIN callbacks : d # c => d \in DOMAIN callbacks' /\ callbacks'[d] = callbacks[d]
          /\ c \in DOMAIN callbacks' => callbacks'[c].login = callbacks[c].login
        <3>1. c \in DOMAIN callbacks /\ UNCHANGED told
            BY <1>3 DEF PluginCallback, CallbackStep, CallbackReject, CallbackSpend,
               CallbackAdmit, VerifyFails, VerifySucceeds, CallbackStore, AtMatch, AtVerify
        <3>2. CASE CallbackReject(c) \/ CallbackSpend(c) \/ VerifyFails(c) \/ CallbackStore(c)
            BY <3>1, <3>2 DEF CallbackReject, CallbackSpend, VerifyFails, CallbackStore, Without
        <3>3. CASE CallbackAdmit(c)
            BY <3>1, <3>3 DEF CallbackAdmit
        <3>4. CASE VerifySucceeds(c)
            BY <3>1, <3>4 DEF VerifySucceeds, TypeOK, Delivery, Attempt
        <3> QED BY <1>3, <3>1, <3>2, <3>3, <3>4 DEF PluginCallback, CallbackStep
    <2>2. CASE c \notin DOMAIN callbacks' /\ At(c, "await")
        <3>1. /\ c \in DOMAIN threads /\ threads[c].pc = "await"
              /\ callbacks[c].login = threads[c].login
            BY <2>2 DEF At, AnswerInv
        <3> DEFINE pc == IF callbacks[c].pc = "store" THEN "accepted" ELSE "refused"
        <3>2. threads' = [threads EXCEPT ![c].pc = pc]
            BY <1>3, <2>2 DEF PluginCallback
        <3>3. callbacks[c].pc = "store" => Verified(threads[c].login)
            <4>1. callbacks[c].pc = "store" => callbacks[c].key \in Keys
                BY <2>1 DEF TypeOK, Delivery, Attempt
            <4> QED BY <2>1, <3>1, <4>1 DEF StoresProved, Verified
        <3>4. /\ DOMAIN threads' = DOMAIN threads
              /\ \A t \in DOMAIN threads : t # c => threads'[t] = threads[t]
              /\ threads'[c].pc = pc /\ threads'[c].login = threads[c].login
            BY <3>1, <3>2 DEF BridgeTypeOK, Thread
        <3>5. pc # "await" /\ (pc = "accepted" => callbacks[c].pc = "store")
            OBVIOUS
        <3> HIDE DEF pc
        <3> QED BY <1>0, <2>1, <3>1, <3>3, <3>4, <3>5 DEF AnswerInv
    <2>3. CASE ~ (c \notin DOMAIN callbacks' /\ At(c, "await"))
        <3>1. threads' = threads
            BY <1>3, <2>3 DEF PluginCallback
        <3> QED BY <1>0, <2>1, <2>3, <3>1 DEF AnswerInv, At
    <2> QED BY <2>2, <2>3
<1>4. ASSUME NEW t \in Callbacks, NEW l \in Logins,
             StartRequest(t, l) \/ \E key \in Keys : Deliver(t, l, key)
      PROVE  AnswerInv'
    BY <1>1, <1>4 DEF StartRequest, Deliver, With, vars
<1>5. ASSUME NEW t \in Callbacks, Forward(t) PROVE AnswerInv'
    <2>1. /\ t \in DOMAIN threads /\ threads[t].pc = "send" /\ UNCHANGED told
          /\ t \notin DOMAIN callbacks
          /\ callbacks' = With(callbacks, t, [pc |-> "match", login |-> threads[t].login,
                                 proof |-> TRUE, key |-> threads[t].key, at |-> now])
          /\ threads' = [threads EXCEPT ![t].pc = "await"]
        BY <1>5 DEF Forward, At, CallbackCall
    <2>2. /\ DOMAIN threads' = DOMAIN threads
          /\ \A u \in DOMAIN threads : u # t => threads'[u] = threads[u]
          /\ threads'[t].pc = "await" /\ threads'[t].login = threads[t].login
        BY <2>1 DEF BridgeTypeOK, Thread
    <2>3. /\ DOMAIN callbacks' = DOMAIN callbacks \cup {t}
          /\ \A d \in DOMAIN callbacks : callbacks'[d] = callbacks[d]
          /\ callbacks'[t].login = threads[t].login
        BY <2>1 DEF With
    <2> QED BY <1>0, <2>1, <2>2, <2>3 DEF AnswerInv
<1>6. ASSUME NEW t \in Callbacks, StartBind(t) \/ ReplyLost(t) PROVE AnswerInv'
    BY <1>1, <1>6 DEF StartBind, ReplyLost, Without, vars
<1>7. ASSUME NEW t \in Callbacks, ForwardFails(t) \/ Reply(t) PROVE AnswerInv'
    <2>1. /\ t \in DOMAIN threads /\ threads[t].login \in Logins /\ UNCHANGED callbacks
          /\ \A u \in DOMAIN threads' : u \in DOMAIN threads /\ threads'[u] = threads[u]
        BY <1>7 DEF ForwardFails, Reply, At, Without, BridgeTypeOK, Thread, vars
    <2>2. \A l \in Logins : "saved" \in told'[l] =>
             \/ "saved" \in told[l]
             \/ l = threads[t].login /\ threads[t].pc = "accepted"
        BY <1>7, <2>1 DEF ForwardFails, Reply, BridgeTypeOK
    <2> QED BY <1>0, <2>1, <2>2 DEF AnswerInv
<1>8. CASE Shutdown \/ Restart
    BY <1>1, <1>8 DEF Shutdown, Restart, vars
<1> QED BY <1>2, <1>3, <1>4, <1>5, <1>6, <1>7, <1>8 DEF FlowNext

\* "Authorization saved" is shown for a login only if the plugin has verified a key for
\* it, whatever timed out, was lost or was started again.
THEOREM SavedIsStored == FlowSpec => []SavedMeansStored
<1>1. FlowInit => CredentialsProved /\ StoresProved /\ AnswerInv
    BY DEF FlowInit, Init, CredentialsProved, StoresProved, AnswerInv
<1>2. TypeOK /\ BridgeTypeOK /\ CredentialsProved /\ StoresProved /\ AnswerInv
         /\ [FlowNext]_flowVars => CredentialsProved' /\ StoresProved' /\ AnswerInv'
    BY FlowIsLogin, ProvedStep, AnswerStep
<1>3. AnswerInv => SavedMeansStored
    BY DEF AnswerInv, Verified, SavedMeansStored
<1> QED BY <1>1, <1>2, <1>3, FlowTyped, PTL DEF FlowSpec

\* The helper is one of the callers that LoginSessions allows for: whatever the plugin
\* promises to all of them it keeps behind the helper too.
THEOREM HelperIsACaller == FlowSpec => Spec
<1>1. FlowInit => Init
    BY DEF FlowInit
<1> QED BY <1>1, FlowIsLogin, BridgeTypes, PTL DEF FlowSpec, Spec

\* So the plugin behind the helper hands a login over at most once, in time, and
\* implements LoginPromise.
THEOREM PromiseBehindHelper ==
    FlowSpec => []ClaimedAtMostOnce /\ ClaimsAreTimely /\ KeepsPromise
BY HelperIsACaller, ClaimedOnce, TimelyClaims, Refinement, PTL
=============================================================================

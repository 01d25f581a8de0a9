--------------------------- MODULE LoginSessions ---------------------------
(***************************************************************************)
(* The plugin's table of login sessions (src/impl.go: loginMu and          *)
(* loginSessions) and the three calls that share it: the host starts a     *)
(* login and polls it, and the public callback route receives a delivery   *)
(* for it, verifies the delivered key upstream with the mutex released,    *)
(* and puts the session back with the credential in it.                    *)
(*                                                                         *)
(* A step is one critical section of loginMu, or the code between two of   *)
(* them.  Every call reads the clock before it takes the mutex, so the     *)
(* reading it works with may be old.  A login stands for the two random    *)
(* values of one start (state and bridge token): a delivery names a login  *)
(* and either carries that login's token or does not.  The duration of     *)
(* five minutes is TTL; the clock stops at the bound MaxTime.              *)
(***************************************************************************)
EXTENDS Integers

CONSTANTS
    Logins,     \* the logins randomState can still make: one is used per start
    Keys,       \* API keys long enough to be verified
    NoKey,      \* no credential; in a delivery, a missing or too short key
    Pollers,    \* concurrent auth.login.poll calls
    Callbacks,  \* concurrent callback requests
    TTL,        \* how long a session lives
    MaxTime     \* bound on the clock

ASSUME KeyAssumption  == NoKey \notin Keys
ASSUME TimeAssumption == TTL \in Nat /\ MaxTime \in Nat

VARIABLES
    now,        \* the wall clock
    issued,     \* login |-> the clock its start call read (ExpiresAt is TTL later)
    starting,   \* logins whose start call has not taken the mutex yet
    sessions,   \* loginSessions: login |-> [createdAt, credential]
    polls,      \* poll calls before their critical section: [login, at]
    callbacks,  \* callback requests in progress
    claims,     \* history: poll answers "success" given for a login
    proved      \* history: <<login, key>> accepted upstream for a delivery with proof

vars == <<now, issued, starting, sessions, polls, callbacks, claims, proved>>

Time == 0 .. MaxTime
Credential == Keys \cup {NoKey}
Session == [createdAt : Time, credential : Credential]
Poll == [login : Logins, at : Time]
Delivery == [pc : {"match"}, login : Logins, proof : BOOLEAN, key : Credential, at : Time]
Attempt == [pc : {"verify", "store"}, login : Logins, key : Keys, createdAt : Time]

With(m, i, v) == [j \in DOMAIN m \cup {i} |-> IF j = i THEN v ELSE m[j]]
Without(m, S) == [j \in DOMAIN m \ S |-> m[j]]

\* now.Sub(session.CreatedAt) > 5*time.Minute
Expired(session, at) == at - session.createdAt > TTL

\* Callback requests that took a session out of the table and still hold it.
Attempts(l) == {c \in DOMAIN callbacks : callbacks[c].pc # "match" /\ callbacks[c].login = l}
-----------------------------------------------------------------------------
Init ==
    /\ now = 0
    /\ issued = [l \in {} |-> 0]
    /\ starting = {}
    /\ sessions = [l \in {} |-> [createdAt |-> 0, credential |-> NoKey]]
    /\ polls = [p \in {} |-> 0]
    /\ callbacks = [c \in {} |-> 0]
    /\ claims = [l \in Logins |-> 0]
    /\ proved = {}

Tick ==
    /\ now < MaxTime
    /\ now' = now + 1
    /\ UNCHANGED <<issued, starting, sessions, polls, callbacks, claims, proved>>

\* startCommandCodeLogin up to its mutex: two fresh random values, the clock.
StartCall(l) ==
    /\ l \notin DOMAIN issued
    /\ issued' = With(issued, l, now)
    /\ starting' = starting \cup {l}
    /\ UNCHANGED <<now, sessions, polls, callbacks, claims, proved>>

\* Its critical section: sweep the expired sessions, add the new one.
StartInsert(l) ==
    /\ l \in starting
    /\ starting' = starting \ {l}
    /\ LET swept == {k \in DOMAIN sessions : Expired(sessions[k], issued[l])}
       IN sessions' = With(Without(sessions, swept), l,
                           [createdAt |-> issued[l], credential |-> NoKey])
    /\ UNCHANGED <<now, issued, polls, callbacks, claims, proved>>

PollCall(p, l) ==
    /\ p \notin DOMAIN polls
    /\ polls' = With(polls, p, [login |-> l, at |-> now])
    /\ UNCHANGED <<now, issued, starting, sessions, callbacks, claims, proved>>

PollFinds(p) ==
    /\ p \in DOMAIN polls
    /\ polls[p].login \in DOMAIN sessions

\* Mutant: the deletion of a session that was handed over is forgotten.
PollSuccessKeeps(p) ==
    /\ PollFinds(p)
    /\ LET l == polls[p].login IN
       /\ ~Expired(sessions[l], polls[p].at)
       /\ sessions[l].credential # NoKey
       /\ claims' = [claims EXCEPT ![l] = IF @ < 2 THEN @ + 1 ELSE @]
    /\ polls' = Without(polls, {p})
    /\ UNCHANGED <<now, issued, starting, sessions, callbacks, proved>>

\* Mutant: the age of the session is not looked at.
PollSuccessLate(p) ==
    /\ PollFinds(p)
    /\ LET l == polls[p].login IN
       /\ sessions[l].credential # NoKey
       /\ sessions' = Without(sessions, {l})
       /\ claims' = [claims EXCEPT ![l] = @ + 1]
    /\ polls' = Without(polls, {p})
    /\ UNCHANGED <<now, issued, starting, callbacks, proved>>

\* The session holds a credential: hand it over and forget the session.
PollSuccess(p) ==
    /\ PollFinds(p)
    /\ LET l == polls[p].login IN
       /\ ~Expired(sessions[l], polls[p].at)
       /\ sessions[l].credential # NoKey
       /\ sessions' = Without(sessions, {l})
       /\ claims' = [claims EXCEPT ![l] = @ + 1]
    /\ polls' = Without(polls, {p})
    /\ UNCHANGED <<now, issued, starting, callbacks, proved>>

\* The session is too old: delete it and answer "pending".
PollExpired(p) ==
    /\ PollFinds(p)
    /\ Expired(sessions[polls[p].login], polls[p].at)
    /\ sessions' = Without(sessions, {polls[p].login})
    /\ polls' = Without(polls, {p})
    /\ UNCHANGED <<now, issued, starting, callbacks, claims, proved>>

\* No session, or one without a credential: answer "pending".
PollPending(p) ==
    /\ p \in DOMAIN polls
    /\ PollFinds(p) => /\ ~Expired(sessions[polls[p].login], polls[p].at)
                       /\ sessions[polls[p].login].credential = NoKey
    /\ polls' = Without(polls, {p})
    /\ UNCHANGED <<now, issued, starting, sessions, callbacks, claims, proved>>

\* handleCommandCodeCallback up to its mutex.  A bridge token cannot be guessed:
\* only a login that exists can be named with proof.
CallbackCall(c, l, proof, key) ==
    /\ c \notin DOMAIN callbacks
    /\ proof => l \in DOMAIN issued
    /\ callbacks' = With(callbacks, c, [pc |-> "match", login |-> l, proof |-> proof,
                                        key |-> key, at |-> now])
    /\ UNCHANGED <<now, issued, starting, sessions, polls, claims, proved>>

AtMatch(c) == c \in DOMAIN callbacks /\ callbacks[c].pc = "match"

\* The delivery names a live session and carries its bridge token.
Matched(c) == callbacks[c].login \in DOMAIN sessions /\ callbacks[c].proof

\* Mutant: the session is taken out before the bridge token is compared.
CallbackRejectConsumes(c) ==
    /\ AtMatch(c)
    /\ ~Matched(c)
    /\ sessions' = Without(sessions, {callbacks[c].login})
    /\ callbacks' = Without(callbacks, {c})
    /\ UNCHANGED <<now, issued, starting, polls, claims, proved>>

\* Not matched: the table stays as it is, 400.
CallbackReject(c) ==
    /\ AtMatch(c)
    /\ ~Matched(c)
    /\ callbacks' = Without(callbacks, {c})
    /\ UNCHANGED <<now, issued, starting, sessions, polls, claims, proved>>

\* Matched, but too old or without a usable key: the session is gone, 400.
CallbackSpend(c) ==
    /\ AtMatch(c)
    /\ Matched(c)
    /\ LET d == callbacks[c] IN
       /\ Expired(sessions[d.login], d.at) \/ d.key = NoKey
       /\ sessions' = Without(sessions, {d.login})
    /\ callbacks' = Without(callbacks, {c})
    /\ UNCHANGED <<now, issued, starting, polls, claims, proved>>

\* Mutant: a missing key is sent on to be verified.
CallbackAdmitAnyKey(c) ==
    /\ AtMatch(c)
    /\ Matched(c)
    /\ LET d == callbacks[c] IN
       /\ ~Expired(sessions[d.login], d.at)
       /\ sessions' = Without(sessions, {d.login})
       /\ callbacks' = [callbacks EXCEPT ![c] =
                          [pc |-> "verify", login |-> d.login, key |-> d.key,
                           createdAt |-> sessions[d.login].createdAt]]
    /\ UNCHANGED <<now, issued, starting, polls, claims, proved>>

\* Mutant: the session stays in the table while the key is verified.
CallbackAdmitKeeps(c) ==
    /\ AtMatch(c)
    /\ Matched(c)
    /\ LET d == callbacks[c] IN
       /\ ~Expired(sessions[d.login], d.at)
       /\ d.key # NoKey
       /\ callbacks' = [callbacks EXCEPT ![c] =
                          [pc |-> "verify", login |-> d.login, key |-> d.key,
                           createdAt |-> sessions[d.login].createdAt]]
    /\ UNCHANGED <<now, issued, starting, sessions, polls, claims, proved>>

\* Matched and usable: the session leaves the table while the key is verified.
CallbackAdmit(c) ==
    /\ AtMatch(c)
    /\ Matched(c)
    /\ LET d == callbacks[c] IN
       /\ ~Expired(sessions[d.login], d.at)
       /\ d.key # NoKey
       /\ sessions' = Without(sessions, {d.login})
       /\ callbacks' = [callbacks EXCEPT ![c] =
                          [pc |-> "verify", login |-> d.login, key |-> d.key,
                           createdAt |-> sessions[d.login].createdAt]]
    /\ UNCHANGED <<now, issued, starting, polls, claims, proved>>

AtVerify(c) == c \in DOMAIN callbacks /\ callbacks[c].pc = "verify"

\* Mutant: the error of fetchWhoAmI is not looked at.
VerifyFailsIgnored(c) ==
    /\ AtVerify(c)
    /\ callbacks' = [callbacks EXCEPT ![c].pc = "store"]
    /\ UNCHANGED <<now, issued, starting, sessions, polls, claims, proved>>

\* fetchWhoAmI fails or times out: 401, nothing is put back.
VerifyFails(c) ==
    /\ AtVerify(c)
    /\ callbacks' = Without(callbacks, {c})
    /\ UNCHANGED <<now, issued, starting, sessions, polls, claims, proved>>

VerifySucceeds(c) ==
    /\ AtVerify(c)
    /\ callbacks' = [callbacks EXCEPT ![c].pc = "store"]
    /\ proved' = proved \cup {<<callbacks[c].login, callbacks[c].key>>}
    /\ UNCHANGED <<now, issued, starting, sessions, polls, claims>>

\* The second critical section: the session returns with its first creation time.
CallbackStore(c) ==
    /\ c \in DOMAIN callbacks
    /\ callbacks[c].pc = "store"
    /\ LET a == callbacks[c]
       IN sessions' = With(sessions, a.login,
                           [createdAt |-> a.createdAt, credential |-> a.key])
    /\ callbacks' = Without(callbacks, {c})
    /\ UNCHANGED <<now, issued, starting, polls, claims, proved>>

PollStep(p) == PollSuccess(p) \/ PollExpired(p) \/ PollPending(p)
CallbackStep(c) ==
    \/ CallbackReject(c) \/ CallbackSpend(c) \/ CallbackAdmit(c)
    \/ VerifyFails(c) \/ VerifySucceeds(c) \/ CallbackStore(c)

Next ==
    \/ Tick
    \/ \E l \in Logins : StartCall(l) \/ StartInsert(l)
    \/ \E p \in Pollers : PollStep(p) \/ \E l \in Logins : PollCall(p, l)
    \/ \E c \in Callbacks :
          \/ CallbackStep(c)
          \/ \E l \in Logins, proof \in BOOLEAN, key \in Credential :
                CallbackCall(c, l, proof, key)

Spec == Init /\ [][Next]_vars

\* Every call that entered the plugin runs on to its end (fetchWhoAmI included: the
\* HTTP client gives up after ten minutes), and the host keeps polling a login until
\* the expiry time it was told.
HostPolls(l) ==
    /\ l \in DOMAIN issued
    /\ now <= issued[l] + TTL
    /\ \E p \in Pollers : PollCall(p, l)

Fairness ==
    /\ \A l \in Logins : WF_vars(StartInsert(l)) /\ SF_vars(HostPolls(l))
    /\ \A p \in Pollers : WF_vars(PollStep(p))
    /\ \A c \in Callbacks : WF_vars(CallbackStep(c))

FairSpec == Spec /\ Fairness
-----------------------------------------------------------------------------
\* The variables keep their types, and only logins that were issued are in use.
TypeOK ==
    /\ now \in Time
    /\ DOMAIN issued \subseteq Logins /\ issued \in [DOMAIN issued -> Time]
    /\ starting \subseteq DOMAIN issued
    /\ DOMAIN sessions \subseteq Logins /\ sessions \in [DOMAIN sessions -> Session]
    /\ DOMAIN polls \subseteq Pollers /\ polls \in [DOMAIN polls -> Poll]
    /\ DOMAIN callbacks \subseteq Callbacks
    /\ callbacks \in [DOMAIN callbacks -> Delivery \cup Attempt]
    /\ claims \in [Logins -> Nat]
    /\ proved \subseteq Logins \X Keys

\* A login is held in one place only: by its start call, by the table, by one callback
\* that is verifying its key, or, once handed over, by nobody.
HeldOnce ==
    \A l \in Logins :
        /\ l \in starting => l \notin DOMAIN sessions /\ Attempts(l) = {} /\ claims[l] = 0
        /\ l \in DOMAIN sessions => l \in DOMAIN issued /\ Attempts(l) = {} /\ claims[l] = 0
        /\ \A c, d \in Attempts(l) : c = d
        /\ Attempts(l) # {} => l \in DOMAIN issued /\ claims[l] = 0
        /\ l \notin DOMAIN issued => claims[l] = 0

\* However polls, deliveries and re-deliveries interleave, a login hands over a
\* credential at most once.
ClaimedAtMostOnce == \A l \in Logins : claims[l] <= 1

\* A credential waiting in the table was accepted upstream for a delivery that proved
\* the very login it waits under, whatever other deliveries ran meanwhile.
CredentialsProved ==
    \A l \in DOMAIN sessions :
        sessions[l].credential # NoKey => <<l, sessions[l].credential>> \in proved

\* Taking a session out and putting it back does not prolong it: every holder keeps the
\* creation time of the start call.
LifetimeKept ==
    /\ \A l \in DOMAIN sessions : sessions[l].createdAt = issued[l]
    /\ \A l \in Logins : \A c \in Attempts(l) : callbacks[c].createdAt = issued[l]

\* A credential is handed over only to a poll that was made before the expiry time the
\* host was told, and only a proved one.
ClaimsAreTimely ==
    [][\A l \in Logins : claims'[l] # claims[l] =>
          /\ l \in DOMAIN issued
          /\ \E p \in DOMAIN polls : /\ p \notin DOMAIN polls'
                                     /\ polls[p].login = l
                                     /\ polls[p].at <= issued[l] + TTL
          /\ \E key \in Keys : <<l, key>> \in proved]_vars

\* A live session is only taken by a delivery that proves it: other traffic on the
\* public route, and polls that come too early, cost the user nothing.
OnlyProofOrAgeEndsASession ==
    [][\A l \in DOMAIN sessions : l \notin DOMAIN sessions' =>
          \/ now > issued[l] + TTL
          \/ claims'[l] = claims[l] + 1
          \/ \E c \in DOMAIN callbacks : AtMatch(c) /\ callbacks[c].login = l /\ callbacks[c].proof
      ]_vars

\* A stored credential does not stay behind: the host gets it, a later delivery takes
\* the session, or the login reaches its expiry time.
StoredIsCollected ==
    \A l \in Logins :
        (l \in DOMAIN sessions /\ sessions[l].credential # NoKey)
            ~> (l \notin DOMAIN sessions \/ now > issued[l] + TTL)

\* Where LoginPromise sees a login: open while anyone holds it.
Held(l) == l \in starting \/ l \in DOMAIN sessions \/ Attempts(l) # {}
Offered(l) == IF l \in DOMAIN sessions THEN sessions[l].credential ELSE NoKey

Promise == INSTANCE LoginPromise WITH
    known <- DOMAIN issued,
    open <- {l \in Logins : Held(l)},
    credential <- [l \in Logins |-> Offered(l)]

\* The table with its mutex and its verifications implements LoginPromise: a login is
\* never handed over twice, and a lost one never comes back.
KeepsPromise == Promise!PromiseSpec
=============================================================================

---------------------------- MODULE LoginBridge ----------------------------
(***************************************************************************)
(* The loopback helper (src/scripts/commandcode_loopback_bridge.py) in     *)
(* front of LoginSessions.  The helper serves every browser request in a   *)
(* thread of its own: /start binds the helper to one login and sends the   *)
(* browser to the official site, /callback takes the key that comes back   *)
(* and forwards it, with the login's token, to the plugin's callback       *)
(* route.  Here that helper is the only caller of the route.               *)
(*                                                                         *)
(* A thread that forwards uses the callback request of its own name.  The  *)
(* helper waits 20 s for the answer, the plugin verifies for up to ten     *)
(* minutes: the wait may end at any time before the answer comes.          *)
(***************************************************************************)
EXTENDS LoginSessions

CONSTANT NoLogin

ASSUME LoginAssumption == NoLogin \notin Logins

VARIABLES
    running,    \* the helper process accepts requests
    bound,      \* server.bound: the login it was started for, or NoLogin
    consumed,   \* server.consumed
    stopping,   \* the thread that calls server.shutdown exists
    threads,    \* browser requests in progress: [pc, login, key]
    redirected, \* logins whose browser was sent to the official site
    told,       \* history: what the browser was shown for a login
    forwards    \* history: callbacks this helper process forwarded

bridgeVars == <<running, bound, consumed, stopping, threads, redirected, told, forwards>>
flowVars == <<vars, bridgeVars>>

Outcome == {"saved", "rejected", "failed"}
Thread == [pc : {"bind", "send", "await", "accepted", "refused"},
           login : Logins, key : Credential]

FlowInit ==
    /\ Init
    /\ running = TRUE
    /\ bound = NoLogin
    /\ consumed = FALSE
    /\ stopping = FALSE
    /\ threads = [t \in {} |-> 0]
    /\ redirected = {}
    /\ told = [l \in Logins |-> {}]
    /\ forwards = 0

At(t, pc) == t \in DOMAIN threads /\ threads[t].pc = pc
Free(t) == running /\ t \notin DOMAIN threads
-----------------------------------------------------------------------------
\* Mutant: a link that is no login of the plugin starts the helper.
StartRequestUnknown(t, l) ==
    /\ Free(t)
    /\ bound = NoLogin
    /\ threads' = With(threads, t, [pc |-> "bind", login |-> l, key |-> NoKey])
    /\ UNCHANGED <<vars, running, bound, consumed, stopping, redirected, told, forwards>>

\* GET /start with the link of a login: refused once server.bound is set ...
StartRequest(t, l) ==
    /\ Free(t)
    /\ l \in DOMAIN issued \ starting
    /\ bound = NoLogin
    /\ threads' = With(threads, t, [pc |-> "bind", login |-> l, key |-> NoKey])
    /\ UNCHANGED <<vars, running, bound, consumed, stopping, redirected, told, forwards>>

\* ... which happens later and outside transaction_lock.
StartBind(t) ==
    /\ At(t, "bind")
    /\ bound' = threads[t].login
    /\ redirected' = redirected \cup {threads[t].login}
    /\ threads' = Without(threads, {t})
    /\ UNCHANGED <<vars, running, consumed, stopping, told, forwards>>

\* Mutant: server.consumed is not looked at.
DeliverAgain(t, l, key) ==
    /\ Free(t)
    /\ l \in redirected
    /\ bound # NoLogin
    /\ l = bound
    /\ consumed' = TRUE
    /\ threads' = With(threads, t, [pc |-> "send", login |-> l, key |-> key])
    /\ UNCHANGED <<vars, running, bound, stopping, redirected, told, forwards>>

\* The locked part of deliver: bound, not consumed, the state of the bound login.  Its
\* token is read with the state.  Every other delivery gets 409 or 403.
Deliver(t, l, key) ==
    /\ Free(t)
    /\ l \in redirected
    /\ bound # NoLogin
    /\ ~consumed
    /\ l = bound
    /\ consumed' = TRUE
    /\ threads' = With(threads, t, [pc |-> "send", login |-> l, key |-> key])
    /\ UNCHANGED <<vars, running, bound, stopping, redirected, told, forwards>>

\* forward_callback: the request reaches the plugin.
Forward(t) ==
    /\ At(t, "send")
    /\ CallbackCall(t, threads[t].login, TRUE, threads[t].key)
    /\ threads' = [threads EXCEPT ![t].pc = "await"]
    /\ forwards' = forwards + 1
    /\ UNCHANGED <<running, bound, consumed, stopping, redirected, told>>

\* Mutant: every answer counts as success.
PluginCallbackAccepted(c) ==
    /\ CallbackStep(c)
    /\ threads' = IF c \notin DOMAIN callbacks' /\ At(c, "await")
                  THEN [threads EXCEPT ![c].pc = "accepted"]
                  ELSE threads
    /\ UNCHANGED <<running, bound, consumed, stopping, redirected, told, forwards>>

\* The plugin works on a callback; when it ends, a thread that still waits gets a 2xx
\* answer exactly if the credential was stored.
PluginCallback(c) ==
    /\ CallbackStep(c)
    /\ threads' = IF c \notin DOMAIN callbacks' /\ At(c, "await")
                  THEN [threads EXCEPT ![c].pc =
                          IF callbacks[c].pc = "store" THEN "accepted" ELSE "refused"]
                  ELSE threads
    /\ UNCHANGED <<running, bound, consumed, stopping, redirected, told, forwards>>

\* Mutant: the connection has no timeout.
ForwardFailsAtOnce(t) ==
    /\ At(t, "send")
    /\ told' = [told EXCEPT ![threads[t].login] = @ \cup {"failed"}]
    /\ threads' = Without(threads, {t})
    /\ UNCHANGED <<vars, running, bound, consumed, stopping, redirected, forwards>>

\* Connection error or the 20 s timeout: forward_callback raises, do_GET or do_POST
\* answers 502 and the helper stays up, its login consumed.
ForwardFails(t) ==
    /\ At(t, "send") \/ At(t, "await")
    /\ told' = [told EXCEPT ![threads[t].login] = @ \cup {"failed"}]
    /\ threads' = Without(threads, {t})
    /\ UNCHANGED <<vars, running, bound, consumed, stopping, redirected, forwards>>

\* The plugin's answer is passed on to the browser; then the helper stops.
Reply(t) ==
    /\ At(t, "accepted") \/ At(t, "refused")
    /\ told' = [told EXCEPT ![threads[t].login] =
                  @ \cup {IF threads[t].pc = "accepted" THEN "saved" ELSE "rejected"}]
    /\ stopping' = TRUE
    /\ threads' = Without(threads, {t})
    /\ UNCHANGED <<vars, running, bound, consumed, redirected, forwards>>

\* The browser has gone: writing the answer raises, and so does the 502 that is tried
\* next.  The thread ends before it reaches server.shutdown.
ReplyLost(t) ==
    /\ At(t, "accepted") \/ At(t, "refused")
    /\ threads' = Without(threads, {t})
    /\ UNCHANGED <<vars, running, bound, consumed, stopping, redirected, told, forwards>>

\* server.shutdown returns and the process ends with its threads (daemon threads).
Shutdown ==
    /\ running
    /\ stopping
    /\ running' = FALSE
    /\ threads' = [t \in {} |-> 0]
    /\ UNCHANGED <<vars, bound, consumed, stopping, redirected, told, forwards>>

\* The user starts the helper again, after it ended or in the middle of its work.
Restart ==
    /\ running' = TRUE
    /\ bound' = NoLogin
    /\ consumed' = FALSE
    /\ stopping' = FALSE
    /\ threads' = [t \in {} |-> 0]
    /\ forwards' = 0
    /\ UNCHANGED <<vars, redirected, told>>

\* The host's calls and the clock, which do not touch the helper.
HostStep ==
    /\ \/ Tick
       \/ \E l \in Logins : StartCall(l) \/ StartInsert(l)
       \/ \E p \in Pollers : PollStep(p) \/ \E l \in Logins : PollCall(p, l)
    /\ UNCHANGED bridgeVars

FlowNext ==
    \/ HostStep
    \/ \E c \in Callbacks : PluginCallback(c)
    \/ \E t \in Callbacks :
          \/ \E l \in Logins : StartRequest(t, l)
          \/ \E l \in Logins, key \in Keys : Deliver(t, l, key)
          \/ StartBind(t) \/ Forward(t) \/ ForwardFails(t) \/ Reply(t) \/ ReplyLost(t)
    \/ Shutdown
    \/ Restart

FlowSpec == FlowInit /\ [][FlowNext]_flowVars

\* The helper's threads run and a request ends after 20 s at the latest; the plugin's
\* polls and the host behave as in LoginSessions.  Nobody is obliged to restart the helper.
FlowFairness ==
    /\ \A t \in Callbacks :
          /\ WF_flowVars(ForwardFails(t)) /\ WF_flowVars(Reply(t) \/ ReplyLost(t))
    /\ WF_flowVars(Shutdown)
    /\ \A l \in Logins : SF_flowVars(HostPolls(l) /\ UNCHANGED bridgeVars)
    /\ \A p \in Pollers : WF_flowVars(PollStep(p) /\ UNCHANGED bridgeVars)

FairFlowSpec == FlowSpec /\ FlowFairness
-----------------------------------------------------------------------------
\* The helper's variables keep their types.
BridgeTypeOK ==
    /\ running \in BOOLEAN /\ consumed \in BOOLEAN /\ stopping \in BOOLEAN
    /\ bound \in Logins \cup {NoLogin}
    /\ DOMAIN threads \subseteq Callbacks /\ threads \in [DOMAIN threads -> Thread]
    /\ redirected \subseteq DOMAIN issued
    /\ told \in [Logins -> SUBSET Outcome]
    /\ forwards \in Nat

\* "Authorization saved" is only shown when the plugin verified a key for that very
\* login, whatever timed out or was started again in between.
SavedMeansStored ==
    \A l \in Logins : "saved" \in told[l] => \E key \in Keys : <<l, key>> \in proved

\* One helper process forwards one credential, however many browser requests reach it
\* at once.
ForwardedOnce == forwards <= 1

\* A browser that handed over its key does not wait for ever, even if the plugin never
\* answers: its request ends, and so does its place among the helper's threads.
DeliveryIsAnswered == \A t \in Callbacks : At(t, "send") ~> t \notin DOMAIN threads
=============================================================================

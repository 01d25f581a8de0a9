----------------------------- MODULE ChatStream -----------------------------
(***************************************************************************)
(* Chat completions streamed by the plugin (src/impl.go                    *)
(* produceCommandCodeStream with the event loop of callUpstream, started   *)
(* by executor.execute_stream in src/main.go).  The handler validates the  *)
(* request, starts a goroutine and answers; the goroutine emits chunks     *)
(* through the host, one host call each, as upstream events arrive, and    *)
(* closes the stream.  Every host call can fail; the chunk of a failed     *)
(* call may have arrived all the same (the host's reply was unreadable).   *)
(*                                                                         *)
(* MaxEvents bounds the events of an upstream answer.                      *)
(***************************************************************************)
EXTENDS UpstreamEvents

CONSTANTS Streams, MaxEvents

ASSUME EventsAssumption == MaxEvents \in Nat

VARIABLES
    pc,         \* where the goroutine of a stream is
    wantsUsage, \* stream_options.include_usage
    result,     \* upstreamResult
    received,   \* chunks the host has received
    closed,     \* close calls that reached the host
    attempts    \* close calls made

vars == <<pc, wantsUsage, result, received, closed, attempts>>

Counters == [prompt : Nat, completion : Nat, total : Nat, cached : Nat, created : Nat]

Chunk == [kind : {"role", "text", "reasoning"}] \cup [kind : {"tool"}, index : Nat]
         \cup [kind : {"finish"}, reason : Reasons] \cup [kind : {"usage"}, usage : Counters]

Init ==
    /\ pc = [s \in Streams |-> "idle"]
    /\ wantsUsage = [s \in Streams |-> FALSE]
    /\ result = [s \in Streams |-> NoResult]
    /\ received = [s \in Streams |-> <<>>]
    /\ closed = [s \in Streams |-> <<>>]
    /\ attempts = [s \in Streams |-> 0]

\* executor.execute_stream with a stream ID and a valid request.
Accept(s) ==
    /\ pc[s] = "idle"
    /\ \E usage \in BOOLEAN : wantsUsage' = [wantsUsage EXCEPT ![s] = usage]
    /\ pc' = [pc EXCEPT ![s] = "role"]
    /\ UNCHANGED <<result, received, closed, attempts>>

\* Without a stream ID, an API key or messages: an error answer, no goroutine.
Refuse(s) ==
    /\ pc[s] = "idle"
    /\ pc' = [pc EXCEPT ![s] = "refused"]
    /\ UNCHANGED <<wantsUsage, result, received, closed, attempts>>

\* Mutant: the error of an emit is not looked at.
EmitUnchecked(s, chunk, next) ==
    /\ received' \in {received, [received EXCEPT ![s] = Append(@, chunk)]}
    /\ pc' = [pc EXCEPT ![s] = next]

\* One host.stream.emit: it succeeds and the goroutine goes on, or it fails and the
\* stream is closed with the error.
Emit(s, chunk, next) ==
    \/ /\ received' = [received EXCEPT ![s] = Append(@, chunk)]
       /\ pc' = [pc EXCEPT ![s] = next]
    \/ /\ received' \in {received, [received EXCEPT ![s] = Append(@, chunk)]}
       /\ pc' = [pc EXCEPT ![s] = "failed"]

Role(s) ==
    /\ pc[s] = "role"
    /\ Emit(s, [kind |-> "role"], "call")
    /\ UNCHANGED <<wantsUsage, result, closed, attempts>>

\* Messages converted, request sent, status 200.
CallUpstream(s) ==
    /\ pc[s] = "call"
    /\ pc' = [pc EXCEPT ![s] = "read"]
    /\ UNCHANGED <<wantsUsage, result, received, closed, attempts>>

\* An unusable message or tool, a request that fails or another status; or, while
\* reading, an error event, an unusable tool call, a read error or the client's timeout.
UpstreamFails(s) ==
    /\ pc[s] \in {"call", "read"}
    /\ pc' = [pc EXCEPT ![s] = "failed"]
    /\ UNCHANGED <<wantsUsage, result, received, closed, attempts>>

Count(r) == r.text + r.reasoning + r.tools

\* Mutant: the index counts from one.
DeltaChunkFromOne(event, r) ==
    CASE event.type = "text-delta"      -> [kind |-> "text"]
      [] event.type = "reasoning-delta" -> [kind |-> "reasoning"]
      [] event.type = "tool-call"       -> [kind |-> "tool", index |-> r.tools]

\* The chunk for an event that r, the result so far, includes.  A tool call's index is
\* its place among the calls so far.
DeltaChunk(event, r) ==
    CASE event.type = "text-delta"      -> [kind |-> "text"]
      [] event.type = "reasoning-delta" -> [kind |-> "reasoning"]
      [] event.type = "tool-call"       -> [kind |-> "tool", index |-> r.tools - 1]

\* A text, reasoning or tool-call event is recorded and passed on in one chunk.
ReadDelta(s, event) ==
    /\ pc[s] = "read"
    /\ event.type # "finish"
    /\ Count(result[s]) < MaxEvents
    /\ result' = [result EXCEPT ![s] = Absorb(@, event)]
    /\ Emit(s, DeltaChunk(event, result'[s]), "read")
    /\ UNCHANGED <<wantsUsage, closed, attempts>>

\* A finish event only sets the reason: the loop reads on.
ReadFinish(s, event) ==
    /\ pc[s] = "read"
    /\ event.type = "finish"
    /\ result' = [result EXCEPT ![s] = Absorb(@, event)]
    /\ UNCHANGED <<pc, wantsUsage, received, closed, attempts>>

\* [DONE], or the end of the answer whether or not a finish event came.
ReadEnd(s) ==
    /\ pc[s] = "read"
    /\ result' = [result EXCEPT ![s] = Returned(@)]
    /\ pc' = [pc EXCEPT ![s] = "finish"]
    /\ UNCHANGED <<wantsUsage, received, closed, attempts>>

FinishReason(r) == IF r.finish = "" THEN "stop" ELSE r.finish

\* Mutant: the request for usage is forgotten.
FinishOnly(s) ==
    /\ pc[s] = "finish"
    /\ Emit(s, [kind |-> "finish", reason |-> FinishReason(result[s])], "close")
    /\ UNCHANGED <<wantsUsage, result, closed, attempts>>

Finish(s) ==
    /\ pc[s] = "finish"
    /\ Emit(s, [kind |-> "finish", reason |-> FinishReason(result[s])],
            IF wantsUsage[s] THEN "usage" ELSE "close")
    /\ UNCHANGED <<wantsUsage, result, closed, attempts>>

\* buildUsageChunk, which is not given the text.
Usage(s) ==
    /\ pc[s] = "usage"
    /\ Emit(s, [kind |-> "usage", usage |-> usagePayload(result[s].usage, 0)], "close")
    /\ UNCHANGED <<wantsUsage, result, closed, attempts>>

\* Mutant: a failed stream is left open.
CloseSuccess(s) ==
    /\ pc[s] = "close"
    /\ closed' \in {closed, [closed EXCEPT ![s] = Append(@, "clean")]}
    /\ attempts' = [attempts EXCEPT ![s] = @ + 1]
    /\ pc' = [pc EXCEPT ![s] = "done"]
    /\ UNCHANGED <<wantsUsage, result, received>>

\* host.stream.close, without or with an error; a close that fails is only logged.
Close(s) ==
    /\ pc[s] \in {"close", "failed"}
    /\ LET outcome == IF pc[s] = "close" THEN "clean" ELSE "error"
       IN closed' \in {closed, [closed EXCEPT ![s] = Append(@, outcome)]}
    /\ attempts' = [attempts EXCEPT ![s] = @ + 1]
    /\ pc' = [pc EXCEPT ![s] = "done"]
    /\ UNCHANGED <<wantsUsage, result, received>>

Work(s) ==
    \/ Role(s) \/ CallUpstream(s) \/ UpstreamFails(s) \/ ReadEnd(s)
    \/ \E event \in Events : ReadDelta(s, event) \/ ReadFinish(s, event)
    \/ Finish(s) \/ Usage(s) \/ Close(s)

Next == \E s \in Streams : Accept(s) \/ Refuse(s) \/ Work(s)

Spec == Init /\ [][Next]_vars

\* The goroutine runs, and an upstream answer ends: the HTTP client's timeout of ten
\* minutes covers reading the body.  So does every host call (it returns, well or not).
Fairness ==
    \A s \in Streams :
        /\ WF_vars(Work(s))
        /\ WF_vars(ReadEnd(s) \/ UpstreamFails(s))

FairSpec == Spec /\ Fairness
-----------------------------------------------------------------------------
\* The variables keep their types.
TypeOK ==
    /\ pc \in [Streams -> {"idle", "refused", "role", "call", "read", "finish", "usage",
                           "close", "failed", "done"}]
    /\ wantsUsage \in [Streams -> BOOLEAN]
    /\ result \in [Streams -> Result]
    /\ \A s \in Streams : \A i \in DOMAIN received[s] : received[s][i] \in Chunk
    /\ \A s \in Streams : \A i \in DOMAIN closed[s] : closed[s][i] \in {"clean", "error"}
    /\ attempts \in [Streams -> Nat]

\* Where chunks of a kind stand.
Places(chunks, kind) == {i \in DOMAIN chunks : chunks[i].kind = kind}
LastReceived(s) == received[s][Len(received[s])]

\* A clean close means a complete answer: role first, one finish reason, and usage last
\* exactly if the client asked for it.  A failed emit is never papered over.
CleanMeansComplete ==
    \A s \in Streams : closed[s] = <<"clean">> =>
        /\ Places(received[s], "role") = {1}
        /\ Cardinality(Places(received[s], "finish")) = 1
        /\ LastReceived(s).kind = IF wantsUsage[s] THEN "usage" ELSE "finish"

\* A client of the stream learns what the same upstream answer gives without streaming
\* (buildChatCompletion): every delta, every call once under the indices 0, 1, 2, ... a
\* client reassembles calls by, the finish reason and the usage.  The one usage that may
\* differ is output the upstream did not count: only the completion estimates it.
StreamMatchesCompletion ==
    \A s \in Streams : closed[s] = <<"clean">> =>
        LET complete == Returned(result[s])
            whole    == usagePayload(complete.usage, complete.text)
            calls    == Places(received[s], "tool")
        IN /\ Cardinality(Places(received[s], "text")) = complete.text
           /\ Cardinality(Places(received[s], "reasoning")) = complete.reasoning
           /\ Cardinality(calls) = complete.tools
           /\ \A i \in calls : received[s][i].index = Cardinality({j \in calls : j < i})
           /\ \A i \in Places(received[s], "finish") :
                 received[s][i].reason = mapFinishReason(complete.finish)
           /\ wantsUsage[s] =>
                 LET told == LastReceived(s).usage IN
                 \/ told = whole
                 \/ /\ complete.text > 0 /\ told.completion = 0
                    /\ told.prompt = whole.prompt
                    /\ told.cached = whole.cached /\ told.created = whole.created

\* All counts an upstream usage object has under some of these keys.
CountsUnder(counts, keys) == {counts[key] : key \in DOMAIN counts \cap ToSet(keys)}

\* Cache hits the upstream counted under any of its spellings reach the client, whatever
\* zeros stand beside them (the comment on intFromAnyPositive, usage_cache_test.go), and
\* none are made up.
UsageReported ==
    \A s \in Streams : \A i \in DOMAIN received[s] : received[s][i].kind = "usage" =>
        LET usage == result[s].usage
            hits  == CountsUnder(usage.flat, FlatReadKeys)
                     \cup UNION {CountsUnder(usage.nested[container], NestedReadKeys)
                                    : container \in DOMAIN usage.nested}
            told  == received[s][i].usage.cached
        IN IF hits \subseteq {0} THEN told = 0 ELSE told \in hits \ {0}

\* Every accepted stream is closed, or its close at least attempted, and never twice.
AcceptedStreamsEnd == \A s \in Streams : pc[s] = "role" ~> [](attempts[s] = 1)

\* Where a host sees a stream.
Stage(s) ==
    IF pc[s] \in {"idle", "refused"} THEN "idle"
    ELSE IF Places(received[s], "usage") # {} THEN "usage"
    ELSE IF Places(received[s], "finish") # {} THEN "finished"
    ELSE IF Places(received[s], "role") # {} THEN "content" ELSE "accepted"

Contract == INSTANCE StreamContract WITH
    stage <- [s \in Streams |-> Stage(s)],
    outcome <- [s \in Streams |-> IF closed[s] = <<>> THEN "open" ELSE closed[s][1]]

\* The producer keeps the contract of StreamContract.
KeepsContract == Contract!ContractSpec
=============================================================================

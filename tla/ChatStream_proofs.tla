-------------------------- MODULE ChatStream_proofs --------------------------
(***************************************************************************)
(* For any number of chat streams, any upstream answer and every point at  *)
(* which the host or the upstream fails: the types, that a stream closed   *)
(* without an error told the host everything, in order, that it told what  *)
(* an answer without streaming would have, that reported cache hits arrive *)
(* and that the producer keeps the contract of StreamContract.  Streams    *)
(* share nothing, so the invariant speaks of one stream, and what a step   *)
(* does to its chunks is a lemma about values.                             *)
(***************************************************************************)
EXTENDS ChatStream, UpstreamEvents_proofs, SequenceTheorems, FiniteSetTheorems, TLAPS

\* The chunks received say as much as the result: the role, then every delta once, the
\* calls numbered from zero.
Tally(r, chunks) ==
    /\ Places(chunks, "role") = {1}
    /\ Cardinality(Places(chunks, "text")) = r.text
    /\ Cardinality(Places(chunks, "reasoning")) = r.reasoning
    /\ Cardinality(Places(chunks, "tool")) = r.tools
    /\ \A i \in Places(chunks, "tool") :
          chunks[i].index = Cardinality({j \in Places(chunks, "tool") : j < i})

\* The finish reason has been told, in the chunk at this place alone.
ReasonAt(r, chunks, place) ==
    /\ Places(chunks, "finish") = {place}
    /\ chunks[place].reason = FinishReason(r)

\* Everything has been told.
Complete(wants, r, chunks) ==
    /\ Tally(r, chunks)
    /\ Returned(r) = r
    /\ IF wants
       THEN ReasonAt(r, chunks, Len(chunks) - 1) /\ Places(chunks, "usage") = {Len(chunks)}
       ELSE ReasonAt(r, chunks, Len(chunks)) /\ Places(chunks, "usage") = {}

\* The usage told, if any, is that of the result.
UsageTold(r, chunks) ==
    \A i \in Places(chunks, "usage") : chunks[i].usage = usagePayload(r.usage, 0)

\* What the host has been told when the goroutine is at p, or stopped there.
Told(p, wants, r, chunks) ==
    /\ p \in {"idle", "refused", "role"} => chunks = <<>> /\ r = NoResult
    /\ p \in {"call", "read", "finish"} =>
          Tally(r, chunks) /\ Places(chunks, "finish") = {} /\ Places(chunks, "usage") = {}
    /\ p = "finish" => Returned(r) = r
    /\ p = "usage" => /\ wants /\ Tally(r, chunks) /\ Returned(r) = r
                      /\ ReasonAt(r, chunks, Len(chunks)) /\ Places(chunks, "usage") = {}
    /\ p = "close" => Complete(wants, r, chunks)
    /\ UsageTold(r, chunks)

PCs == {"idle", "refused", "role", "call", "read", "finish", "usage", "close", "failed",
        "done"}

\* TypeOK, with the sequences told apart from other functions.
Typed ==
    /\ pc \in [Streams -> PCs]
    /\ wantsUsage \in [Streams -> BOOLEAN]
    /\ result \in [Streams -> Result]
    /\ received \in [Streams -> Seq(Chunk)]
    /\ closed \in [Streams -> {<<>>, <<"clean">>, <<"error">>}]
    /\ attempts \in [Streams -> Nat]
    /\ \A s \in Streams : closed[s] # <<>> => pc[s] = "done"

\* What a stream has told, and that nothing is missing when it was closed without an error.
Sound(p, wants, r, chunks, c) ==
    /\ Told(p, wants, r, chunks)
    /\ c = <<"clean">> => Complete(wants, r, chunks)

Inv ==
    /\ Typed
    /\ \A s \in Streams :
          Sound(pc[s], wantsUsage[s], result[s], received[s], closed[s])

-----------------------------------------------------------------------------
\* A chunk added at the end is found there, and the others where they were.
LEMMA PlacesAppend ==
    ASSUME NEW chunks \in Seq(Chunk), NEW chunk \in Chunk, NEW kind
    PROVE  Places(Append(chunks, chunk), kind)
              = IF chunk.kind = kind THEN Places(chunks, kind) \cup {Len(chunks) + 1}
                                     ELSE Places(chunks, kind)
<1> DEFINE n == Len(chunks)
           more == Append(chunks, chunk)
<1>1. n \in Nat /\ DOMAIN chunks = 1 .. n
    OBVIOUS
<1>2. DOMAIN more = 1 .. n + 1
    OBVIOUS
<1>3. (\A i \in 1 .. n : more[i] = chunks[i]) /\ more[n + 1] = chunk
    OBVIOUS
<1> HIDE DEF n, more
<1>4. 1 .. n + 1 = (1 .. n) \cup {n + 1}
    BY <1>1
<1>5. Places(more, kind) = {i \in (1 .. n) \cup {n + 1} : more[i].kind = kind}
    BY <1>2, <1>4 DEF Places
<1>6. Places(chunks, kind) = {i \in 1 .. n : more[i].kind = kind}
    BY <1>1, <1>3 DEF Places
<1>7. Places(more, kind) = IF chunk.kind = kind THEN Places(chunks, kind) \cup {n + 1}
                                                ELSE Places(chunks, kind)
    BY <1>3, <1>5, <1>6
<1> QED BY <1>7 DEF n, more

\* Places are those of the sequence, and finitely many.
LEMMA PlacesIn ==
    ASSUME NEW chunks \in Seq(Chunk), NEW kind
    PROVE  /\ Places(chunks, kind) \subseteq 1 .. Len(chunks)
           /\ IsFiniteSet(Places(chunks, kind))
           /\ Cardinality(Places(chunks, kind)) \in Nat
           /\ Len(chunks) \in Nat /\ Len(chunks) + 1 \notin Places(chunks, kind)
<1>1. Len(chunks) \in Nat /\ DOMAIN chunks = 1 .. Len(chunks)
    OBVIOUS
<1>2. Places(chunks, kind) \subseteq 1 .. Len(chunks)
    BY <1>1 DEF Places
<1>3. IsFiniteSet(1 .. Len(chunks))
    BY <1>1, FS_Interval
<1>4. IsFiniteSet(Places(chunks, kind))
    BY <1>2, <1>3, FS_Subset
<1>5. Cardinality(Places(chunks, kind)) \in Nat
    BY <1>4, FS_CardinalityType
<1>6. Len(chunks) + 1 \notin 1 .. Len(chunks)
    BY <1>1
<1> QED BY <1>1, <1>2, <1>4, <1>5, <1>6

LEMMA PlacesCount ==
    ASSUME NEW chunks \in Seq(Chunk), NEW chunk \in Chunk, NEW kind
    PROVE  Cardinality(Places(Append(chunks, chunk), kind))
              = IF chunk.kind = kind THEN Cardinality(Places(chunks, kind)) + 1
                                     ELSE Cardinality(Places(chunks, kind))
<1>1. CASE chunk.kind = kind
    <2>1. Cardinality(Places(chunks, kind) \cup {Len(chunks) + 1})
             = Cardinality(Places(chunks, kind)) + 1
        BY PlacesIn, FS_AddElement
    <2> QED BY <1>1, <2>1, PlacesAppend
<1>2. CASE chunk.kind # kind
    BY <1>2, PlacesAppend
<1> QED BY <1>1, <1>2

\* Nothing stands in an empty sequence.
LEMMA PlacesEmpty == \A kind : Places(<<>>, kind) = {}
BY DEF Places

\* The tool calls of a sequence, numbered in the order they stand in.
InOrder(chunks) ==
    \A i \in Places(chunks, "tool") :
        chunks[i].index = Cardinality({j \in Places(chunks, "tool") : j < i})

LEMMA OrderAppend ==
    ASSUME NEW chunks \in Seq(Chunk), NEW chunk \in Chunk, InOrder(chunks),
           chunk.kind = "tool" => chunk.index = Cardinality(Places(chunks, "tool"))
    PROVE  InOrder(Append(chunks, chunk))
<1> DEFINE n == Len(chunks)
           more == Append(chunks, chunk)
           calls == Places(chunks, "tool")
<1>1. /\ n \in Nat /\ calls \subseteq 1 .. n
    BY PlacesIn
<1>2. (\A i \in 1 .. n : more[i] = chunks[i]) /\ more[n + 1] = chunk
    OBVIOUS
<1>3. Places(more, "tool") = IF chunk.kind = "tool" THEN calls \cup {n + 1} ELSE calls
    BY PlacesAppend
<1>4. \A i \in calls : chunks[i].index = Cardinality({j \in calls : j < i})
    BY DEF InOrder
<1>5. chunk.kind = "tool" => chunk.index = Cardinality(calls)
    OBVIOUS
<1> HIDE DEF n, more, calls
<1>6. ASSUME NEW i \in calls
      PROVE  more[i].index = Cardinality({j \in Places(more, "tool") : j < i})
    <2>1. {j \in Places(more, "tool") : j < i} = {j \in calls : j < i}
        BY <1>1, <1>3
    <2>2. more[i] = chunks[i]
        BY <1>1, <1>2
    <2> QED BY <1>4, <2>1, <2>2
<1>7. ASSUME chunk.kind = "tool"
      PROVE  more[n + 1].index = Cardinality({j \in Places(more, "tool") : j < n + 1})
    <2>1. Places(more, "tool") = calls \cup {n + 1}
        BY <1>3, <1>7
    <2>2. (\A j \in calls : j < n + 1) /\ ~(n + 1 < n + 1)
        <3>1. \A j \in 1 .. n : j < n + 1
            BY <1>1
        <3> QED BY <1>1, <3>1
    <2>3. {j \in Places(more, "tool") : j < n + 1} = calls
        BY <2>1, <2>2
    <2> QED BY <1>2, <1>5, <1>7, <2>3
<1>8. InOrder(more)
    <2>1. ASSUME NEW i \in Places(more, "tool")
          PROVE  more[i].index = Cardinality({j \in Places(more, "tool") : j < i})
        <3>1. i \in calls \/ (chunk.kind = "tool" /\ i = n + 1)
            BY <1>3
        <3> QED BY <1>6, <1>7, <3>1
    <2> QED BY <2>1 DEF InOrder
<1> QED BY <1>8 DEF more

\* A delta's chunk keeps the tally of the result that includes it.
LEMMA TallyDelta ==
    ASSUME NEW r \in Result, NEW chunks \in Seq(Chunk), Tally(r, chunks),
           NEW event \in Events, event.type # "finish"
    PROVE  LET chunk == DeltaChunk(event, Absorb(r, event))
           IN /\ chunk \in Chunk /\ chunk.kind \in {"text", "reasoning", "tool"}
              /\ Tally(Absorb(r, event), Append(chunks, chunk))
<1> DEFINE after == Absorb(r, event)
           chunk == DeltaChunk(event, after)
           more == Append(chunks, chunk)
<1>1. event.type \in {"text-delta", "reasoning-delta", "tool-call"}
    BY DEF Events
<1>2. r.text \in Nat /\ r.reasoning \in Nat /\ r.tools \in Nat
    BY DEF Result
<1>3. /\ after.text = IF event.type = "text-delta" THEN r.text + 1 ELSE r.text
      /\ after.tools = IF event.type = "tool-call" THEN r.tools + 1 ELSE r.tools
      /\ after.reasoning = IF event.type = "reasoning-delta"
                           THEN r.reasoning + 1 ELSE r.reasoning
    BY AbsorbCounts
<1> HIDE DEF after
<1>4. /\ event.type = "text-delta" => chunk = [kind |-> "text"]
      /\ event.type = "reasoning-delta" => chunk = [kind |-> "reasoning"]
      /\ event.type = "tool-call" => chunk = [kind |-> "tool", index |-> r.tools]
    <2>1. event.type = "tool-call" => after.tools - 1 = r.tools
        BY <1>2, <1>3
    <2> QED BY <2>1 DEF DeltaChunk
<1> HIDE DEF chunk
<1>5. chunk \in Chunk /\ chunk.kind \in {"text", "reasoning", "tool"}
    BY <1>1, <1>2, <1>4 DEF Chunk
<1>6. \A kind : Cardinality(Places(more, kind))
                   = IF chunk.kind = kind THEN Cardinality(Places(chunks, kind)) + 1
                                          ELSE Cardinality(Places(chunks, kind))
    BY <1>5, PlacesCount
<1>7. Places(more, "role") = {1}
    BY <1>5, PlacesAppend DEF Tally
<1>8. InOrder(more)
    <2>1. InOrder(chunks) /\ Cardinality(Places(chunks, "tool")) = r.tools
        BY DEF Tally, InOrder
    <2>2. chunk.kind = "tool" => chunk.index = r.tools
        BY <1>1, <1>4
    <2> HIDE DEF more
    <2>3. InOrder(Append(chunks, chunk))
        BY <1>5, <2>1, <2>2, OrderAppend
    <2> QED BY <2>3 DEF more
<1>9. chunk.kind = IF event.type = "text-delta" THEN "text"
                   ELSE IF event.type = "reasoning-delta" THEN "reasoning" ELSE "tool"
    BY <1>1, <1>4
<1>10. /\ Cardinality(Places(chunks, "text")) = r.text
       /\ Cardinality(Places(chunks, "reasoning")) = r.reasoning
       /\ Cardinality(Places(chunks, "tool")) = r.tools
    BY DEF Tally
<1> HIDE DEF more
<1>11. /\ Cardinality(Places(more, "text")) = after.text
       /\ Cardinality(Places(more, "reasoning")) = after.reasoning
       /\ Cardinality(Places(more, "tool")) = after.tools
    BY <1>1, <1>3, <1>6, <1>9, <1>10
<1>12. Tally(after, more)
    BY <1>7, <1>8, <1>11 DEF Tally, InOrder
<1> QED BY <1>5, <1>12 DEF after, chunk, more

\* A chunk that is no delta leaves the tally as it is.
LEMMA TallyLast ==
    ASSUME NEW r, NEW chunks \in Seq(Chunk), Tally(r, chunks),
           NEW chunk \in Chunk, chunk.kind \in {"finish", "usage"}
    PROVE  Tally(r, Append(chunks, chunk))
<1> DEFINE more == Append(chunks, chunk)
<1>1. \A kind \in {"role", "text", "reasoning", "tool"} :
         Places(more, kind) = Places(chunks, kind)
    BY PlacesAppend
<1>2. InOrder(more)
    BY OrderAppend DEF Tally, InOrder
<1> HIDE DEF more
<1>3. Tally(r, more)
    BY <1>1, <1>2 DEF Tally, InOrder
<1> QED BY <1>3 DEF more

\* The role alone is the tally of no result.
LEMMA TallyFirst ==
    LET role == [kind |-> "role"]
        chunks == Append(<<>>, role)
    IN /\ role \in Chunk /\ Tally(NoResult, chunks)
       /\ Places(chunks, "finish") = {} /\ Places(chunks, "usage") = {}
<1> DEFINE role == [kind |-> "role"]
           chunks == Append(<<>>, role)
<1>1. role \in Chunk /\ role.kind = "role"
    BY DEF Chunk
<1>2. <<>> \in Seq(Chunk) /\ Len(<<>>) + 1 = 1
    OBVIOUS
<1>3. \A kind : Places(chunks, kind) = IF kind = "role" THEN {1} ELSE {}
    BY <1>1, <1>2, PlacesAppend, PlacesEmpty
<1> HIDE DEF chunks
<1>4. Cardinality({}) = 0
    BY FS_EmptySet
<1>5. Tally(NoResult, chunks)
    BY <1>3, <1>4 DEF Tally, NoResult
<1> QED BY <1>1, <1>3, <1>5 DEF chunks

\* Usage that was told stays told, and a chunk that is added tells no other.
LEMMA UsageAppend ==
    ASSUME NEW r, NEW chunks \in Seq(Chunk), UsageTold(r, chunks), NEW chunk \in Chunk,
           chunk.kind = "usage" => chunk.usage = usagePayload(r.usage, 0)
    PROVE  UsageTold(r, Append(chunks, chunk))
<1> DEFINE n == Len(chunks)
           more == Append(chunks, chunk)
<1>1. n \in Nat /\ Places(chunks, "usage") \subseteq 1 .. n
    BY PlacesIn
<1>2. (\A i \in 1 .. n : more[i] = chunks[i]) /\ more[n + 1] = chunk
    OBVIOUS
<1>3. Places(more, "usage") = IF chunk.kind = "usage"
                              THEN Places(chunks, "usage") \cup {n + 1}
                              ELSE Places(chunks, "usage")
    BY PlacesAppend
<1>4. \A i \in Places(chunks, "usage") : chunks[i].usage = usagePayload(r.usage, 0)
    BY DEF UsageTold
<1> HIDE DEF n, more
<1>5. \A i \in Places(more, "usage") : more[i].usage = usagePayload(r.usage, 0)
    BY <1>1, <1>2, <1>3, <1>4
<1>6. UsageTold(r, more)
    BY <1>5 DEF UsageTold
<1> QED BY <1>6 DEF more

\* A finish chunk tells the reason.
LEMMA ReasonAppend ==
    ASSUME NEW r \in Result, NEW chunks \in Seq(Chunk), Places(chunks, "finish") = {}
    PROVE  LET chunk == [kind |-> "finish", reason |-> FinishReason(r)]
               more == Append(chunks, chunk)
           IN /\ chunk \in Chunk /\ chunk.kind = "finish"
              /\ ReasonAt(r, more, Len(more))
              /\ Places(more, "usage") = Places(chunks, "usage")
<1> DEFINE chunk == [kind |-> "finish", reason |-> FinishReason(r)]
           more == Append(chunks, chunk)
<1>1. FinishReason(r) \in Reasons
    BY DEF FinishReason, Result, Reasons
<1>2. chunk \in Chunk /\ chunk.kind = "finish" /\ chunk.reason = FinishReason(r)
    BY <1>1 DEF Chunk
<1> HIDE DEF chunk
<1>3. Len(more) = Len(chunks) + 1 /\ more[Len(more)] = chunk
    OBVIOUS
<1>4. Places(more, "finish") = {Len(chunks) + 1}
    BY <1>2, PlacesAppend
<1>5. Places(more, "usage") = Places(chunks, "usage")
    BY <1>2, PlacesAppend
<1> HIDE DEF more
<1>6. ReasonAt(r, more, Len(more))
    BY <1>2, <1>3, <1>4 DEF ReasonAt
<1> QED BY <1>2, <1>5, <1>6 DEF chunk, more

\* The usage chunk, sent last, tells the counts of the result.
LEMMA UsageLast ==
    ASSUME NEW r \in Result, NEW chunks \in Seq(Chunk), ReasonAt(r, chunks, Len(chunks)),
           Places(chunks, "usage") = {}
    PROVE  LET chunk == [kind |-> "usage", usage |-> usagePayload(r.usage, 0)]
               more == Append(chunks, chunk)
           IN /\ chunk \in Chunk /\ chunk.kind = "usage"
              /\ chunk.usage = usagePayload(r.usage, 0)
              /\ ReasonAt(r, more, Len(more) - 1)
              /\ Places(more, "usage") = {Len(more)}
<1> DEFINE payload == usagePayload(r.usage, 0)
           chunk == [kind |-> "usage", usage |-> payload]
           more == Append(chunks, chunk)
           n == Len(chunks)
<1>1. payload \in Counters
    <2>1. r.usage \in Usages \cup {NoUsage}
        BY DEF Result
    <2>2. IsUsage(r.usage)
        BY <2>1, UsagesCount
    <2> QED BY <2>2, PayloadTyped DEF Counters
<1> HIDE DEF payload
<1>2. chunk \in Chunk /\ chunk.kind = "usage" /\ chunk.usage = payload
    BY <1>1 DEF Chunk
<1> HIDE DEF chunk
<1>3. n \in Nat /\ Len(more) = n + 1
    OBVIOUS
<1>4. n \in 1 .. n /\ \A i \in 1 .. n : more[i] = chunks[i]
    <2>1. n \in Places(chunks, "finish")
        BY DEF ReasonAt
    <2>2. n \in 1 .. n
        BY <2>1, PlacesIn
    <2> QED BY <2>2
<1>5. Places(more, "finish") = {n}
    BY <1>2, PlacesAppend DEF ReasonAt
<1>6. Places(more, "usage") = {n + 1}
    BY <1>2, PlacesAppend
<1>7. chunks[n].reason = FinishReason(r)
    BY DEF ReasonAt
<1> HIDE DEF more, n
<1>8. Len(more) - 1 = n
    BY <1>3
<1>9. ReasonAt(r, more, n)
    BY <1>4, <1>5, <1>7 DEF ReasonAt
<1> QED BY <1>2, <1>3, <1>6, <1>8, <1>9 DEF payload, chunk, more

\* The end of the answer leaves the tally as it is.
LEMMA TallyReturned ==
    ASSUME NEW r \in Result, NEW chunks, Tally(r, chunks)
    PROVE  Tally(Returned(r), chunks)
BY ReturnedTyped DEF Tally

-----------------------------------------------------------------------------
\* The other streams are left alone.
OthersKept(s) ==
    \A t \in Streams \ {s} :
        /\ pc'[t] = pc[t] /\ wantsUsage'[t] = wantsUsage[t] /\ result'[t] = result[t]
        /\ received'[t] = received[t] /\ closed'[t] = closed[t]

SoundNext(s) == Sound(pc'[s], wantsUsage'[s], result'[s], received'[s], closed'[s])

\* An emit adds its chunk and goes on, or fails, the chunk added or not.
LEMMA EmitStep ==
    ASSUME Typed, NEW s \in Streams, NEW chunk \in Chunk, NEW next \in PCs,
           Emit(s, chunk, next), pc[s] # "done", UNCHANGED closed
    PROVE  /\ pc' \in [Streams -> PCs] /\ received' \in [Streams -> Seq(Chunk)]
           /\ \A t \in Streams \ {s} : pc'[t] = pc[t] /\ received'[t] = received[t]
           /\ closed[s] = <<>> /\ \A t \in Streams : closed'[t] # <<>> => pc'[t] = "done"
           /\ \/ pc'[s] = next /\ received'[s] = Append(received[s], chunk)
              \/ /\ pc'[s] = "failed"
                 /\ received'[s] \in {received[s], Append(received[s], chunk)}
<1> DEFINE more == Append(received[s], chunk)
<1>1. received[s] \in Seq(Chunk)
    BY DEF Typed
<1>2. more \in Seq(Chunk)
    BY <1>1
<1>3. closed[s] = <<>>
    BY DEF Typed
<1>4. \/ received' = [received EXCEPT ![s] = more] /\ pc' = [pc EXCEPT ![s] = next]
      \/ /\ received' \in {received, [received EXCEPT ![s] = more]}
         /\ pc' = [pc EXCEPT ![s] = "failed"]
    BY DEF Emit
<1> HIDE DEF more
<1>5. pc' \in [Streams -> PCs] /\ received' \in [Streams -> Seq(Chunk)]
    BY <1>2, <1>4 DEF Typed, PCs
<1>6. \A t \in Streams \ {s} : pc'[t] = pc[t] /\ received'[t] = received[t]
    BY <1>4 DEF Typed
<1>7. \/ pc'[s] = next /\ received'[s] = more
      \/ pc'[s] = "failed" /\ received'[s] \in {received[s], more}
    BY <1>4 DEF Typed
<1>8. \A t \in Streams : closed'[t] # <<>> => pc'[t] = "done"
    BY <1>3, <1>6 DEF Typed
<1> QED BY <1>3, <1>5, <1>6, <1>7, <1>8 DEF more

\* A goroutine that failed has only to tell no other usage.
LEMMA FailedIsTold ==
    ASSUME NEW wants, NEW r, NEW chunks, UsageTold(r, chunks)
    PROVE  Sound("failed", wants, r, chunks, <<>>)
BY DEF Sound, Told

\* What an emit does to one stream, when its result stays.
LEMMA EmitSound ==
    ASSUME Inv, NEW s \in Streams, NEW chunk \in Chunk, NEW next \in PCs,
           Emit(s, chunk, next), pc[s] # "done",
           UNCHANGED <<wantsUsage, result, closed, attempts>>,
           chunk.kind = "usage" => chunk.usage = usagePayload(result[s].usage, 0),
           Told(next, wantsUsage[s], result[s], Append(received[s], chunk))
    PROVE  Typed' /\ OthersKept(s) /\ SoundNext(s)
<1> DEFINE more == Append(received[s], chunk)
<1>1. Typed /\ received[s] \in Seq(Chunk) /\ UsageTold(result[s], received[s])
    BY DEF Inv, Typed, Sound, Told
<1>2. UsageTold(result[s], more)
    BY <1>1, UsageAppend
<1>3. /\ pc' \in [Streams -> PCs] /\ received' \in [Streams -> Seq(Chunk)]
      /\ \A t \in Streams \ {s} : pc'[t] = pc[t] /\ received'[t] = received[t]
      /\ closed[s] = <<>> /\ \A t \in Streams : closed'[t] # <<>> => pc'[t] = "done"
      /\ \/ pc'[s] = next /\ received'[s] = more
         \/ pc'[s] = "failed" /\ received'[s] \in {received[s], more}
    BY <1>1, EmitStep
<1>4. Typed'
    BY <1>1, <1>3 DEF Typed
<1>5. OthersKept(s)
    BY <1>3 DEF OthersKept
<1>6. SoundNext(s)
    <2>1. CASE pc'[s] = next /\ received'[s] = more
        <3>1. <<>> # <<"clean">>
            OBVIOUS
        <3> HIDE DEF more
        <3>2. Told(next, wantsUsage[s], result[s], more)
            BY DEF more
        <3> QED BY <1>3, <2>1, <3>1, <3>2 DEF SoundNext, Sound
    <2>2. CASE pc'[s] = "failed" /\ received'[s] \in {received[s], more}
        <3> HIDE DEF more
        <3>1. UsageTold(result[s], received'[s])
            BY <1>1, <1>2, <2>2
        <3>2. Sound("failed", wantsUsage[s], result[s], received'[s], <<>>)
            BY <3>1, FailedIsTold
        <3> QED BY <1>3, <2>2, <3>2 DEF SoundNext
    <2> QED BY <1>3, <2>1, <2>2
<1> QED BY <1>4, <1>5, <1>6

\* The role is told first.
LEMMA RoleSound ==
    ASSUME Inv, NEW s \in Streams, Role(s)
    PROVE  Typed' /\ OthersKept(s) /\ SoundNext(s)
<1> DEFINE role == [kind |-> "role"]
<1>1. pc[s] = "role" /\ received[s] = <<>> /\ result[s] = NoResult
    BY DEF Inv, Sound, Told, Role
<1>2. /\ role \in Chunk /\ role.kind = "role" /\ Tally(NoResult, Append(<<>>, role))
      /\ Places(Append(<<>>, role), "finish") = {}
      /\ Places(Append(<<>>, role), "usage") = {}
    BY TallyFirst
<1>3. Emit(s, role, "call") /\ UNCHANGED <<wantsUsage, result, closed, attempts>>
    BY DEF Role
<1> HIDE DEF role
<1>4. Told("call", wantsUsage[s], result[s], Append(received[s], role))
    BY <1>1, <1>2 DEF Told, UsageTold
<1>5. "call" \in PCs
    BY DEF PCs
<1> QED BY <1>1, <1>2, <1>3, <1>4, <1>5, EmitSound

\* The finish reason is told once.
LEMMA FinishSound ==
    ASSUME Inv, NEW s \in Streams, Finish(s)
    PROVE  Typed' /\ OthersKept(s) /\ SoundNext(s)
<1> DEFINE r == result[s]
           chunk == [kind |-> "finish", reason |-> FinishReason(r)]
           more == Append(received[s], chunk)
           next == IF wantsUsage[s] THEN "usage" ELSE "close"
<1>1. /\ pc[s] = "finish" /\ received[s] \in Seq(Chunk) /\ r \in Result
      /\ wantsUsage[s] \in BOOLEAN
    BY DEF Inv, Typed, Finish
<1>2. /\ Tally(r, received[s]) /\ Returned(r) = r
      /\ Places(received[s], "finish") = {} /\ Places(received[s], "usage") = {}
      /\ UsageTold(r, received[s])
    BY <1>1 DEF Inv, Sound, Told
<1>3. Emit(s, chunk, next) /\ UNCHANGED <<wantsUsage, result, closed, attempts>>
    BY DEF Finish
<1>4. /\ chunk \in Chunk /\ chunk.kind = "finish" /\ ReasonAt(r, more, Len(more))
      /\ Places(more, "usage") = {}
    BY <1>1, <1>2, ReasonAppend
<1> HIDE DEF chunk
<1>5. Tally(r, more)
    BY <1>1, <1>2, <1>4, TallyLast
<1> HIDE DEF more, r
<1>6. Told(next, wantsUsage[s], r, more)
    <2>1. UsageTold(r, more)
        BY <1>4 DEF UsageTold
    <2>2. CASE wantsUsage[s]
        BY <1>2, <1>4, <1>5, <2>1, <2>2 DEF Told
    <2>3. CASE ~wantsUsage[s]
        BY <1>2, <1>4, <1>5, <2>1, <2>3 DEF Told, Complete
    <2> QED BY <2>2, <2>3
<1>7. next \in PCs
    BY DEF PCs
<1> HIDE DEF next
<1> QED BY <1>1, <1>3, <1>4, <1>6, <1>7, EmitSound DEF r, more

\* The usage is told last.
LEMMA UsageSound ==
    ASSUME Inv, NEW s \in Streams, Usage(s)
    PROVE  Typed' /\ OthersKept(s) /\ SoundNext(s)
<1> DEFINE r == result[s]
           chunk == [kind |-> "usage", usage |-> usagePayload(r.usage, 0)]
           more == Append(received[s], chunk)
<1>1. /\ pc[s] = "usage" /\ received[s] \in Seq(Chunk) /\ r \in Result
    BY DEF Inv, Typed, Usage
<1>2. /\ Tally(r, received[s]) /\ Returned(r) = r /\ wantsUsage[s]
      /\ ReasonAt(r, received[s], Len(received[s]))
      /\ Places(received[s], "usage") = {} /\ UsageTold(r, received[s])
    BY <1>1 DEF Inv, Sound, Told
<1>3. Emit(s, chunk, "close") /\ UNCHANGED <<wantsUsage, result, closed, attempts>>
    BY DEF Usage
<1>4. /\ chunk \in Chunk /\ chunk.kind = "usage"
      /\ chunk.usage = usagePayload(r.usage, 0)
      /\ ReasonAt(r, more, Len(more) - 1) /\ Places(more, "usage") = {Len(more)}
    BY <1>1, <1>2, UsageLast
<1> HIDE DEF chunk
<1>5. Tally(r, more)
    BY <1>1, <1>2, <1>4, TallyLast
<1>6. UsageTold(r, more)
    BY <1>1, <1>2, <1>4, UsageAppend
<1> HIDE DEF more, r
<1>7. Told("close", wantsUsage[s], r, more)
    BY <1>2, <1>4, <1>5, <1>6 DEF Told, Complete
<1>8. "close" \in PCs
    BY DEF PCs
<1> QED BY <1>1, <1>3, <1>4, <1>7, <1>8, EmitSound DEF r, more

\* A delta is recorded and told.
LEMMA DeltaSound ==
    ASSUME Inv, NEW s \in Streams, NEW event \in Events, ReadDelta(s, event)
    PROVE  Typed' /\ OthersKept(s) /\ SoundNext(s)
<1> DEFINE r == Absorb(result[s], event)
           chunk == DeltaChunk(event, r)
           more == Append(received[s], chunk)
<1>1. /\ pc[s] = "read" /\ event.type # "finish" /\ Typed /\ result[s] \in Result
      /\ received[s] \in Seq(Chunk) /\ wantsUsage[s] \in BOOLEAN
    BY DEF Inv, Typed, ReadDelta
<1>2. /\ Tally(result[s], received[s]) /\ Places(received[s], "finish") = {}
      /\ Places(received[s], "usage") = {}
    BY <1>1 DEF Inv, Sound, Told
<1>3. r \in Result
    BY <1>1, AbsorbTyped
<1>4. result' = [result EXCEPT ![s] = r]
    BY DEF ReadDelta
<1>5. result' \in [Streams -> Result] /\ result'[s] = r
    <2> HIDE DEF r
    <2> QED BY <1>1, <1>3, <1>4 DEF Typed
<1>6. Emit(s, chunk, "read") /\ UNCHANGED <<wantsUsage, closed, attempts>>
    BY <1>5 DEF ReadDelta
<1>7. chunk \in Chunk /\ chunk.kind \in {"text", "reasoning", "tool"} /\ Tally(r, more)
    BY <1>1, <1>2, TallyDelta
<1> HIDE DEF r, chunk
<1>8. Places(more, "finish") = {} /\ Places(more, "usage") = {}
    BY <1>1, <1>2, <1>7, PlacesAppend
<1>9. "read" \in PCs /\ pc[s] # "done"
    BY <1>1 DEF PCs
<1>10. /\ pc' \in [Streams -> PCs] /\ received' \in [Streams -> Seq(Chunk)]
       /\ \A t \in Streams \ {s} : pc'[t] = pc[t] /\ received'[t] = received[t]
       /\ closed[s] = <<>> /\ \A t \in Streams : closed'[t] # <<>> => pc'[t] = "done"
       /\ \/ pc'[s] = "read" /\ received'[s] = more
          \/ pc'[s] = "failed" /\ received'[s] \in {received[s], more}
    BY <1>1, <1>6, <1>7, <1>9, EmitStep
<1> HIDE DEF more
<1>11. Typed'
    BY <1>1, <1>5, <1>6, <1>10 DEF Typed
<1>12. OthersKept(s)
    BY <1>1, <1>4, <1>6, <1>10 DEF OthersKept, Typed
<1>13. UsageTold(r, more) /\ UsageTold(r, received[s])
    BY <1>2, <1>8 DEF UsageTold
<1>14. SoundNext(s)
    <2>1. CASE pc'[s] = "read" /\ received'[s] = more
        <3>1. Told("read", wantsUsage[s], r, more)
            BY <1>7, <1>8, <1>13 DEF Told
        <3>2. <<>> # <<"clean">>
            OBVIOUS
        <3> QED BY <1>5, <1>6, <1>10, <2>1, <3>1, <3>2 DEF SoundNext, Sound
    <2>2. CASE pc'[s] = "failed" /\ received'[s] \in {received[s], more}
        <3>1. UsageTold(r, received'[s])
            BY <1>13, <2>2
        <3>2. Sound("failed", wantsUsage[s], r, received'[s], <<>>)
            BY <3>1, FailedIsTold
        <3> QED BY <1>5, <1>6, <1>10, <2>2, <3>2 DEF SoundNext
    <2> QED BY <1>10, <2>1, <2>2
<1> QED BY <1>11, <1>12, <1>14

\* What changes the result and tells nothing.
LEMMA ResultSound ==
    ASSUME Inv, NEW s \in Streams, NEW r \in Result, NEW next \in {"read", "finish"},
           pc[s] = "read", result' = [result EXCEPT ![s] = r],
           pc' = [pc EXCEPT ![s] = next],
           UNCHANGED <<wantsUsage, received, closed, attempts>>,
           Tally(r, received[s]), next = "finish" => Returned(r) = r
    PROVE  Typed' /\ OthersKept(s) /\ SoundNext(s)
<1>1. /\ Typed /\ Places(received[s], "finish") = {} /\ Places(received[s], "usage") = {}
    BY DEF Inv, Sound, Told
<1>2. closed[s] = <<>> /\ <<>> # <<"clean">>
    BY <1>1 DEF Typed
<1>3. /\ pc'[s] = next /\ result'[s] = r
      /\ \A t \in Streams \ {s} : pc'[t] = pc[t] /\ result'[t] = result[t]
    BY <1>1 DEF Typed
<1>4. Typed'
    BY <1>1, <1>2, <1>3 DEF Typed, PCs
<1>5. OthersKept(s)
    BY <1>3 DEF OthersKept
<1>6. UsageTold(r, received[s])
    BY <1>1 DEF UsageTold
<1>7. Told(next, wantsUsage[s], r, received[s])
    BY <1>1, <1>6 DEF Told
<1>8. SoundNext(s)
    BY <1>2, <1>3, <1>7 DEF SoundNext, Sound
<1> QED BY <1>4, <1>5, <1>8

\* A finish event is no delta: the tally stays.
LEMMA ReadFinishSound ==
    ASSUME Inv, NEW s \in Streams, NEW event \in Events, ReadFinish(s, event)
    PROVE  Typed' /\ OthersKept(s) /\ SoundNext(s)
<1> DEFINE r == Absorb(result[s], event)
<1>1. /\ pc[s] = "read" /\ event.type = "finish" /\ Typed /\ result[s] \in Result
    BY DEF Inv, Typed, ReadFinish
<1>2. Tally(result[s], received[s])
    BY <1>1 DEF Inv, Sound, Told
<1>3. r \in Result
    BY <1>1, AbsorbTyped
<1>4. r.text = result[s].text /\ r.tools = result[s].tools
      /\ r.reasoning = result[s].reasoning
    BY <1>1, AbsorbCounts
<1>5. /\ result' = [result EXCEPT ![s] = r]
      /\ UNCHANGED <<wantsUsage, received, closed, attempts>>
    BY DEF ReadFinish
<1> HIDE DEF r
<1>6. Tally(r, received[s])
    BY <1>2, <1>4 DEF Tally
<1>7. pc' = [pc EXCEPT ![s] = "read"]
    BY <1>1 DEF ReadFinish, Typed
<1> QED BY <1>1, <1>3, <1>5, <1>6, <1>7, ResultSound

\* Nor is the end of the answer.
LEMMA ReadEndSound ==
    ASSUME Inv, NEW s \in Streams, ReadEnd(s)
    PROVE  Typed' /\ OthersKept(s) /\ SoundNext(s)
<1> DEFINE r == Returned(result[s])
<1>1. /\ pc[s] = "read" /\ Typed /\ result[s] \in Result
    BY DEF Inv, Typed, ReadEnd
<1>2. Tally(result[s], received[s])
    BY <1>1 DEF Inv, Sound, Told
<1>3. r \in Result /\ Returned(r) = r /\ Tally(r, received[s])
    BY <1>1, <1>2, ReturnedTyped, TallyReturned
<1>4. /\ result' = [result EXCEPT ![s] = r] /\ pc' = [pc EXCEPT ![s] = "finish"]
      /\ UNCHANGED <<wantsUsage, received, closed, attempts>>
    BY DEF ReadEnd
<1> HIDE DEF r
<1> QED BY <1>1, <1>3, <1>4, ResultSound

\* What moves the goroutine only: nothing is told, and the stream is not closed.
LEMMA MoveSound ==
    ASSUME Inv, NEW s \in Streams, NEW next \in PCs, pc[s] # "done",
           pc' = [pc EXCEPT ![s] = next], wantsUsage' \in [Streams -> BOOLEAN],
           \A t \in Streams \ {s} : wantsUsage'[t] = wantsUsage[t],
           UNCHANGED <<result, received, closed, attempts>>,
           Told(next, wantsUsage'[s], result[s], received[s])
    PROVE  Typed' /\ OthersKept(s) /\ SoundNext(s)
<1>1. Typed
    BY DEF Inv
<1>2. closed[s] = <<>> /\ <<>> # <<"clean">>
    BY <1>1 DEF Typed
<1>3. pc'[s] = next /\ \A t \in Streams \ {s} : pc'[t] = pc[t]
    BY <1>1 DEF Typed
<1>4. Typed'
    BY <1>1, <1>2, <1>3 DEF Typed
<1>5. OthersKept(s)
    BY <1>3 DEF OthersKept
<1>6. SoundNext(s)
    BY <1>2, <1>3 DEF SoundNext, Sound
<1> QED BY <1>4, <1>5, <1>6

\* A request is accepted or refused, the upstream is called or fails.
LEMMA MovesSound ==
    ASSUME Inv, NEW s \in Streams,
           Accept(s) \/ Refuse(s) \/ CallUpstream(s) \/ UpstreamFails(s)
    PROVE  Typed' /\ OthersKept(s) /\ SoundNext(s)
<1>1. Typed /\ Told(pc[s], wantsUsage[s], result[s], received[s])
    BY DEF Inv, Sound
<1>2. CASE Accept(s)
    <2>1. PICK usage \in BOOLEAN : wantsUsage' = [wantsUsage EXCEPT ![s] = usage]
        BY <1>2 DEF Accept
    <2>2. /\ wantsUsage' \in [Streams -> BOOLEAN]
          /\ \A t \in Streams \ {s} : wantsUsage'[t] = wantsUsage[t]
        BY <1>1, <2>1 DEF Typed
    <2>3. Told("role", wantsUsage'[s], result[s], received[s])
        BY <1>1, <1>2 DEF Accept, Told
    <2>4. "role" \in PCs
        BY DEF PCs
    <2> QED BY <1>2, <2>2, <2>3, <2>4, MoveSound DEF Accept
<1>3. CASE Refuse(s) \/ CallUpstream(s) \/ UpstreamFails(s)
    <2>1. PICK next \in {"refused", "read", "failed"} :
              /\ pc' = [pc EXCEPT ![s] = next]
              /\ next = "refused" => pc[s] = "idle"
              /\ next = "read" => pc[s] = "call"
        BY <1>3 DEF Refuse, CallUpstream, UpstreamFails
    <2>2. pc[s] # "done" /\ UNCHANGED <<wantsUsage, result, received, closed, attempts>>
        BY <1>3 DEF Refuse, CallUpstream, UpstreamFails
    <2>3. Told(next, wantsUsage[s], result[s], received[s])
        BY <1>1, <2>1 DEF Told
    <2>4. next \in PCs
        BY DEF PCs
    <2>5. wantsUsage' \in [Streams -> BOOLEAN] /\ wantsUsage' = wantsUsage
        BY <1>1, <2>2 DEF Typed
    <2> QED BY <2>1, <2>2, <2>3, <2>4, <2>5, MoveSound
<1> QED BY <1>2, <1>3

\* A close without an error follows a complete answer.
LEMMA CloseSound ==
    ASSUME Inv, NEW s \in Streams, Close(s)
    PROVE  Typed' /\ OthersKept(s) /\ SoundNext(s)
<1> DEFINE outcome == IF pc[s] = "close" THEN "clean" ELSE "error"
<1>1. /\ Typed /\ Told(pc[s], wantsUsage[s], result[s], received[s])
      /\ pc[s] \in {"close", "failed"}
    BY DEF Inv, Sound, Close
<1>2. closed[s] = <<>>
    BY <1>1 DEF Typed
<1>3. Append(closed[s], outcome) = <<outcome>>
    <2> HIDE DEF outcome
    <2>1. Append(<<>>, outcome) = <<outcome>>
        OBVIOUS
    <2> QED BY <1>2, <2>1
<1>4. /\ closed' \in {closed, [closed EXCEPT ![s] = <<outcome>>]}
      /\ attempts' = [attempts EXCEPT ![s] = attempts[s] + 1]
      /\ pc' = [pc EXCEPT ![s] = "done"]
      /\ UNCHANGED <<wantsUsage, result, received>>
    BY <1>3 DEF Close
<1>5. outcome \in {"clean", "error"} /\ (outcome = "clean" => pc[s] = "close")
    OBVIOUS
<1> HIDE DEF outcome
<1>6. /\ closed'[s] \in {<<>>, <<outcome>>} /\ pc'[s] = "done"
      /\ \A t \in Streams \ {s} : pc'[t] = pc[t] /\ closed'[t] = closed[t]
    BY <1>1, <1>2, <1>4 DEF Typed
<1>7. Typed'
    <2>1. closed' \in [Streams -> {<<>>, <<"clean">>, <<"error">>}]
        BY <1>1, <1>4, <1>5 DEF Typed
    <2>2. attempts' \in [Streams -> Nat]
        BY <1>1, <1>4 DEF Typed
    <2>3. pc' \in [Streams -> PCs]
        BY <1>1, <1>4 DEF Typed, PCs
    <2>4. \A t \in Streams : closed'[t] # <<>> => pc'[t] = "done"
        BY <1>1, <1>6 DEF Typed
    <2> QED BY <1>1, <1>4, <2>1, <2>2, <2>3, <2>4 DEF Typed
<1>8. OthersKept(s)
    BY <1>4, <1>6 DEF OthersKept
<1>9. SoundNext(s)
    <2>1. Told("done", wantsUsage[s], result[s], received[s])
        BY <1>1 DEF Told
    <2>2. ASSUME closed'[s] = <<"clean">>
          PROVE  Complete(wantsUsage[s], result[s], received[s])
        <3>1. <<>> # <<"clean">>
            OBVIOUS
        <3>2. <<outcome>> = <<"clean">> => outcome = "clean"
            OBVIOUS
        <3>3. pc[s] = "close"
            BY <1>5, <1>6, <2>2, <3>1, <3>2
        <3> QED BY <1>1, <3>3 DEF Told
    <2> QED BY <1>4, <1>6, <2>1, <2>2 DEF SoundNext, Sound
<1> QED BY <1>7, <1>8, <1>9

\* Every step keeps the invariant.
LEMMA InvStep ==
    ASSUME Inv, [Next]_vars
    PROVE  Inv'
<1>1. CASE Next
    <2>1. PICK s \in Streams : Accept(s) \/ Refuse(s) \/ Work(s)
        BY <1>1 DEF Next
    <2>2. Typed' /\ OthersKept(s) /\ SoundNext(s)
        BY <2>1, RoleSound, MovesSound, DeltaSound, ReadFinishSound, ReadEndSound,
           FinishSound, UsageSound, CloseSound DEF Work
    <2>3. \A t \in Streams : SoundNext(t)
        <3>1. ASSUME NEW t \in Streams \ {s} PROVE SoundNext(t)
            BY <2>2 DEF OthersKept, SoundNext, Inv
        <3> QED BY <2>2, <3>1
    <2> QED BY <2>2, <2>3 DEF Inv, SoundNext
<1>2. CASE UNCHANGED vars
    BY <1>2 DEF vars, Inv, Typed
<1> QED BY <1>1, <1>2

LEMMA InvInit == Init => Inv
<1>1. NoResult \in Result /\ <<>> \in Seq(Chunk)
    BY DEF NoResult, Result
<1>2. ASSUME Init PROVE Typed
    BY <1>1, <1>2 DEF Init, Typed, PCs
<1>3. ASSUME Init, NEW s \in Streams
      PROVE  Sound(pc[s], wantsUsage[s], result[s], received[s], closed[s])
    <2>1. /\ pc[s] = "idle" /\ received[s] = <<>> /\ result[s] = NoResult /\ closed[s] = <<>>
        BY <1>3 DEF Init
    <2>2. UsageTold(NoResult, <<>>)
        BY PlacesEmpty DEF UsageTold
    <2>3. <<>> # <<"clean">>
        OBVIOUS
    <2> QED BY <2>1, <2>2, <2>3 DEF Sound, Told
<1> QED BY <1>2, <1>3 DEF Inv

LEMMA InvHolds == Spec => []Inv
BY InvInit, InvStep, PTL DEF Spec

\* The variables keep their types, whatever the host and the upstream do.
THEOREM TypeCorrect == Spec => []TypeOK
<1>1. ASSUME Typed PROVE TypeOK
    <2>1. ASSUME NEW s \in Streams, NEW i \in DOMAIN received[s]
          PROVE  received[s][i] \in Chunk
        BY <1>1 DEF Typed
    <2>2. ASSUME NEW s \in Streams, NEW i \in DOMAIN closed[s]
          PROVE  closed[s][i] \in {"clean", "error"}
        <3>1. closed[s] \in {<<>>, <<"clean">>, <<"error">>}
            BY <1>1 DEF Typed
        <3> QED BY <3>1
    <2> QED BY <1>1, <2>1, <2>2 DEF Typed, TypeOK, PCs
<1> QED BY <1>1, InvHolds, PTL DEF Inv

\* A stream closed without an error told the role first, one finish reason and, exactly if
\* the client asked for it, the usage last.
THEOREM CleanIsComplete == Spec => []CleanMeansComplete
<1>1. ASSUME Inv, NEW s \in Streams, closed[s] = <<"clean">>
      PROVE  /\ Places(received[s], "role") = {1}
             /\ Cardinality(Places(received[s], "finish")) = 1
             /\ LastReceived(s).kind = IF wantsUsage[s] THEN "usage" ELSE "finish"
    <2>1. Complete(wantsUsage[s], result[s], received[s])
        BY <1>1 DEF Inv, Sound
    <2>2. PICK place : Places(received[s], "finish") = {place}
        BY <2>1 DEF Complete, ReasonAt
    <2>3. Cardinality(Places(received[s], "finish")) = 1
        BY <2>2, FS_Singleton
    <2>4. Len(received[s])
             \in Places(received[s], IF wantsUsage[s] THEN "usage" ELSE "finish")
        BY <2>1 DEF Complete, ReasonAt
    <2>5. LastReceived(s).kind = IF wantsUsage[s] THEN "usage" ELSE "finish"
        BY <2>4 DEF Places, LastReceived
    <2> QED BY <2>1, <2>3, <2>5 DEF Complete, Tally
<1>2. Inv => CleanMeansComplete
    BY <1>1 DEF CleanMeansComplete
<1> QED BY <1>2, InvHolds, PTL

\* A stream closed without an error told what the same upstream answer gives without
\* streaming, but for an output the upstream did not count.
THEOREM StreamedIsWhole == Spec => []StreamMatchesCompletion
<1>1. ASSUME Inv, NEW s \in Streams, closed[s] = <<"clean">>
      PROVE  LET complete == Returned(result[s])
                 whole    == usagePayload(complete.usage, complete.text)
                 calls    == Places(received[s], "tool")
             IN /\ Cardinality(Places(received[s], "text")) = complete.text
                /\ Cardinality(Places(received[s], "reasoning")) = complete.reasoning
                /\ Cardinality(calls) = complete.tools
                /\ \A i \in calls : received[s][i].index = Cardinality({j \in calls : j < i})
                /\ \A i \in Places(received[s], "finish") :
                      received[s][i].reason = mapFinishReason(complete.finish)
                /\ wantsUsage[s] =>
                      LET told == LastReceived(s).usage IN
                      \/ told = whole
                      \/ /\ complete.text > 0 /\ told.completion = 0
                         /\ told.prompt = whole.prompt
                         /\ told.cached = whole.cached /\ told.created = whole.created
    <2> DEFINE r == result[s]
               chunks == received[s]
               whole == usagePayload(r.usage, r.text)
               told == LastReceived(s).usage
    <2>1. Complete(wantsUsage[s], r, chunks) /\ UsageTold(r, chunks) /\ r \in Result
        BY <1>1 DEF Inv, Typed, Sound, Told
    <2>2. Returned(r) = r /\ Tally(r, chunks)
        BY <2>1 DEF Complete
    <2>3. ASSUME NEW i \in Places(chunks, "finish")
          PROVE  chunks[i].reason = mapFinishReason(r.finish)
        <3>1. chunks[i].reason = FinishReason(r)
            BY <2>1 DEF Complete, ReasonAt
        <3>2. r.finish \in {"stop", "length", "tool_calls", "content_filter", ""}
            BY <2>1 DEF Result, Reasons
        <3> QED BY <3>1, <3>2 DEF FinishReason, mapFinishReason
    <2>4. ASSUME wantsUsage[s]
          PROVE  \/ told = whole
                 \/ /\ r.text > 0 /\ told.completion = 0
                    /\ told.prompt = whole.prompt
                    /\ told.cached = whole.cached /\ told.created = whole.created
        <3>1. Len(chunks) \in Places(chunks, "usage")
            BY <2>1, <2>4 DEF Complete
        <3>2. told = usagePayload(r.usage, 0)
            BY <2>1, <3>1 DEF UsageTold, LastReceived
        <3>3. r.usage \in Usages \cup {NoUsage} /\ r.text \in Nat
            BY <2>1 DEF Result
        <3>4. IsUsage(r.usage)
            BY <3>3, UsagesCount
        <3> QED BY <3>2, <3>3, <3>4, OnlyOutputIsEstimated
    <2> HIDE DEF r, chunks, told
    <2>5. /\ Cardinality(Places(chunks, "text")) = r.text
          /\ Cardinality(Places(chunks, "reasoning")) = r.reasoning
          /\ Cardinality(Places(chunks, "tool")) = r.tools
          /\ \A i \in Places(chunks, "tool") :
                chunks[i].index = Cardinality({j \in Places(chunks, "tool") : j < i})
        BY <2>2 DEF Tally
    <2> QED BY <2>2, <2>3, <2>4, <2>5 DEF r, chunks, told
<1>2. Inv => StreamMatchesCompletion
    BY <1>1 DEF StreamMatchesCompletion
<1> QED BY <1>2, InvHolds, PTL

\* The cache hits a client is told are the upstream's, whichever of its spellings count
\* them and whatever zeros stand beside them.
THEOREM HitsReported == Spec => []UsageReported
<1>1. ASSUME Inv, NEW s \in Streams, NEW i \in DOMAIN received[s],
             received[s][i].kind = "usage"
      PROVE  LET usage == result[s].usage
                 hits  == CountsUnder(usage.flat, FlatReadKeys)
                          \cup UNION {CountsUnder(usage.nested[container], NestedReadKeys)
                                         : container \in DOMAIN usage.nested}
                 told  == received[s][i].usage.cached
             IN IF hits \subseteq {0} THEN told = 0 ELSE told \in hits \ {0}
    <2> DEFINE usage == result[s].usage
               told == received[s][i].usage.cached
    <2>1. received[s][i].usage = usagePayload(usage, 0)
        BY <1>1 DEF Inv, Sound, Told, UsageTold, Places
    <2>2. usage \in Usages \cup {NoUsage}
        BY <1>1 DEF Inv, Typed, Result
    <2>3. IsUsage(usage)
        BY <2>2, UsagesCount
    <2>4. told = cachedInputTokens(usage)
        BY <2>1 DEF usagePayload
    <2>5. \A counts, keys : CountsUnder(counts, keys) = Under(counts, keys)
        BY DEF CountsUnder, Under
    <2> HIDE DEF usage, told
    <2>6. UNION {CountsUnder(usage.nested[container], NestedReadKeys)
                    : container \in DOMAIN usage.nested} = NestedUnder(usage, NestedReadKeys)
        BY <2>5, Zenon DEF NestedUnder
    <2>7. IF Under(usage.flat, FlatReadKeys) \cup NestedUnder(usage, NestedReadKeys)
                \subseteq {0}
          THEN told = 0
          ELSE told \in (Under(usage.flat, FlatReadKeys)
                            \cup NestedUnder(usage, NestedReadKeys)) \ {0}
        BY <2>3, <2>4, CachedFound
    <2> QED BY <2>5, <2>6, <2>7 DEF usage, told
<1>2. Inv => UsageReported
    BY <1>1 DEF UsageReported
<1> QED BY <1>2, InvHolds, PTL

-----------------------------------------------------------------------------
(* The refinement.  A step of a stream is a step of the contract or leaves what a host *)
(* sees of it as it is; so the stage is followed through every step of the goroutine.  *)

Outcome(s) == IF closed[s] = <<>> THEN "open" ELSE closed[s][1]

\* The stage of a stream, of its goroutine's place and the chunks received.
StageOf(p, chunks) ==
    IF p \in {"idle", "refused"} THEN "idle"
    ELSE IF Places(chunks, "usage") # {} THEN "usage"
    ELSE IF Places(chunks, "finish") # {} THEN "finished"
    ELSE IF Places(chunks, "role") # {} THEN "content" ELSE "accepted"

\* One step of the contract for a stream, or none.
Moves(from, to) ==
    \/ to = from
    \/ <<from, to>> \in {<<"idle", "accepted">>, <<"accepted", "content">>,
                         <<"content", "finished">>, <<"finished", "usage">>}

\* What the invariant says of the stage at each place of the goroutine.
LEMMA StageKnown ==
    ASSUME NEW p, NEW wants, NEW r, NEW chunks, Told(p, wants, r, chunks)
    PROVE  /\ p \in {"idle", "refused"} => StageOf(p, chunks) = "idle"
           /\ p = "role" => StageOf(p, chunks) = "accepted"
           /\ p \in {"call", "read", "finish"} => StageOf(p, chunks) = "content"
           /\ p = "usage" => StageOf(p, chunks) = "finished"
           /\ p = "close" => StageOf(p, chunks) = IF wants THEN "usage" ELSE "finished"
           /\ p \notin {"idle", "refused"} => StageOf(p, chunks) # "idle"
BY PlacesEmpty DEF Told, Complete, Tally, ReasonAt, StageOf

\* A stage that is not idle depends on the chunks alone.
LEMMA StageStays ==
    ASSUME NEW p, NEW q, NEW chunks, p \notin {"idle", "refused"}, q \notin {"idle", "refused"}
    PROVE  StageOf(p, chunks) = StageOf(q, chunks)
BY DEF StageOf

\* A chunk that is added moves the stage as far as its kind says.
LEMMA StageAppend ==
    ASSUME NEW p, NEW q, NEW chunks \in Seq(Chunk), NEW chunk \in Chunk,
           p \notin {"idle", "refused"}, q \notin {"idle", "refused"},
           \/ chunk.kind = "role" /\ StageOf(p, chunks) = "accepted"
           \/ chunk.kind \in {"text", "reasoning", "tool"}
           \/ chunk.kind = "finish" /\ StageOf(p, chunks) = "content"
           \/ chunk.kind = "usage" /\ StageOf(p, chunks) = "finished"
    PROVE  Moves(StageOf(p, chunks), StageOf(q, Append(chunks, chunk)))
<1> DEFINE more == Append(chunks, chunk)
<1>1. \A kind : /\ chunk.kind = kind => Places(more, kind) # {}
                /\ chunk.kind # kind => Places(more, kind) = Places(chunks, kind)
    BY PlacesAppend
<1> HIDE DEF more
<1>2. Moves(StageOf(p, chunks), StageOf(q, more))
    BY <1>1 DEF StageOf, Moves
<1> QED BY <1>2 DEF more

\* What a host may see of a stream that did not change the others.
Visible(s) ==
    \/ /\ Outcome(s) = "open" /\ Outcome(s)' = "open"
       /\ Moves(Stage(s), Stage(s)')
    \/ /\ Outcome(s) = "open" /\ Outcome(s)' = "clean"
       /\ Stage(s) \in {"finished", "usage"} /\ Stage(s)' = Stage(s)
    \/ /\ Outcome(s) = "open" /\ Outcome(s)' = "error"
       /\ Stage(s) # "idle" /\ Stage(s)' = Stage(s)
    \/ Outcome(s)' = Outcome(s) /\ Stage(s)' = Stage(s)

\* An emit is seen as the move its chunk makes, or not at all.
LEMMA EmitVisible ==
    ASSUME Inv, NEW s \in Streams, NEW chunk \in Chunk, NEW next \in PCs,
           Emit(s, chunk, next), pc[s] \notin {"idle", "refused", "done"},
           next \notin {"idle", "refused"}, UNCHANGED closed,
           \/ chunk.kind = "role" /\ Stage(s) = "accepted"
           \/ chunk.kind \in {"text", "reasoning", "tool"}
           \/ chunk.kind = "finish" /\ Stage(s) = "content"
           \/ chunk.kind = "usage" /\ Stage(s) = "finished"
    PROVE  Visible(s)
<1> DEFINE more == Append(received[s], chunk)
<1>1. Typed /\ received[s] \in Seq(Chunk)
    BY DEF Inv, Typed
<1>2. Stage(s) = StageOf(pc[s], received[s]) /\ Stage(s)' = StageOf(pc'[s], received'[s])
    BY DEF Stage, StageOf
<1>3. /\ closed[s] = <<>>
      /\ \/ pc'[s] = next /\ received'[s] = more
         \/ pc'[s] = "failed" /\ received'[s] \in {received[s], more}
    BY <1>1, EmitStep
<1>4. Outcome(s) = "open" /\ Outcome(s)' = "open"
    BY <1>3 DEF Outcome
<1>5. pc'[s] \notin {"idle", "refused"}
    BY <1>3
<1>6. Moves(Stage(s), Stage(s)')
    <2>1. CASE received'[s] = more
        BY <1>1, <1>2, <1>5, <2>1, StageAppend
    <2>2. CASE received'[s] = received[s]
        BY <1>2, <1>5, <2>2, StageStays DEF Moves
    <2> QED BY <1>3, <2>1, <2>2
<1> QED BY <1>4, <1>6 DEF Visible

\* Every step of a stream is one a host may see.
LEMMA WorkVisible ==
    ASSUME Inv, NEW s \in Streams, Accept(s) \/ Refuse(s) \/ Work(s)
    PROVE  Visible(s)
<1>1. Typed /\ Told(pc[s], wantsUsage[s], result[s], received[s])
    BY DEF Inv, Sound
<1>2. Stage(s) = StageOf(pc[s], received[s]) /\ Stage(s)' = StageOf(pc'[s], received'[s])
    BY DEF Stage, StageOf
<1>3. PCs = {"idle", "refused", "role", "call", "read", "finish", "usage", "close",
             "failed", "done"}
    BY DEF PCs
<1>4. CASE Accept(s) \/ Refuse(s)
    <2>1. /\ pc[s] = "idle" /\ pc'[s] \in {"role", "refused"} /\ received' = received
          /\ closed' = closed /\ received[s] = <<>>
        BY <1>1, <1>4 DEF Accept, Refuse, Typed, Told
    <2>2. closed[s] = <<>>
        BY <1>1, <2>1 DEF Typed
    <2>3. Outcome(s) = "open" /\ Outcome(s)' = "open"
        BY <2>1, <2>2 DEF Outcome
    <2>4. Moves(Stage(s), Stage(s)')
        BY <1>2, <2>1, PlacesEmpty DEF StageOf, Moves
    <2> QED BY <2>3, <2>4 DEF Visible
<1>5. CASE Role(s)
    <2>1. [kind |-> "role"] \in Chunk
        BY TallyFirst
    <2>2. Stage(s) = "accepted"
        BY <1>1, <1>2, <1>5, StageKnown DEF Role
    <2> QED BY <1>3, <1>5, <2>1, <2>2, EmitVisible DEF Role
<1>6. CASE \E event \in Events : ReadDelta(s, event)
    <2>1. PICK event \in Events : ReadDelta(s, event)
        BY <1>6
    <2>2. /\ result[s] \in Result /\ received[s] \in Seq(Chunk)
          /\ Tally(result[s], received[s])
        BY <1>1, <2>1 DEF ReadDelta, Typed, Told
    <2> DEFINE chunk == DeltaChunk(event, Absorb(result[s], event))
    <2>3. chunk \in Chunk /\ chunk.kind \in {"text", "reasoning", "tool"}
        BY <2>1, <2>2, TallyDelta DEF ReadDelta
    <2>4. result'[s] = Absorb(result[s], event)
        BY <1>1, <2>1 DEF ReadDelta, Typed
    <2>5. Emit(s, chunk, "read") /\ UNCHANGED closed /\ pc[s] = "read"
        BY <2>1, <2>4 DEF ReadDelta
    <2> HIDE DEF chunk
    <2> QED BY <1>3, <2>3, <2>5, EmitVisible
<1>7. CASE Finish(s)
    <2> DEFINE chunk == [kind |-> "finish", reason |-> FinishReason(result[s])]
               next == IF wantsUsage[s] THEN "usage" ELSE "close"
    <2>1. /\ result[s] \in Result /\ received[s] \in Seq(Chunk)
          /\ Places(received[s], "finish") = {}
        BY <1>1, <1>7 DEF Finish, Typed, Told
    <2>2. chunk \in Chunk /\ chunk.kind = "finish"
        BY <2>1, ReasonAppend
    <2>3. Stage(s) = "content"
        BY <1>1, <1>2, <1>7, StageKnown DEF Finish
    <2>4. Emit(s, chunk, next) /\ UNCHANGED closed /\ pc[s] = "finish"
        BY <1>7 DEF Finish
    <2>5. next \in PCs /\ next \notin {"idle", "refused"}
        BY <1>3
    <2> HIDE DEF chunk, next
    <2> QED BY <2>2, <2>3, <2>4, <2>5, EmitVisible
<1>8. CASE Usage(s)
    <2> DEFINE chunk == [kind |-> "usage", usage |-> usagePayload(result[s].usage, 0)]
    <2>1. /\ result[s] \in Result /\ received[s] \in Seq(Chunk)
          /\ ReasonAt(result[s], received[s], Len(received[s]))
          /\ Places(received[s], "usage") = {}
        BY <1>1, <1>8 DEF Usage, Typed, Told
    <2>2. chunk \in Chunk /\ chunk.kind = "usage"
        BY <2>1, UsageLast
    <2>3. Stage(s) = "finished"
        BY <1>1, <1>2, <1>8, StageKnown DEF Usage
    <2>4. Emit(s, chunk, "close") /\ UNCHANGED closed /\ pc[s] = "usage"
        BY <1>8 DEF Usage
    <2> HIDE DEF chunk
    <2> QED BY <1>3, <2>2, <2>3, <2>4, EmitVisible
<1>9. CASE CallUpstream(s) \/ UpstreamFails(s) \/ ReadEnd(s)
           \/ \E event \in Events : ReadFinish(s, event)
    <2>1. /\ pc[s] \in {"call", "read"} /\ pc'[s] \in {"read", "failed", "finish"}
          /\ received' = received /\ closed' = closed
        BY <1>1, <1>9 DEF CallUpstream, UpstreamFails, ReadEnd, ReadFinish, Typed
    <2>2. Stage(s)' = Stage(s)
        BY <1>2, <2>1, StageStays
    <2>3. Outcome(s)' = Outcome(s)
        BY <2>1 DEF Outcome
    <2> QED BY <2>2, <2>3 DEF Visible
<1>10. CASE Close(s)
    <2> DEFINE outcome == IF pc[s] = "close" THEN "clean" ELSE "error"
    <2>1. pc[s] \in {"close", "failed"} /\ pc'[s] = "done" /\ received' = received
        BY <1>1, <1>10 DEF Close, Typed
    <2>2. closed[s] = <<>> /\ Outcome(s) = "open"
        BY <1>1, <2>1 DEF Typed, Outcome
    <2>3. closed'[s] \in {<<>>, <<outcome>>}
        <3>1. \A x : Append(<<>>, x) = <<x>>
            OBVIOUS
        <3>2. closed' \in {closed, [closed EXCEPT ![s] = Append(closed[s], outcome)]}
            BY <1>10 DEF Close
        <3> HIDE DEF outcome
        <3>3. Append(closed[s], outcome) = <<outcome>>
            BY <2>2, <3>1
        <3> QED BY <1>1, <2>2, <3>2, <3>3 DEF Typed
    <2>4. Stage(s)' = Stage(s) /\ Stage(s) # "idle"
        BY <1>1, <1>2, <2>1, StageStays, StageKnown
    <2>5. pc[s] = "close" => Stage(s) \in {"finished", "usage"}
        BY <1>1, <1>2, StageKnown
    <2>6. Outcome(s)' \in {"open", outcome}
        <3>1. <<outcome>> # <<>> /\ <<outcome>>[1] = outcome
            OBVIOUS
        <3> HIDE DEF outcome
        <3> QED BY <2>3, <3>1 DEF Outcome
    <2> QED BY <2>1, <2>2, <2>4, <2>5, <2>6 DEF Visible, Moves
<1> QED BY <1>4, <1>5, <1>6, <1>7, <1>8, <1>9, <1>10 DEF Work

\* What the host sees of all streams, as the contract's two variables.
StageMap == [s \in Streams |-> Stage(s)]
OutcomeMap == [s \in Streams |-> Outcome(s)]

\* A visible step of one stream is a step of the contract.
LEMMA VisibleIsContract ==
    ASSUME NEW s \in Streams, Visible(s),
           \A t \in Streams \ {s} : Stage(t)' = Stage(t) /\ Outcome(t)' = Outcome(t)
    PROVE  [Contract!ContractNext]_(Contract!contractVars)
<1>1. StageMap' = [StageMap EXCEPT ![s] = Stage(s)']
    BY DEF StageMap
<1>2. OutcomeMap' = [OutcomeMap EXCEPT ![s] = Outcome(s)']
    BY DEF OutcomeMap
<1>3. StageMap[s] = Stage(s) /\ OutcomeMap[s] = Outcome(s)
    BY DEF StageMap, OutcomeMap
<1>4. /\ Stage(s)' = Stage(s) => StageMap' = StageMap
      /\ Outcome(s)' = Outcome(s) => OutcomeMap' = OutcomeMap
    BY DEF StageMap, OutcomeMap
<1>5. CASE Outcome(s) = "open" /\ Outcome(s)' = "open" /\ Moves(Stage(s), Stage(s)')
    <2>1. CASE Stage(s)' = Stage(s)
        BY <1>4, <1>5, <2>1 DEF Contract!contractVars, StageMap, OutcomeMap, Outcome
    <2>2. CASE <<Stage(s), Stage(s)'>> \in {<<"idle", "accepted">>, <<"accepted", "content">>,
                                            <<"content", "finished">>, <<"finished", "usage">>}
        BY <1>1, <1>3, <1>4, <1>5, <2>2
           DEF Contract!ContractNext, Contract!Advance, StageMap, OutcomeMap, Outcome
    <2> QED BY <1>5, <2>1, <2>2 DEF Moves
<1>6. CASE /\ Outcome(s) = "open" /\ Outcome(s)' = "clean"
           /\ Stage(s) \in {"finished", "usage"} /\ Stage(s)' = Stage(s)
    BY <1>2, <1>3, <1>4, <1>6
       DEF Contract!ContractNext, Contract!CloseClean, StageMap, OutcomeMap, Outcome
<1>7. CASE /\ Outcome(s) = "open" /\ Outcome(s)' = "error"
           /\ Stage(s) # "idle" /\ Stage(s)' = Stage(s)
    BY <1>2, <1>3, <1>4, <1>7
       DEF Contract!ContractNext, Contract!CloseError, StageMap, OutcomeMap, Outcome
<1>8. CASE Outcome(s)' = Outcome(s) /\ Stage(s)' = Stage(s)
    BY <1>4, <1>8 DEF Contract!contractVars, StageMap, OutcomeMap, Outcome
<1> QED BY <1>5, <1>6, <1>7, <1>8 DEF Visible

\* Every step of the producer is a step of the contract, or not seen.
LEMMA ContractStep ==
    ASSUME Inv, [Next]_vars
    PROVE  [Contract!ContractNext]_(Contract!contractVars)
<1>1. CASE Next
    <2>1. PICK s \in Streams : Accept(s) \/ Refuse(s) \/ Work(s)
        BY <1>1 DEF Next
    <2>2. Visible(s)
        BY <2>1, WorkVisible
    <2>3. OthersKept(s)
        BY <2>1, RoleSound, MovesSound, DeltaSound, ReadFinishSound, ReadEndSound,
           FinishSound, UsageSound, CloseSound DEF Work
    <2>4. \A t \in Streams \ {s} : Stage(t)' = Stage(t) /\ Outcome(t)' = Outcome(t)
        BY <2>3 DEF OthersKept, Stage, Outcome
    <2> QED BY <2>2, <2>4, VisibleIsContract
<1>2. CASE UNCHANGED vars
    <2>1. \A s \in Streams : Stage(s)' = Stage(s)
        BY <1>2 DEF vars, Stage
    <2>2. closed' = closed
        BY <1>2 DEF vars
    <2> QED BY <2>1, <2>2 DEF Contract!contractVars
<1> QED BY <1>1, <1>2

LEMMA ContractStart == Init => Contract!ContractInit
<1> SUFFICES ASSUME Init PROVE Contract!ContractInit
    OBVIOUS
<1>1. \A s \in Streams : Stage(s) = "idle" /\ closed[s] = <<>>
    BY DEF Init, Stage
<1> QED BY <1>1 DEF Contract!ContractInit

\* The producer keeps the contract of StreamContract: what a host sees of any stream is
\* the role, content, one finish reason, the usage if asked for and a clean close, or at
\* any point before an error.
THEOREM ContractKept == Spec => KeepsContract
<1>1. Spec => Contract!ContractInit /\ [][Contract!ContractNext]_(Contract!contractVars)
    BY ContractStart, ContractStep, InvHolds, PTL DEF Spec
<1> QED BY <1>1 DEF KeepsContract, Contract!ContractSpec
=============================================================================

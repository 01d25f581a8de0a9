--------------------------- MODULE ResponsesStream ---------------------------
(***************************************************************************)
(* A Responses-API stream (src/responses.go produceResponses with the      *)
(* event loop of callUpstream).  One upstream event makes several numbered *)
(* stream events: opening the text item takes three, a tool call four.     *)
(* They are emitted one host call at a time (todo), and the first call     *)
(* that fails ends the stream with an error.  The text item stays open     *)
(* while tool calls pass by and is closed at the end of the answer.        *)
(*                                                                         *)
(* MaxEvents bounds the deltas and calls of an upstream answer.  Reasoning *)
(* is not streamed in this format.                                         *)
(***************************************************************************)
EXTENDS UpstreamEvents, Integers, FiniteSets

CONSTANTS MaxEvents

ASSUME EventsAssumption == MaxEvents \in Nat

VARIABLES
    pc,
    result,     \* upstreamResult
    out,        \* the output items so far, "message" or "call"
    todo,       \* events the current upstream event still has to emit
    seq,        \* the next sequence_number
    received,   \* events the host has received
    closed      \* close calls made: <<>>, <<"clean">> or <<"error">>

vars == <<pc, result, out, todo, seq, received, closed>>

Kinds == {"created", "in_progress", "item_added", "part_added", "text_delta", "text_done",
          "part_done", "args_delta", "args_done", "item_done", "completed", "incomplete"}

\* An event before it has its number.  Response events have no output_index: 0 here.
Pending == [kind : Kinds, index : Nat]

On(index, kinds) == [i \in DOMAIN kinds |-> [kind |-> kinds[i], index |-> index]]

Init ==
    /\ pc = "start"
    /\ result = NoResult
    /\ out = <<>>
    /\ todo = <<>>
    /\ seq = 0
    /\ received = <<>>
    /\ closed = <<>>

\* Key and payload are usable: the response is announced.
Begin ==
    /\ pc = "start"
    /\ pc' = "call"
    /\ todo' = On(0, <<"created", "in_progress">>)
    /\ UNCHANGED <<result, out, seq, received, closed>>

\* No key or an unusable payload at the start; an upstream failure later on, in the call
\* or between two events.
Fail ==
    /\ pc \in {"start", "call", "read"}
    /\ todo = <<>>
    /\ pc' = "failed"
    /\ UNCHANGED <<result, out, todo, seq, received, closed>>

CallUpstream ==
    /\ pc = "call"
    /\ todo = <<>>
    /\ pc' = "read"
    /\ UNCHANGED <<result, out, todo, seq, received, closed>>

\* event and emit: the number is used up whether or not the host takes the event.
Number(pending) == [kind |-> pending.kind, index |-> pending.index, seq |-> seq]

\* Mutant: an event the host refused is skipped.
EmitNextSkips ==
    /\ pc # "failed"
    /\ todo # <<>>
    /\ seq' = seq + 1
    /\ received' \in {received, Append(received, Number(Head(todo)))}
    /\ todo' = Tail(todo)
    /\ UNCHANGED <<pc, result, out, closed>>

EmitNext ==
    /\ pc # "failed"
    /\ todo # <<>>
    /\ seq' = seq + 1
    /\ \/ /\ received' = Append(received, Number(Head(todo)))
          /\ todo' = Tail(todo)
          /\ UNCHANGED pc
       \/ /\ received' \in {received, Append(received, Number(Head(todo)))}
          /\ todo' = <<>>
          /\ pc' = "failed"
    /\ UNCHANGED <<result, out, closed>>

Reading == pc = "read" /\ todo = <<>>
Within == result.text + result.tools < MaxEvents

\* The zero-based place of the text item.
TextIndex == (CHOOSE i \in DOMAIN out : out[i] = "message") - 1

TextOpen == \E i \in DOMAIN out : out[i] = "message"

\* The first text delta opens the text item behind the items so far.
ReadFirstText ==
    /\ Reading /\ Within /\ ~TextOpen
    /\ result' = Absorb(result, [type |-> "text-delta"])
    /\ out' = Append(out, "message")
    /\ todo' = On(Len(out), <<"item_added", "part_added", "text_delta">>)
    /\ UNCHANGED <<pc, seq, received, closed>>

ReadText ==
    /\ Reading /\ Within /\ TextOpen
    /\ result' = Absorb(result, [type |-> "text-delta"])
    /\ todo' = On(TextIndex, <<"text_delta">>)
    /\ UNCHANGED <<pc, out, seq, received, closed>>

\* Mutant: the index is read after the item was appended.
ReadToolCallLate ==
    /\ Reading /\ Within
    /\ result' = Absorb(result, [type |-> "tool-call"])
    /\ out' = Append(out, "call")
    /\ todo' = On(Len(out'), <<"item_added", "args_delta", "args_done", "item_done">>)
    /\ UNCHANGED <<pc, seq, received, closed>>

ReadToolCall ==
    /\ Reading /\ Within
    /\ result' = Absorb(result, [type |-> "tool-call"])
    /\ out' = Append(out, "call")
    /\ todo' = On(Len(out), <<"item_added", "args_delta", "args_done", "item_done">>)
    /\ UNCHANGED <<pc, seq, received, closed>>

ReadFinish ==
    /\ Reading
    /\ \E event \in Events :
          /\ event.type = "finish"
          /\ result' = Absorb(result, event)
    /\ UNCHANGED <<pc, out, todo, seq, received, closed>>

\* markResponseLimit
Status(r) == IF r.finish = "length" THEN "incomplete" ELSE "completed"

\* Mutant: the text item is left open.
ReadEndOpen ==
    /\ Reading
    /\ pc' = "ending"
    /\ result' = Returned(result)
    /\ todo' = On(0, <<Status(result')>>)
    /\ UNCHANGED <<out, seq, received, closed>>

\* The answer has ended: close the text item, then the response.
ReadEnd ==
    /\ Reading
    /\ pc' = "ending"
    /\ result' = Returned(result)
    /\ todo' = (IF TextOpen THEN On(TextIndex, <<"text_done", "part_done", "item_done">>)
                ELSE <<>>) \o On(0, <<Status(result')>>)
    /\ UNCHANGED <<out, seq, received, closed>>

\* Mutant: a failed stream is left open.
CloseSuccess ==
    /\ closed = <<>>
    /\ pc = "ending" /\ todo = <<>> /\ closed' = <<"clean">>
    /\ pc' = "done"
    /\ UNCHANGED <<result, out, todo, seq, received>>

Close ==
    /\ closed = <<>>
    /\ \/ pc = "ending" /\ todo = <<>> /\ closed' = <<"clean">>
       \/ pc = "failed" /\ closed' = <<"error">>
    /\ pc' = "done"
    /\ UNCHANGED <<result, out, todo, seq, received>>

Next ==
    \/ Begin \/ Fail \/ CallUpstream \/ EmitNext
    \/ ReadFirstText \/ ReadText \/ ReadToolCall \/ ReadFinish \/ ReadEnd
    \/ Close

Spec == Init /\ [][Next]_vars

\* The goroutine runs; the client's timeout ends an upstream answer that does not end.
FairSpec == Spec /\ WF_vars(Next) /\ WF_vars(ReadEnd \/ Fail)
-----------------------------------------------------------------------------
\* The variables keep their types.
TypeOK ==
    /\ pc \in {"start", "call", "read", "ending", "failed", "done"}
    /\ result \in Result
    /\ \A i \in DOMAIN out : out[i] \in {"message", "call"}
    /\ \A i \in DOMAIN todo : todo[i] \in Pending
    /\ seq \in Nat
    /\ \A i \in DOMAIN received : received[i] \in [kind : Kinds, index : Nat, seq : Nat]
    /\ closed \in {<<>>, <<"clean">>, <<"error">>}

Positions(kind, index) ==
    {i \in DOMAIN received : received[i].kind = kind /\ received[i].index = index}

\* The host sees the numbers 0, 1, 2, ... without a gap, up to the end of a clean stream
\* and up to the failure of a broken one.
NumbersConsecutive == \A i \in DOMAIN received : received[i].seq = i - 1

\* Everything about an output item happens after it was added and before it is done,
\* with calls and text deltas interleaved in any way, and no item is opened twice.
ItemsBracketed ==
    \A i \in DOMAIN received :
        LET e == received[i] IN
        e.kind \in {"part_added", "text_delta", "text_done", "part_done", "args_delta",
                    "args_done", "item_done"} =>
            /\ Cardinality(Positions("item_added", e.index)) = 1
            /\ \A j \in Positions("item_added", e.index) : j < i
            /\ \A j \in Positions("item_done", e.index) : i <= j

\* buildExecutorCompletion: the items of the same answer without streaming.
CompletionItems(r) == (IF r.text > 0 THEN <<"message">> ELSE <<>>) \o [i \in 1 .. r.tools |-> "call"]

\* A clean stream is complete: it ends with the one terminal event, the items it opened
\* are exactly those of the final response, each closed once, and these are the items of
\* the unstreamed response (the message stands where its first delta came).
CleanMeansComplete ==
    closed = <<"clean">> =>
        /\ received[Len(received)].kind = Status(result)
        /\ Cardinality({i \in DOMAIN received : received[i].kind \in {"completed", "incomplete"}}) = 1
        /\ \A kind \in {"item_added", "item_done"} :
              /\ \A index \in 0 .. Len(out) - 1 : Cardinality(Positions(kind, index)) = 1
              /\ Cardinality({i \in DOMAIN received : received[i].kind = kind}) = Len(out)
        /\ \A item \in {"message", "call"} :
              Cardinality({i \in DOMAIN out : out[i] = item})
                  = Cardinality({i \in DOMAIN CompletionItems(result) : CompletionItems(result)[i] = item})

\* Every stream is closed in the end.
StreamsEnd == <>(closed # <<>>)
=============================================================================

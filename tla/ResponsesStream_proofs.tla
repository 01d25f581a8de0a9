----------------------- MODULE ResponsesStream_proofs -----------------------
(***************************************************************************)
(* For every upstream answer and every point at which the host or the      *)
(* upstream fails: the types of a Responses-API stream, the numbers of its *)
(* events, the bracketing of its items, and that a stream closed without   *)
(* an error told the host everything.  The proofs look at the plan of the  *)
(* stream: the events received followed by those still to emit.  Reading   *)
(* an upstream event adds a chunk to it, the host's answers leave it as it *)
(* is, and a failure cuts it short.                                        *)
(***************************************************************************)
EXTENDS ResponsesStream, UpstreamEvents_proofs, SequenceTheorems, FiniteSetTheorems,
        FunctionTheorems, TLAPS

\* An event the host has received.
Sent == [kind : Kinds, index : Nat, seq : Nat]

\* TypeOK, with the sequences told apart from other functions.
Typed ==
    /\ pc \in {"start", "call", "read", "ending", "failed", "done"}
    /\ result \in Result
    /\ out \in Seq({"message", "call"})
    /\ todo \in Seq(Pending)
    /\ seq \in Nat
    /\ received \in Seq(Sent)
    /\ closed \in {<<>>, <<"clean">>, <<"error">>}

\* The events of one upstream event are as many as their kinds, all for one item.
LEMMA OnTyped ==
    ASSUME NEW index \in Nat, NEW kinds \in Seq(Kinds)
    PROVE  /\ On(index, kinds) \in Seq(Pending) /\ Len(On(index, kinds)) = Len(kinds)
           /\ \A i \in 1 .. Len(kinds) : On(index, kinds)[i].kind = kinds[i]
                                         /\ On(index, kinds)[i].index = index
<1>1. On(index, kinds) = [i \in 1 .. Len(kinds) |-> [kind |-> kinds[i], index |-> index]]
    BY DEF On
<1>2. \A i \in 1 .. Len(kinds) : [kind |-> kinds[i], index |-> index] \in Pending
    BY DEF Pending
<1>3. Len(kinds) \in Nat
    OBVIOUS
<1> QED BY <1>1, <1>2, <1>3, IsASeq

\* The text item, once opened, has a place.
LEMMA TextPlace ==
    ASSUME Typed, TextOpen
    PROVE  TextIndex \in Nat /\ TextIndex < Len(out) /\ out[TextIndex + 1] = "message"
<1> DEFINE place == CHOOSE i \in DOMAIN out : out[i] = "message"
<1>1. place \in DOMAIN out /\ out[place] = "message"
    BY DEF TextOpen
<1>2. DOMAIN out = 1 .. Len(out) /\ Len(out) \in Nat
    BY DEF Typed
<1>3. TextIndex = place - 1
    BY DEF TextIndex
<1> HIDE DEF place
<1> QED BY <1>1, <1>2, <1>3

\* The kinds of event that one upstream event makes.
TextOpening == <<"item_added", "part_added", "text_delta">>
CallEvents == <<"item_added", "args_delta", "args_done", "item_done">>
TextClosing == <<"text_done", "part_done", "item_done">>

LEMMA KindsTyped ==
    /\ TextOpening \in Seq(Kinds) /\ CallEvents \in Seq(Kinds) /\ TextClosing \in Seq(Kinds)
    /\ <<"created", "in_progress">> \in Seq(Kinds) /\ <<"text_delta">> \in Seq(Kinds)
    /\ \A r : <<Status(r)>> \in Seq(Kinds)
BY DEF TextOpening, CallEvents, TextClosing, Kinds, Status

\* Every step keeps the types.
LEMMA TypedStep ==
    ASSUME Typed, [Next]_vars
    PROVE  Typed'
<1> USE DEF Typed
<1>1. CASE Begin
    <2>1. On(0, <<"created", "in_progress">>) \in Seq(Pending)
        BY OnTyped, KindsTyped
    <2> QED BY <1>1, <2>1 DEF Begin
<1>2. CASE Fail
    BY <1>2 DEF Fail
<1>3. CASE CallUpstream
    BY <1>3 DEF CallUpstream
<1>4. CASE EmitNext
    <2>1. Head(todo) \in Pending /\ Tail(todo) \in Seq(Pending) /\ seq' \in Nat
        BY <1>4 DEF EmitNext
    <2>2. Number(Head(todo)) \in Sent
        BY <2>1 DEF Number, Pending, Sent
    <2>3. /\ received' \in Seq(Sent)
          /\ todo' \in Seq(Pending)
        <3> DEFINE sent == Append(received, Number(Head(todo)))
        <3>1. sent \in Seq(Sent)
            BY <2>2, AppendProperties
        <3>2. <<>> \in Seq(Pending)
            OBVIOUS
        <3>3. received' \in {received, sent} /\ todo' \in {<<>>, Tail(todo)}
            BY <1>4 DEF EmitNext
        <3> HIDE DEF sent
        <3> QED BY <2>1, <3>1, <3>2, <3>3
    <2> QED BY <1>4, <2>1, <2>3 DEF EmitNext
<1>5. CASE ReadFirstText
    <2>1. /\ On(Len(out), TextOpening) \in Seq(Pending)
          /\ Append(out, "message") \in Seq({"message", "call"})
        BY OnTyped, KindsTyped, AppendProperties
    <2>2. Absorb(result, [type |-> "text-delta"]) \in Result
        BY AbsorbTyped DEF Events
    <2> QED BY <1>5, <2>1, <2>2 DEF ReadFirstText, TextOpening
<1>6. CASE ReadText
    <2>1. On(TextIndex, <<"text_delta">>) \in Seq(Pending)
        BY <1>6, TextPlace, OnTyped, KindsTyped DEF ReadText
    <2>2. Absorb(result, [type |-> "text-delta"]) \in Result
        BY AbsorbTyped DEF Events
    <2> QED BY <1>6, <2>1, <2>2 DEF ReadText
<1>7. CASE ReadToolCall
    <2>1. /\ On(Len(out), CallEvents) \in Seq(Pending)
          /\ Append(out, "call") \in Seq({"message", "call"})
        BY OnTyped, KindsTyped, AppendProperties
    <2>2. Absorb(result, [type |-> "tool-call"]) \in Result
        BY AbsorbTyped DEF Events
    <2> QED BY <1>7, <2>1, <2>2 DEF ReadToolCall, CallEvents
<1>8. CASE ReadFinish
    BY <1>8, AbsorbTyped DEF ReadFinish
<1>9. CASE ReadEnd
    <2> DEFINE last == On(0, <<Status(result')>>)
               closing == IF TextOpen THEN On(TextIndex, TextClosing) ELSE <<>>
    <2>1. last \in Seq(Pending)
        BY OnTyped, KindsTyped
    <2>2. closing \in Seq(Pending)
        BY TextPlace, OnTyped, KindsTyped
    <2>3. todo' = closing \o last
        BY <1>9 DEF ReadEnd, TextClosing
    <2>4. todo' \in Seq(Pending)
        <3> HIDE DEF closing, last
        <3> QED BY <2>1, <2>2, <2>3
    <2>5. result' \in Result
        <3>1. result' = Returned(result)
            BY <1>9 DEF ReadEnd
        <3> QED BY <3>1 DEF Returned, Result, Reasons
    <2> QED BY <1>9, <2>4, <2>5 DEF ReadEnd
<1>10. CASE Close
    BY <1>10 DEF Close
<1>11. CASE UNCHANGED vars
    BY <1>11 DEF vars
<1> QED BY <1>1, <1>2, <1>3, <1>4, <1>5, <1>6, <1>7, <1>8, <1>9, <1>10, <1>11 DEF Next

LEMMA TypedHolds == Spec => []Typed
<1>1. NoResult \in Result
    BY DEF NoResult, Result
<1>2. ASSUME NEW S PROVE <<>> \in Seq(S)
    OBVIOUS
<1>3. Init => Typed
    BY <1>1, <1>2 DEF Init, Typed
<1> QED BY <1>3, TypedStep, PTL DEF Spec

\* The variables keep their types, whatever the upstream sends and wherever it stops.
THEOREM TypeCorrect == Spec => []TypeOK
<1>1. ASSUME NEW S, NEW s \in Seq(S) PROVE \A i \in DOMAIN s : s[i] \in S
    OBVIOUS
<1>2. Typed => TypeOK
    BY <1>1, Zenon DEF Typed, TypeOK, Sent
<1> QED BY <1>2, TypedHolds, PTL

-----------------------------------------------------------------------------
\* No number is skipped while the stream can go on, and nothing follows its end.
Numbered ==
    /\ \A i \in 1 .. Len(received) : received[i].seq = i - 1
    /\ pc \in {"start", "failed", "done"} => todo = <<>>
    /\ pc \notin {"failed", "done"} => Len(received) = seq
    /\ closed # <<>> => pc = "done"

LEMMA NumberedStep ==
    ASSUME Typed, Numbered, [Next]_vars
    PROVE  Numbered'
<1>1. CASE EmitNext
    <2> DEFINE sent == Append(received, Number(Head(todo)))
    <2>1. pc \notin {"start", "failed", "done"} /\ Len(received) = seq
        BY <1>1 DEF EmitNext, Numbered
    <2>2. /\ Len(sent) = Len(received) + 1
          /\ \A i \in 1 .. Len(received) : sent[i] = received[i]
          /\ sent[Len(received) + 1] = Number(Head(todo))
        BY DEF Typed
    <2>3. Number(Head(todo)).seq = seq
        BY DEF Number
    <2>4. \A i \in 1 .. Len(sent) : sent[i].seq = i - 1
        <3>1. \A i \in 1 .. Len(received) : received[i].seq = i - 1
            BY DEF Numbered
        <3>2. Len(received) \in Nat
            BY DEF Typed
        <3> DEFINE n == Len(received)
        <3> HIDE DEF sent, n
        <3>3. /\ n \in Nat /\ Len(sent) = n + 1 /\ seq = n /\ sent[n + 1].seq = seq
              /\ \A i \in 1 .. n : sent[i].seq = i - 1
            BY <2>1, <2>2, <2>3, <3>1, <3>2 DEF n
        <3> QED BY <3>3
    <2>5. /\ received' \in {received, sent} /\ closed' = closed /\ seq' = seq + 1
          /\ \/ received' = sent /\ pc' = pc
             \/ todo' = <<>> /\ pc' = "failed"
        BY <1>1 DEF EmitNext
    <2>6. Len(sent) = seq + 1 /\ closed = <<>>
        BY <2>1, <2>2 DEF Numbered
    <2>7. \A i \in 1 .. Len(received) : received[i].seq = i - 1
        BY DEF Numbered
    <2> HIDE DEF sent
    <2>8. CASE received' = sent /\ pc' = pc
        BY <2>1, <2>4, <2>5, <2>6, <2>8 DEF Numbered
    <2>9. CASE todo' = <<>> /\ pc' = "failed"
        BY <2>4, <2>5, <2>6, <2>7, <2>9 DEF Numbered
    <2> QED BY <2>5, <2>8, <2>9
<1>2. CASE Begin \/ Fail \/ CallUpstream \/ ReadFinish \/ Close
    BY <1>2 DEF Numbered, Typed, Begin, Fail, CallUpstream, ReadFinish, Close, Reading
<1>3. CASE ReadFirstText \/ ReadText \/ ReadToolCall \/ ReadEnd
    BY <1>3 DEF Numbered, Typed, ReadFirstText, ReadText, ReadToolCall, ReadEnd, Reading
<1>4. CASE UNCHANGED vars
    BY <1>4 DEF vars, Numbered
<1> QED BY <1>1, <1>2, <1>3, <1>4 DEF Next

LEMMA NumberedHolds == Spec => []Numbered
<1>1. Init => Numbered
    BY DEF Init, Numbered
<1> QED BY <1>1, NumberedStep, TypedHolds, PTL DEF Spec

\* The host sees 0, 1, 2, ... without a gap, however long the stream and wherever it breaks.
THEOREM Consecutive == Spec => []NumbersConsecutive
<1>1. Typed => DOMAIN received = 1 .. Len(received)
    BY DEF Typed
<1>2. Typed /\ Numbered => NumbersConsecutive
    BY <1>1 DEF Numbered, NumbersConsecutive
<1> QED BY <1>2, TypedHolds, NumberedHolds, PTL

-----------------------------------------------------------------------------
(* The plan of a stream: what the host has received and what the current upstream event    *)
(* still has to emit.                                                                      *)

Plain(e) == [kind |-> e.kind, index |-> e.index]
Plan(past, rest) == [i \in 1 .. Len(past) |-> Plain(past[i])] \o rest
Planned == Plan(received, todo)

\* The events that belong to an item, its opening aside.
ItemKinds == {"part_added", "text_delta", "text_done", "part_done", "args_delta", "args_done",
              "item_done"}

\* The plan has an event of this kind for this item.
Has(plan, kind, index) ==
    \E i \in 1 .. Len(plan) : plan[i].kind = kind /\ plan[i].index = index

\* Every event of an item has the opening of the item before it; an item is opened once;
\* its item_done is its last event.
Bracketed(plan) ==
    /\ \A i \in 1 .. Len(plan) : plan[i].kind \in ItemKinds =>
          \E j \in 1 .. i - 1 : plan[j].kind = "item_added" /\ plan[j].index = plan[i].index
    /\ \A i, j \in 1 .. Len(plan) :
          plan[i].kind = "item_added" /\ plan[j].kind = "item_added"
              /\ plan[i].index = plan[j].index => i = j
    /\ \A i, j \in 1 .. Len(plan) :
          plan[i].kind \in ItemKinds /\ plan[j].kind = "item_done"
              /\ plan[i].index = plan[j].index => i <= j

\* More events for one item keep a plan bracketed: the opening comes first and only for a
\* new item, the others only for an open one, the closing last.
LEMMA BracketedAppend ==
    ASSUME NEW plan \in Seq(Pending), Bracketed(plan),
           NEW index \in Nat, NEW kinds \in Seq(Kinds),
           \A i \in 1 .. Len(kinds) : kinds[i] = "item_added" =>
               i = 1 /\ ~Has(plan, "item_added", index),
           \A i \in 1 .. Len(kinds) : kinds[i] \in ItemKinds =>
               /\ Has(plan, "item_added", index) \/ (i > 1 /\ kinds[1] = "item_added")
               /\ ~Has(plan, "item_done", index),
           \A i \in 1 .. Len(kinds) : kinds[i] = "item_done" => i = Len(kinds)
    PROVE  Bracketed(plan \o On(index, kinds))
<1> DEFINE chunk == On(index, kinds)
           longer == plan \o chunk
           n == Len(plan)
           m == Len(kinds)
<1>1. chunk \in Seq(Pending) /\ Len(chunk) = m
      /\ \A i \in 1 .. m : chunk[i].kind = kinds[i] /\ chunk[i].index = index
    BY OnTyped
<1>2. /\ n \in Nat /\ m \in Nat /\ Len(longer) = n + m
      /\ \A i \in 1 .. n : longer[i] = plan[i]
      /\ \A i \in n + 1 .. n + m : longer[i] = chunk[i - n]
    BY <1>1
<1>3. \A i \in n + 1 .. n + m :
        i - n \in 1 .. m /\ longer[i].kind = kinds[i - n] /\ longer[i].index = index
    BY <1>1, <1>2
<1> HIDE DEF chunk, longer, n, m
<1>4. /\ \A i \in 1 .. n : plan[i].kind \in ItemKinds =>
            \E j \in 1 .. i - 1 : plan[j].kind = "item_added" /\ plan[j].index = plan[i].index
      /\ \A i, j \in 1 .. n :
            plan[i].kind = "item_added" /\ plan[j].kind = "item_added"
                /\ plan[i].index = plan[j].index => i = j
      /\ \A i, j \in 1 .. n :
            plan[i].kind \in ItemKinds /\ plan[j].kind = "item_done"
                /\ plan[i].index = plan[j].index => i <= j
    BY DEF Bracketed, n
<1>5. ASSUME NEW i \in 1 .. n + m, longer[i].kind \in ItemKinds
      PROVE  \E j \in 1 .. i - 1 : longer[j].kind = "item_added" /\ longer[j].index = longer[i].index
    <2>1. CASE i \in 1 .. n
        <3>1. PICK j \in 1 .. i - 1 : plan[j].kind = "item_added" /\ plan[j].index = plan[i].index
            BY <1>2, <1>4, <1>5, <2>1
        <3>2. longer[j] = plan[j] /\ longer[i] = plan[i]
            BY <1>2, <2>1
        <3> QED BY <3>1, <3>2
    <2>2. CASE i \in n + 1 .. n + m
        <3>1. kinds[i - n] \in ItemKinds /\ longer[i].index = index
            BY <1>3, <1>5, <2>2
        <3>2. CASE Has(plan, "item_added", index)
            <4>1. PICK j \in 1 .. n : plan[j].kind = "item_added" /\ plan[j].index = index
                BY <3>2 DEF Has, n
            <4> QED BY <1>2, <2>2, <3>1, <4>1
        <3>3. CASE i - n > 1 /\ kinds[1] = "item_added"
            <4>0. n + 1 \in n + 1 .. n + m /\ (n + 1) - n = 1
                BY <1>2, <2>2
            <4>1. longer[n + 1].kind = "item_added" /\ longer[n + 1].index = index
                BY <1>3, <3>3, <4>0
            <4> QED BY <1>2, <2>2, <3>1, <3>3, <4>1
        <3> QED BY <1>3, <2>2, <3>1, <3>2, <3>3 DEF m
    <2> QED BY <1>2, <2>1, <2>2
<1>6. ASSUME NEW i \in n + 1 .. n + m, NEW j \in 1 .. n, longer[i].kind = "item_added",
             longer[j].kind = "item_added", longer[i].index = longer[j].index
      PROVE  FALSE
    BY <1>2, <1>3, <1>6 DEF Has, n, m
<1>7. ASSUME NEW i \in 1 .. n + m, NEW j \in 1 .. n + m, longer[i].kind = "item_added",
             longer[j].kind = "item_added", longer[i].index = longer[j].index
      PROVE  i = j
    <2>1. CASE i \in 1 .. n /\ j \in 1 .. n
        BY <1>2, <1>4, <1>7, <2>1
    <2>2. CASE i \in n + 1 .. n + m /\ j \in n + 1 .. n + m
        <3>1. kinds[i - n] = "item_added" /\ i - n \in 1 .. Len(kinds)
            BY <1>3, <1>7, <2>2 DEF m
        <3>2. kinds[j - n] = "item_added" /\ j - n \in 1 .. Len(kinds)
            BY <1>3, <1>7, <2>2 DEF m
        <3>3. i - n = 1 /\ j - n = 1
            BY <3>1, <3>2
        <3> QED BY <1>2, <2>2, <3>3
    <2> QED BY <1>2, <1>6, <1>7, <2>1, <2>2
<1>8. ASSUME NEW i \in 1 .. n + m, NEW j \in 1 .. n + m, longer[i].kind \in ItemKinds,
             longer[j].kind = "item_done", longer[i].index = longer[j].index
      PROVE  i <= j
    <2>1. CASE i \in 1 .. n /\ j \in 1 .. n
        BY <1>2, <1>4, <1>8, <2>1
    <2>2. CASE j \in n + 1 .. n + m
        <3>1. kinds[j - n] = "item_done" /\ j - n \in 1 .. Len(kinds)
            BY <1>3, <1>8, <2>2 DEF m
        <3>2. j - n = m
            BY <3>1 DEF m
        <3> QED BY <1>2, <2>2, <3>2
    <2>3. CASE i \in n + 1 .. n + m /\ j \in 1 .. n
        BY <1>2, <1>3, <1>8, <2>3 DEF Has, n, m
    <2> QED BY <1>2, <2>1, <2>2, <2>3
<1>9. Bracketed(longer)
    BY <1>2, <1>5, <1>7, <1>8 DEF Bracketed
<1> QED BY <1>9 DEF longer, chunk

\* A plan cut short stays bracketed.
LEMMA BracketedPrefix ==
    ASSUME NEW plan \in Seq(Pending), NEW cut \in Seq(Pending), Bracketed(plan),
           Len(cut) <= Len(plan), \A i \in 1 .. Len(cut) : cut[i] = plan[i]
    PROVE  Bracketed(cut)
<1>1. Len(cut) \in Nat /\ Len(plan) \in Nat /\ 1 .. Len(cut) \subseteq 1 .. Len(plan)
    OBVIOUS
<1>2. ASSUME NEW i \in 1 .. Len(cut), cut[i].kind \in ItemKinds
      PROVE  \E j \in 1 .. i - 1 : cut[j].kind = "item_added" /\ cut[j].index = cut[i].index
    <2>1. PICK j \in 1 .. i - 1 : plan[j].kind = "item_added" /\ plan[j].index = plan[i].index
        BY <1>1, <1>2 DEF Bracketed
    <2> QED BY <1>1, <2>1
<1>3. \A i, j \in 1 .. Len(cut) :
        cut[i].kind = "item_added" /\ cut[j].kind = "item_added"
            /\ cut[i].index = cut[j].index => i = j
    BY <1>1 DEF Bracketed
<1>4. \A i, j \in 1 .. Len(cut) :
        cut[i].kind \in ItemKinds /\ cut[j].kind = "item_done"
            /\ cut[i].index = cut[j].index => i <= j
    BY <1>1 DEF Bracketed
<1> QED BY <1>2, <1>3, <1>4 DEF Bracketed

\* What a plan has after more events.
LEMMA HasAppend ==
    ASSUME NEW plan \in Seq(Pending), NEW chunk \in Seq(Pending), NEW kind, NEW index
    PROVE  Has(plan \o chunk, kind, index) <=> Has(plan, kind, index) \/ Has(chunk, kind, index)
<1> DEFINE longer == plan \o chunk
           n == Len(plan)
           m == Len(chunk)
<1>1. /\ n \in Nat /\ m \in Nat /\ Len(longer) = n + m
      /\ \A i \in 1 .. n : longer[i] = plan[i]
      /\ \A i \in n + 1 .. n + m : longer[i] = chunk[i - n]
    OBVIOUS
<1> HIDE DEF longer, n, m
<1>2. ASSUME Has(longer, kind, index) PROVE Has(plan, kind, index) \/ Has(chunk, kind, index)
    <2>1. PICK i \in 1 .. n + m : longer[i].kind = kind /\ longer[i].index = index
        BY <1>1, <1>2 DEF Has
    <2>2. CASE i \in 1 .. n
        BY <1>1, <2>1, <2>2 DEF Has, n
    <2>3. CASE i \in n + 1 .. n + m
        <3>1. i - n \in 1 .. m
            BY <1>1, <2>3
        <3> QED BY <1>1, <2>1, <2>3, <3>1 DEF Has, m
    <2> QED BY <1>1, <2>1, <2>2, <2>3
<1>3. ASSUME Has(plan, kind, index) PROVE Has(longer, kind, index)
    BY <1>1, <1>3 DEF Has, n
<1>4. ASSUME Has(chunk, kind, index) PROVE Has(longer, kind, index)
    <2>1. PICK i \in 1 .. m : chunk[i].kind = kind /\ chunk[i].index = index
        BY <1>4 DEF Has, m
    <2>2. n + i \in n + 1 .. n + m /\ (n + i) - n = i /\ n + i \in 1 .. n + m
        BY <1>1
    <2>3. longer[n + i] = chunk[i]
        BY <1>1, <2>2
    <2> QED BY <1>1, <2>1, <2>2, <2>3 DEF Has
<1> QED BY <1>2, <1>3, <1>4 DEF longer

LEMMA HasOn ==
    ASSUME NEW index \in Nat, NEW kinds \in Seq(Kinds), NEW kind, NEW k
    PROVE  Has(On(index, kinds), kind, k) <=> k = index /\ \E i \in 1 .. Len(kinds) : kinds[i] = kind
<1>1. /\ Len(On(index, kinds)) = Len(kinds)
      /\ \A i \in 1 .. Len(kinds) : On(index, kinds)[i].kind = kinds[i]
                                    /\ On(index, kinds)[i].index = index
    BY OnTyped
<1> QED BY <1>1 DEF Has

LEMMA PlainTyped == \A e \in Sent : Plain(e) \in Pending
BY DEF Sent, Plain, Pending

\* A plan is a sequence, first what was received and then what is still to do.
LEMMA PlanTyped ==
    ASSUME NEW past \in Seq(Sent), NEW rest \in Seq(Pending)
    PROVE  /\ Plan(past, rest) \in Seq(Pending)
           /\ Len(Plan(past, rest)) = Len(past) + Len(rest)
           /\ \A i \in 1 .. Len(past) : Plan(past, rest)[i] = Plain(past[i])
           /\ \A i \in 1 .. Len(rest) : Plan(past, rest)[Len(past) + i] = rest[i]
<1> DEFINE plain == [i \in 1 .. Len(past) |-> Plain(past[i])]
<1>1. \A i \in 1 .. Len(past) : Plain(past[i]) \in Pending
    BY PlainTyped
<1>2. plain \in Seq(Pending) /\ Len(plain) = Len(past)
    BY <1>1, IsASeq
<1>3. \A i \in 1 .. Len(past) : plain[i] = Plain(past[i])
    OBVIOUS
<1>4. Plan(past, rest) = plain \o rest
    BY DEF Plan
<1> HIDE DEF plain
<1>5. plain \o rest \in Seq(Pending) /\ Len(plain \o rest) = Len(past) + Len(rest)
    BY <1>2
<1>6. \A i \in 1 .. Len(past) : (plain \o rest)[i] = plain[i]
    BY <1>2
<1>7. \A i \in 1 .. Len(rest) : (plain \o rest)[Len(past) + i] = rest[i]
    BY <1>2
<1> QED BY <1>3, <1>4, <1>5, <1>6, <1>7

\* Emitting an event moves along the plan and leaves it as it is.
LEMMA PlanEmits ==
    ASSUME NEW past \in Seq(Sent), NEW rest \in Seq(Pending), rest # <<>>,
           NEW e \in Sent, Plain(e) = Head(rest)
    PROVE  Plan(Append(past, e), Tail(rest)) = Plan(past, rest)
<1> DEFINE n == Len(past)
           m == Len(rest)
           longer == Append(past, e)
           tail == Tail(rest)
           before == Plan(past, rest)
           after == Plan(longer, tail)
<1>1. /\ n \in Nat /\ m \in Nat /\ m > 0 /\ Head(rest) = rest[1]
      /\ tail \in Seq(Pending) /\ Len(tail) = m - 1
      /\ \A i \in 1 .. m - 1 : tail[i] = rest[i + 1]
    OBVIOUS
<1>2. /\ longer \in Seq(Sent) /\ Len(longer) = n + 1 /\ longer[n + 1] = e
      /\ \A i \in 1 .. n : longer[i] = past[i]
    BY AppendProperties
<1>3. /\ before \in Seq(Pending) /\ Len(before) = n + m
      /\ \A i \in 1 .. n : before[i] = Plain(past[i])
      /\ \A i \in 1 .. m : before[n + i] = rest[i]
    BY PlanTyped
<1> HIDE DEF longer, tail
<1>4. /\ after \in Seq(Pending) /\ Len(after) = (n + 1) + (m - 1)
      /\ \A i \in 1 .. n + 1 : after[i] = Plain(longer[i])
      /\ \A i \in 1 .. m - 1 : after[(n + 1) + i] = tail[i]
    <2>1. /\ after \in Seq(Pending) /\ Len(after) = Len(longer) + Len(tail)
          /\ \A i \in 1 .. Len(longer) : after[i] = Plain(longer[i])
          /\ \A i \in 1 .. Len(tail) : after[Len(longer) + i] = tail[i]
        BY <1>1, <1>2, PlanTyped
    <2> HIDE DEF after, n, m
    <2> QED BY <1>1, <1>2, <2>1
<1> HIDE DEF before, after, n, m
<1>5. ASSUME NEW i \in 1 .. n + m PROVE after[i] = before[i]
    <2>1. CASE i \in 1 .. n
        BY <1>1, <1>2, <1>3, <1>4, <2>1
    <2>2. CASE i = n + 1
        <3>1. after[n + 1] = Plain(e)
            BY <1>1, <1>2, <1>4
        <3>2. before[n + 1] = rest[1]
            BY <1>1, <1>3
        <3> QED BY <1>1, <2>2, <3>1, <3>2
    <2>3. CASE i > n + 1
        <3> DEFINE j == i - (n + 1)
        <3>1. j \in 1 .. m - 1 /\ j + 1 \in 1 .. m /\ i = (n + 1) + j /\ i = n + (j + 1)
            BY <1>1, <2>3
        <3> HIDE DEF j
        <3>2. after[i] = rest[j + 1] /\ before[i] = rest[j + 1]
            BY <1>1, <1>3, <1>4, <3>1
        <3> QED BY <3>2
    <2> QED BY <1>1, <2>1, <2>2, <2>3
<1>6. Len(after) = Len(before)
    BY <1>1, <1>3, <1>4
<1>7. \A i \in 1 .. Len(after) : after[i] = before[i]
    BY <1>3, <1>5, <1>6
<1>8. after = before
    BY <1>3, <1>4, <1>6, <1>7, SeqEqual
<1> QED BY <1>8 DEF after, before, longer, tail

\* The part of a plan that was received is a prefix of it.
LEMMA PlanCut ==
    ASSUME NEW past \in Seq(Sent), NEW rest \in Seq(Pending)
    PROVE  /\ Len(Plan(past, <<>>)) <= Len(Plan(past, rest))
           /\ \A i \in 1 .. Len(Plan(past, <<>>)) : Plan(past, <<>>)[i] = Plan(past, rest)[i]
<1>1. <<>> \in Seq(Pending) /\ Len(<<>>) = 0
    BY EmptySeq
<1>2. Len(Plan(past, rest)) = Len(past) + Len(rest) /\ Len(past) \in Nat /\ Len(rest) \in Nat
    BY PlanTyped
<1>4. Len(Plan(past, <<>>)) = Len(past) + Len(<<>>)
    BY <1>1, PlanTyped
<1>3. \A i \in 1 .. Len(past) :
        Plan(past, <<>>)[i] = Plain(past[i]) /\ Plan(past, rest)[i] = Plain(past[i])
    BY <1>1, PlanTyped
<1> QED BY <1>1, <1>2, <1>3, <1>4

\* Reading an upstream event adds to a plan of which nothing is left to do.
LEMMA PlanReads ==
    ASSUME NEW past \in Seq(Sent), NEW rest \in Seq(Pending)
    PROVE  Plan(past, rest) = Plan(past, <<>>) \o rest
<1> DEFINE plain == [i \in 1 .. Len(past) |-> Plain(past[i])]
<1>1. \A i \in 1 .. Len(past) : Plain(past[i]) \in Pending
    BY PlainTyped
<1>2. plain \in Seq(Pending)
    BY <1>1, IsASeq
<1>3. Plan(past, <<>>) = plain \o <<>> /\ Plan(past, rest) = plain \o rest
    BY DEF Plan
<1> HIDE DEF plain
<1> QED BY <1>2, <1>3, ConcatEmptySeq

LEMMA PlannedTyped ==
    ASSUME Typed
    PROVE  Planned \in Seq(Pending)
BY PlanTyped DEF Planned, Typed

\* The host's answer to one event: the plan is kept, or the stream fails and it is cut short.
LEMMA Emitting ==
    ASSUME Typed, EmitNext
    PROVE  \/ Planned' = Planned /\ pc' = pc
           \/ /\ pc' = "failed" /\ Planned' \in Seq(Pending)
              /\ Len(Planned') <= Len(Planned)
              /\ \A i \in 1 .. Len(Planned') : Planned'[i] = Planned[i]
<1> DEFINE e == Number(Head(todo))
           sent == Append(received, e)
<1>1. /\ todo # <<>> /\ received \in Seq(Sent) /\ todo \in Seq(Pending)
      /\ Head(todo) \in Pending /\ Tail(todo) \in Seq(Pending)
    BY DEF Typed, EmitNext
<1>2. e \in Sent /\ Plain(e) = Head(todo)
    BY <1>1 DEF Number, Plain, Pending, Sent, Typed
<1>3. Plan(sent, Tail(todo)) = Planned
    BY <1>1, <1>2, PlanEmits DEF Planned
<1>4. sent \in Seq(Sent)
    BY <1>1, <1>2, AppendProperties
<1>5. \/ received' = sent /\ todo' = Tail(todo) /\ pc' = pc
      \/ received' \in {received, sent} /\ todo' = <<>> /\ pc' = "failed"
    BY DEF EmitNext
<1> HIDE DEF e, sent
<1>6. CASE received' = sent /\ todo' = Tail(todo) /\ pc' = pc
    BY <1>3, <1>6 DEF Planned
<1>7. CASE received' \in {received, sent} /\ todo' = <<>> /\ pc' = "failed"
    <2>1. PICK rest \in Seq(Pending) : Planned = Plan(received', rest)
        BY <1>1, <1>3, <1>7 DEF Planned
    <2>2. received' \in Seq(Sent) /\ Planned' = Plan(received', <<>>)
        BY <1>1, <1>4, <1>7 DEF Planned
    <2>3. Planned' \in Seq(Pending)
        BY <2>2, PlanTyped, EmptySeq
    <2>4. /\ Len(Planned') <= Len(Planned)
          /\ \A i \in 1 .. Len(Planned') : Planned'[i] = Planned[i]
        BY <2>1, <2>2, PlanCut
    <2> QED BY <1>7, <2>3, <2>4
<1> QED BY <1>5, <1>6, <1>7

LEMMA Adding ==
    ASSUME Typed, Typed', todo = <<>>, received' = received
    PROVE  Planned' = Planned \o todo'
<1>1. received \in Seq(Sent) /\ todo' \in Seq(Pending)
    BY DEF Typed
<1>2. Planned = Plan(received, <<>>) /\ Planned' = Plan(received, todo')
    BY DEF Planned
<1> QED BY <1>1, <1>2, PlanReads

\* The stream can still end well, or has done so.
Whole == pc \notin {"failed", "done"} \/ closed = <<"clean">>

\* Only items there are are opened, each of them is, and while the answer is read the
\* text item is not closed.
Opened ==
    /\ \A k \in Nat : Has(Planned, "item_added", k) => k < Len(out)
    /\ Whole => \A k \in 1 .. Len(out) : Has(Planned, "item_added", k - 1)
    /\ pc = "read" => \A k \in 1 .. Len(out) : Has(Planned, "item_done", k - 1) => out[k] = "call"
    /\ pc \in {"start", "call"} => out = <<>>

\* Nothing of an item that is not opened is planned.
LEMMA NothingAhead ==
    ASSUME Typed, Bracketed(Planned), Opened, NEW k \in Nat, k >= Len(out)
    PROVE  ~Has(Planned, "item_added", k) /\ ~Has(Planned, "item_done", k)
<1>1. Planned \in Seq(Pending) /\ Len(out) \in Nat
    BY PlanTyped DEF Planned, Typed
<1>2. ~Has(Planned, "item_added", k)
    BY <1>1 DEF Opened
<1>3. ~Has(Planned, "item_done", k)
    <2>1. ASSUME NEW i \in 1 .. Len(Planned), Planned[i].kind = "item_done", Planned[i].index = k
          PROVE  FALSE
        <3>1. \E j \in 1 .. i - 1 : Planned[j].kind = "item_added" /\ Planned[j].index = k
            BY <2>1 DEF Bracketed, ItemKinds
        <3>2. 1 .. i - 1 \subseteq 1 .. Len(Planned)
            BY <1>1
        <3> QED BY <1>2, <3>1, <3>2 DEF Has
    <2> QED BY <2>1 DEF Has
<1> QED BY <1>2, <1>3

\* What a plan has after the events of one item were added.
LEMMA HasMore ==
    ASSUME NEW plan \in Seq(Pending), NEW index \in Nat, NEW kinds \in Seq(Kinds),
           NEW kind, NEW k
    PROVE  Has(plan \o On(index, kinds), kind, k)
               <=> Has(plan, kind, k) \/ (k = index /\ \E i \in 1 .. Len(kinds) : kinds[i] = kind)
BY HasAppend, HasOn, OnTyped

\* Where an opening or a closing stands among the events of one upstream event.
LEMMA ChunkKinds ==
    /\ Len(TextOpening) = 3 /\ TextOpening[1] = "item_added"
    /\ \A i \in 2 .. 3 : TextOpening[i] \notin {"item_added", "item_done"}
    /\ Len(CallEvents) = 4 /\ CallEvents[1] = "item_added" /\ CallEvents[4] = "item_done"
    /\ \A i \in 2 .. 3 : CallEvents[i] \notin {"item_added", "item_done"}
    /\ Len(TextClosing) = 3 /\ TextClosing[3] = "item_done"
    /\ \A i \in 1 .. 2 : TextClosing[i] \notin {"item_added", "item_done"}
BY DEF TextOpening, CallEvents, TextClosing

\* What reading does to the plan.
LEMMA Openings ==
    ASSUME Typed, Typed', Numbered, Bracketed(Planned), Opened, ReadFirstText \/ ReadToolCall
    PROVE  Bracketed(Planned') /\ Opened'
<1> DEFINE n == Len(out)
<1>1. /\ pc = "read" /\ pc' = "read" /\ todo = <<>> /\ received' = received
      /\ n \in Nat /\ Planned \in Seq(Pending) /\ Planned' = Planned \o todo'
    <2>1. pc = "read" /\ pc' = "read" /\ todo = <<>> /\ received' = received
        BY DEF ReadFirstText, ReadToolCall, Reading
    <2> QED BY <2>1, Adding, PlannedTyped DEF Typed
<1>2. ~Has(Planned, "item_added", n) /\ ~Has(Planned, "item_done", n)
    BY <1>1, NothingAhead
<1>3. PICK kinds \in {TextOpening, CallEvents} :
        /\ todo' = On(n, kinds)
        /\ out' = Append(out, IF kinds = CallEvents THEN "call" ELSE "message")
    <2>1. TextOpening # CallEvents
        BY ChunkKinds
    <2> QED BY <2>1 DEF ReadFirstText, ReadToolCall, TextOpening, CallEvents
<1>4. /\ kinds \in Seq(Kinds) /\ kinds[1] = "item_added" /\ Len(kinds) \in {3, 4}
      /\ \A i \in 1 .. Len(kinds) : kinds[i] = "item_added" <=> i = 1
      /\ \A i \in 1 .. Len(kinds) : kinds[i] = "item_done" => i = Len(kinds) /\ kinds = CallEvents
    <2>1. CASE kinds = TextOpening
        <3>1. 1 .. Len(kinds) = {1} \cup 2 .. 3 /\ kinds # CallEvents
            BY <2>1, ChunkKinds
        <3> QED BY <2>1, <3>1, ChunkKinds, KindsTyped
    <2>2. CASE kinds = CallEvents
        <3>1. 1 .. Len(kinds) = {1, 4} \cup 2 .. 3
            BY <2>2, ChunkKinds
        <3> QED BY <2>2, <3>1, ChunkKinds, KindsTyped
    <2> QED BY <2>1, <2>2
<1>5. Bracketed(Planned')
    <2>1. \A i \in 1 .. Len(kinds) : kinds[i] \in ItemKinds => i > 1
        BY <1>4 DEF ItemKinds
    <2> HIDE DEF n
    <2> QED BY <1>1, <1>2, <1>3, <1>4, <2>1, BracketedAppend
<1>6. \A kind, k : Has(Planned', kind, k)
        <=> Has(Planned, kind, k) \/ (k = n /\ \E i \in 1 .. Len(kinds) : kinds[i] = kind)
    BY <1>1, <1>3, <1>4, HasMore
<1>7. /\ Len(out') = n + 1
      /\ \A k \in 1 .. n : out'[k] = out[k]
      /\ out'[n + 1] = IF kinds = CallEvents THEN "call" ELSE "message"
    BY <1>3 DEF Typed
<1>8. \A k \in Nat : Has(Planned', "item_added", k) => k < n + 1
    BY <1>1, <1>6 DEF Opened
<1>9. \A k \in 1 .. n + 1 : Has(Planned', "item_added", k - 1)
    <2>1. \A k \in 1 .. n : Has(Planned, "item_added", k - 1)
        BY <1>1 DEF Opened, Whole
    <2>2. Has(Planned', "item_added", n)
        BY <1>4, <1>6
    <2> HIDE DEF n
    <2> QED BY <1>1, <1>6, <2>1, <2>2
<1>10. \A k \in 1 .. n + 1 : Has(Planned', "item_done", k - 1) => out'[k] = "call"
    <2>1. \A k \in 1 .. n : Has(Planned, "item_done", k - 1) => out[k] = "call"
        BY <1>1 DEF Opened
    <2>2. ASSUME NEW k \in 1 .. n + 1, Has(Planned', "item_done", k - 1) PROVE out'[k] = "call"
        <3> HIDE DEF n
        <3>1. CASE k \in 1 .. n
            BY <1>1, <1>6, <1>7, <2>1, <2>2, <3>1
        <3>2. CASE k = n + 1
            BY <1>1, <1>2, <1>4, <1>6, <1>7, <2>2, <3>2
        <3> QED BY <1>1, <3>1, <3>2
    <2> QED BY <2>2
<1> HIDE DEF n
<1> QED BY <1>1, <1>5, <1>7, <1>8, <1>9, <1>10 DEF Opened

\* The text item is open until the answer has ended.
LEMMA TextIsOpen ==
    ASSUME Typed, Opened, pc = "read", TextOpen
    PROVE  /\ TextIndex \in Nat
           /\ Has(Planned, "item_added", TextIndex) /\ ~Has(Planned, "item_done", TextIndex)
<1> DEFINE k == TextIndex + 1
<1>1. TextIndex \in Nat /\ k \in 1 .. Len(out) /\ out[k] = "message" /\ k - 1 = TextIndex
    BY TextPlace DEF Typed
<1> HIDE DEF k
<1> QED BY <1>1 DEF Opened, Whole

LEMMA Deltas ==
    ASSUME Typed, Typed', Bracketed(Planned), Opened, ReadText
    PROVE  Bracketed(Planned') /\ Opened'
<1> DEFINE kinds == <<"text_delta">>
<1>1. pc = "read" /\ pc' = "read" /\ todo = <<>> /\ received' = received /\ out' = out /\ TextOpen
    BY DEF ReadText, Reading
<1>2. Planned \in Seq(Pending) /\ Planned' = Planned \o On(TextIndex, kinds)
    BY <1>1, Adding, PlannedTyped DEF ReadText
<1>3. /\ TextIndex \in Nat
      /\ Has(Planned, "item_added", TextIndex) /\ ~Has(Planned, "item_done", TextIndex)
    BY <1>1, TextIsOpen
<1>4. /\ kinds \in Seq(Kinds) /\ \A i \in 1 .. Len(kinds) : kinds[i] = "text_delta"
    BY KindsTyped
<1> HIDE DEF kinds
<1>5. Bracketed(Planned')
    BY <1>2, <1>3, <1>4, BracketedAppend
<1>6. \A kind \in {"item_added", "item_done"} : \A k : Has(Planned', kind, k) <=> Has(Planned, kind, k)
    BY <1>2, <1>3, <1>4, HasMore
<1> QED BY <1>1, <1>5, <1>6 DEF Opened, Whole

LEMMA Announcement ==
    ASSUME Typed, Typed', Bracketed(Planned), Opened, Begin, todo = <<>>
    PROVE  Bracketed(Planned') /\ Opened'
<1> DEFINE kinds == <<"created", "in_progress">>
<1>1. pc = "start" /\ pc' = "call" /\ received' = received /\ out' = out
    BY DEF Begin
<1>2. Planned \in Seq(Pending) /\ Planned' = Planned \o On(0, kinds)
    BY <1>1, Adding, PlannedTyped DEF Begin
<1>3. kinds \in Seq(Kinds) /\ \A i \in 1 .. Len(kinds) : kinds[i] \in {"created", "in_progress"}
    BY KindsTyped
<1> HIDE DEF kinds
<1>4. Bracketed(Planned')
    BY <1>2, <1>3, BracketedAppend DEF ItemKinds
<1>5. \A kind \in {"item_added", "item_done"} : \A k : Has(Planned', kind, k) <=> Has(Planned, kind, k)
    BY <1>2, <1>3, HasMore
<1> QED BY <1>1, <1>4, <1>5 DEF Opened, Whole

\* What the end of the answer adds to the plan.
LEMMA EndingPlan ==
    ASSUME Typed, Typed', ReadEnd, Opened
    PROVE  Planned' = (IF TextOpen THEN Planned \o On(TextIndex, TextClosing) ELSE Planned)
                          \o On(0, <<Status(result')>>)
<1> DEFINE last == On(0, <<Status(result')>>)
           closing == On(TextIndex, TextClosing)
<1>1. todo = <<>> /\ received' = received /\ pc = "read"
      /\ todo' = (IF TextOpen THEN closing ELSE <<>>) \o last
    BY DEF ReadEnd, Reading, TextClosing
<1>2. Planned \in Seq(Pending) /\ Planned' = Planned \o todo'
    BY <1>1, Adding, PlannedTyped
<1>3. last \in Seq(Pending)
    BY OnTyped, KindsTyped
<1>4. CASE TextOpen
    <2>1. closing \in Seq(Pending)
        BY <1>1, <1>4, TextIsOpen, OnTyped, KindsTyped
    <2> HIDE DEF closing, last
    <2>2. Planned' = Planned \o (closing \o last)
        BY <1>1, <1>2, <1>4
    <2>3. Planned' = (Planned \o closing) \o last
        BY <1>2, <1>3, <2>1, <2>2, ConcatAssociative
    <2> QED BY <1>4, <2>3 DEF closing, last
<1>5. CASE ~TextOpen
    <2> HIDE DEF last
    <2>1. todo' = last
        BY <1>1, <1>3, <1>5, ConcatEmptySeq
    <2> QED BY <1>2, <1>5, <2>1 DEF last
<1> QED BY <1>4, <1>5

LEMMA Closings ==
    ASSUME Typed, Typed', Bracketed(Planned), Opened, ReadEnd
    PROVE  Bracketed(Planned') /\ Opened'
<1> DEFINE middle == IF TextOpen THEN Planned \o On(TextIndex, TextClosing) ELSE Planned
           kinds == <<Status(result')>>
<1>1. pc = "read" /\ pc' = "ending" /\ out' = out /\ Planned \in Seq(Pending)
      /\ Planned' = middle \o On(0, kinds)
    BY EndingPlan, PlannedTyped DEF ReadEnd, Reading
<1>2. /\ kinds \in Seq(Kinds)
      /\ \A i \in 1 .. Len(kinds) : kinds[i] \in {"completed", "incomplete"}
    BY KindsTyped DEF Status
<1>3. /\ middle \in Seq(Pending) /\ Bracketed(middle)
      /\ \A k : Has(middle, "item_added", k) <=> Has(Planned, "item_added", k)
    <2>1. CASE TextOpen
        <3>1. /\ TextIndex \in Nat
              /\ Has(Planned, "item_added", TextIndex) /\ ~Has(Planned, "item_done", TextIndex)
            BY <1>1, <2>1, TextIsOpen
        <3>2. /\ TextClosing \in Seq(Kinds)
              /\ \A i \in 1 .. Len(TextClosing) : TextClosing[i] # "item_added"
              /\ \A i \in 1 .. Len(TextClosing) : TextClosing[i] = "item_done" => i = Len(TextClosing)
            <4>1. Len(TextClosing) = 3 /\ 1 .. Len(TextClosing) = 1 .. 2 \cup {3}
                BY ChunkKinds
            <4> QED BY <4>1, ChunkKinds, KindsTyped
        <3> DEFINE longer == Planned \o On(TextIndex, TextClosing)
        <3>3. longer \in Seq(Pending)
            <4>1. On(TextIndex, TextClosing) \in Seq(Pending)
                BY <3>1, <3>2, OnTyped
            <4> QED BY <1>1, <4>1, ConcatProperties
        <3>6. Bracketed(longer)
            <4> HIDE DEF middle, kinds
            <4> QED BY <1>1, <3>1, <3>2, BracketedAppend
        <3>4. \A k : Has(longer, "item_added", k) <=> Has(Planned, "item_added", k)
            BY <1>1, <3>1, <3>2, HasMore
        <3> HIDE DEF longer
        <3>5. middle = longer
            BY <2>1 DEF longer
        <3> HIDE DEF middle
        <3> QED BY <3>3, <3>4, <3>5, <3>6
    <2>2. CASE ~TextOpen
        BY <1>1, <2>2
    <2> QED BY <2>1, <2>2
<1> HIDE DEF middle, kinds
<1>4. Bracketed(Planned')
    BY <1>1, <1>2, <1>3, BracketedAppend DEF ItemKinds
<1>5. ASSUME NEW k
      PROVE  Has(Planned', "item_added", k) <=> Has(Planned, "item_added", k)
    <2>1. ~ \E i \in 1 .. Len(kinds) : kinds[i] = "item_added"
        BY <1>2
    <2>2. Has(middle \o On(0, kinds), "item_added", k)
              <=> Has(middle, "item_added", k)
                  \/ (k = 0 /\ \E i \in 1 .. Len(kinds) : kinds[i] = "item_added")
        BY <1>2, <1>3, HasMore
    <2> QED BY <1>1, <1>3, <2>1, <2>2
<1> QED BY <1>1, <1>4, <1>5 DEF Opened, Whole

LEMMA Emissions ==
    ASSUME Typed, Typed', Numbered, Bracketed(Planned), Opened, EmitNext
    PROVE  Bracketed(Planned') /\ Opened'
<1>1. pc \notin {"failed", "done"} /\ closed' = closed /\ out' = out /\ closed = <<>>
    BY DEF EmitNext, Numbered
<1>2. CASE Planned' = Planned /\ pc' = pc
    BY <1>1, <1>2 DEF Opened, Whole
<1>3. CASE /\ pc' = "failed" /\ Planned' \in Seq(Pending)
           /\ Len(Planned') <= Len(Planned)
           /\ \A i \in 1 .. Len(Planned') : Planned'[i] = Planned[i]
    <2>1. Bracketed(Planned') /\ Planned \in Seq(Pending)
        BY <1>3, PlannedTyped, BracketedPrefix
    <2>2. 1 .. Len(Planned') \subseteq 1 .. Len(Planned)
        BY <1>3, <2>1
    <2>3. \A kind, k : Has(Planned', kind, k) => Has(Planned, kind, k)
        BY <1>3, <2>2 DEF Has
    <2>4. ~Whole' /\ pc' \notin {"read", "start", "call"}
        BY <1>1, <1>3 DEF Whole
    <2> QED BY <1>1, <2>1, <2>3, <2>4 DEF Opened
<1> QED BY <1>2, <1>3, Emitting

\* The plan stays bracketed, whatever the upstream sends and wherever the stream breaks.
LEMMA OpenedStep ==
    ASSUME Typed, Typed', Numbered, Bracketed(Planned), Opened, [Next]_vars
    PROVE  Bracketed(Planned') /\ Opened'
<1>1. CASE ReadFinish \/ UNCHANGED vars
    <2>1. Planned' = Planned /\ pc' = pc /\ closed' = closed /\ out' = out
        BY <1>1 DEF ReadFinish, vars, Planned
    <2> QED BY <2>1 DEF Opened, Whole
<1>2. CASE Fail
    <2>1. Planned' = Planned /\ pc' = "failed" /\ closed' = closed /\ out' = out /\ closed = <<>>
        BY <1>2 DEF Fail, Planned, Numbered
    <2> QED BY <2>1 DEF Opened, Whole
<1>3. CASE CallUpstream
    <2>1. Planned' = Planned /\ pc = "call" /\ out' = out
        BY <1>3 DEF CallUpstream, Planned
    <2>2. out = <<>> /\ Len(out) = 0
        BY <2>1 DEF Opened
    <2> QED BY <2>1, <2>2 DEF Opened
<1>4. CASE Close
    <2>1. Planned' = Planned /\ pc' = "done" /\ out' = out
        BY <1>4 DEF Close, Planned
    <2>2. Whole' => Whole
        BY <1>4 DEF Close, Whole
    <2> QED BY <2>1, <2>2 DEF Opened
<1> QED BY <1>1, <1>2, <1>3, <1>4, Openings, Deltas, Announcement, Closings, Emissions
       DEF Next, Begin, Numbered

PlanInv == Bracketed(Planned) /\ Opened

LEMMA OpenedHolds == Spec => []PlanInv
<1>1. Init => PlanInv
    <2> SUFFICES ASSUME Init PROVE PlanInv
        OBVIOUS
    <2>1. received \in Seq(Sent) /\ todo \in Seq(Pending) /\ Len(received) = 0 /\ Len(todo) = 0
          /\ out = <<>> /\ Len(out) = 0 /\ pc = "start"
        BY EmptySeq DEF Init
    <2>2. Len(Plan(received, todo)) = Len(received) + Len(todo)
        BY <2>1, PlanTyped
    <2>3. 1 .. Len(Planned) = {}
        BY <2>1, <2>2 DEF Planned
    <2>4. Bracketed(Planned)
        BY <2>3 DEF Bracketed
    <2>5. \A kind, k : ~Has(Planned, kind, k)
        BY <2>3 DEF Has
    <2> QED BY <2>1, <2>4, <2>5 DEF Opened, PlanInv
<1>2. Typed /\ Typed' /\ Numbered /\ PlanInv /\ [Next]_vars => PlanInv'
    BY OpenedStep DEF PlanInv
<1> QED BY <1>1, <1>2, TypedHolds, NumberedHolds, PTL DEF Spec

\* For any length of the answer and any interleaving of its calls and deltas: whatever the
\* host has received of an item comes after its one opening and not after its closing, also
\* in a stream that broke.
THEOREM Bracketing == Spec => []ItemsBracketed
<1>1. ASSUME Typed, Bracketed(Planned) PROVE ItemsBracketed
    <2> DEFINE n == Len(received)
    <2>1. n \in Nat /\ DOMAIN received = 1 .. n /\ n <= Len(Planned) /\ Len(Planned) \in Nat
          /\ received \in Seq(Sent)
        BY <1>1, PlanTyped DEF Typed, Planned
    <2>2. \A i \in 1 .. n : Planned[i].kind = received[i].kind /\ Planned[i].index = received[i].index
        <3>1. \A i \in 1 .. n : Planned[i] = Plain(received[i])
            BY <1>1, PlanTyped DEF Typed, Planned
        <3>2. \A e : Plain(e).kind = e.kind /\ Plain(e).index = e.index
            BY DEF Plain
        <3> HIDE DEF n
        <3> QED BY <3>1, <3>2
    <2> HIDE DEF n
    <2>3. 1 .. n \subseteq 1 .. Len(Planned)
        BY <2>1
    <2> SUFFICES ASSUME NEW i \in 1 .. n, received[i].kind \in ItemKinds
                 PROVE  LET e == received[i] IN
                        /\ Cardinality(Positions("item_added", e.index)) = 1
                        /\ \A j \in Positions("item_added", e.index) : j < i
                        /\ \A j \in Positions("item_done", e.index) : i <= j
        BY <2>1 DEF ItemsBracketed, ItemKinds
    <2>4. PICK j \in 1 .. i - 1 :
            Planned[j].kind = "item_added" /\ Planned[j].index = Planned[i].index
        BY <1>1, <2>2, <2>3 DEF Bracketed
    <2>5. j \in 1 .. n /\ j < i
        BY <2>1
    <2>6. Positions("item_added", received[i].index) = {j}
        <3>1. j \in Positions("item_added", received[i].index)
            BY <2>1, <2>2, <2>4, <2>5 DEF Positions
        <3>2. ASSUME NEW k \in Positions("item_added", received[i].index) PROVE k = j
            <4>1. k \in 1 .. n /\ Planned[k].kind = "item_added" /\ Planned[k].index = Planned[i].index
                BY <2>1, <2>2, <3>2 DEF Positions
            <4> QED BY <1>1, <2>3, <2>4, <2>5, <4>1 DEF Bracketed
        <3> QED BY <3>1, <3>2
    <2>7. ASSUME NEW k \in Positions("item_done", received[i].index) PROVE i <= k
        <3>1. k \in 1 .. n /\ Planned[k].kind = "item_done" /\ Planned[k].index = Planned[i].index
            BY <2>1, <2>2, <2>7 DEF Positions
        <3> QED BY <1>1, <2>2, <2>3, <3>1 DEF Bracketed
    <2> QED BY <2>5, <2>6, <2>7, FS_Singleton
<1>2. Typed /\ PlanInv => ItemsBracketed
    BY <1>1 DEF PlanInv
<1> QED BY <1>2, TypedHolds, OpenedHolds, PTL

-----------------------------------------------------------------------------
\* How many items of a kind there are.
ItemCount(items, item) == Cardinality({i \in 1 .. Len(items) : items[i] = item})

\* The items are those of the answer: one per call, and one for the text if there is any.
Counted ==
    /\ ItemCount(out, "call") = result.tools
    /\ \A i, j \in 1 .. Len(out) : out[i] = "message" /\ out[j] = "message" => i = j
    /\ TextOpen <=> result.text > 0

\* One more item of a kind is counted as one more, of another kind not at all.
LEMMA OneMore ==
    ASSUME NEW S, NEW s \in Seq(S), NEW x \in S, NEW y
    PROVE  ItemCount(Append(s, x), y) = IF x = y THEN ItemCount(s, y) + 1 ELSE ItemCount(s, y)
<1> DEFINE n == Len(s)
           longer == Append(s, x)
           before == {i \in 1 .. n : s[i] = y}
           after == {i \in 1 .. n + 1 : longer[i] = y}
<1>1. n \in Nat /\ Len(longer) = n + 1 /\ longer[n + 1] = x /\ \A i \in 1 .. n : longer[i] = s[i]
    OBVIOUS
<1>2. IsFiniteSet(before)
    <2>1. IsFiniteSet(1 .. n)
        BY <1>1, FS_Interval
    <2> QED BY <2>1, FS_Subset
<1>3. ItemCount(s, y) = Cardinality(before) /\ ItemCount(longer, y) = Cardinality(after)
    BY <1>1 DEF ItemCount
<1> HIDE DEF n, longer
<1>4. CASE x = y
    <2>1. after = before \cup {n + 1} /\ n + 1 \notin before
        BY <1>1, <1>4
    <2> QED BY <1>2, <1>3, <1>4, <2>1, FS_AddElement DEF longer
<1>5. CASE x # y
    <2>1. after = before
        BY <1>1, <1>5
    <2> QED BY <1>3, <1>5, <2>1 DEF longer
<1> QED BY <1>4, <1>5

LEMMA CountedStep ==
    ASSUME Typed, Counted, [Next]_vars
    PROVE  Counted'
<1> DEFINE n == Len(out)
<1>1. n \in Nat /\ out \in Seq({"message", "call"}) /\ DOMAIN out = 1 .. n /\ result \in Result
    BY DEF Typed
<1>2. result.text \in Nat /\ result.tools \in Nat
    BY <1>1 DEF Result
<1>3. ASSUME out' = out, result'.tools = result.tools, result'.text > 0 <=> result.text > 0
      PROVE  Counted'
    BY <1>3 DEF Counted, TextOpen
<1>4. CASE ReadFirstText
    <2>1. out' = Append(out, "message") /\ ~TextOpen
          /\ result'.tools = result.tools /\ result'.text = result.text + 1
        BY <1>1, <1>4, AbsorbCounts DEF ReadFirstText, Events
    <2>2. ItemCount(out', "call") = result'.tools
        <3>1. ItemCount(out', "call") = ItemCount(out, "call")
            BY <1>1, <2>1, OneMore
        <3> QED BY <2>1, <3>1 DEF Counted
    <2>3. /\ DOMAIN out' = 1 .. n + 1 /\ Len(out') = n + 1 /\ out'[n + 1] = "message"
          /\ \A i \in 1 .. n : out'[i] = out[i]
        BY <1>1, <2>1
    <2>4. \A i \in 1 .. n : out[i] # "message"
        BY <1>1, <2>1 DEF TextOpen
    <2> HIDE DEF n
    <2>5. \A i \in 1 .. n + 1 : out'[i] = "message" => i = n + 1
        BY <1>1, <2>3, <2>4
    <2>6. TextOpen' /\ result'.text > 0
        BY <1>1, <1>2, <2>1, <2>3 DEF TextOpen
    <2> QED BY <2>2, <2>3, <2>5, <2>6 DEF Counted
<1>5. CASE ReadToolCall
    <2>1. out' = Append(out, "call")
          /\ result'.tools = result.tools + 1 /\ result'.text = result.text
        BY <1>1, <1>5, AbsorbCounts DEF ReadToolCall, Events
    <2>2. ItemCount(out', "call") = result'.tools
        <3>1. ItemCount(out', "call") = ItemCount(out, "call") + 1
            BY <1>1, <2>1, OneMore
        <3> QED BY <2>1, <3>1 DEF Counted
    <2>3. /\ DOMAIN out' = 1 .. n + 1 /\ Len(out') = n + 1 /\ out'[n + 1] = "call"
          /\ \A i \in 1 .. n : out'[i] = out[i]
        BY <1>1, <2>1
    <2>4. /\ \A i, j \in 1 .. n : out[i] = "message" /\ out[j] = "message" => i = j
          /\ TextOpen <=> result.text > 0
        BY DEF Counted
    <2> HIDE DEF n
    <2>5. \A i \in 1 .. n + 1 : out'[i] = "message" => i \in 1 .. n /\ out[i] = "message"
        BY <1>1, <2>3
    <2>6. TextOpen' <=> TextOpen
        BY <1>1, <2>3, <2>5 DEF TextOpen
    <2>7. \A i, j \in 1 .. n + 1 : out'[i] = "message" /\ out'[j] = "message" => i = j
        BY <2>4, <2>5
    <2> QED BY <2>1, <2>2, <2>3, <2>4, <2>6, <2>7 DEF Counted
<1>6. CASE ReadText
    <2>1. out' = out /\ TextOpen /\ result'.tools = result.tools /\ result'.text = result.text + 1
        BY <1>1, <1>6, AbsorbCounts DEF ReadText, Events
    <2> QED BY <1>2, <1>3, <2>1 DEF Counted
<1>7. CASE ReadFinish
    <2>1. PICK event \in Events : event.type = "finish" /\ result' = Absorb(result, event)
        BY <1>7 DEF ReadFinish
    <2>2. result'.tools = result.tools /\ result'.text = result.text
        BY <1>1, <2>1, AbsorbCounts
    <2> QED BY <1>3, <1>7, <2>2 DEF ReadFinish
<1>8. CASE ReadEnd
    <2>1. result' = Returned(result) /\ out' = out
        BY <1>8 DEF ReadEnd
    <2>2. result'.tools = result.tools /\ result'.text = result.text
        BY <1>1, <2>1 DEF Returned, Result
    <2> QED BY <1>3, <2>1, <2>2
<1>9. CASE Begin \/ Fail \/ CallUpstream \/ EmitNext \/ Close \/ UNCHANGED vars
    <2>1. out' = out /\ result' = result
        BY <1>9 DEF Begin, Fail, CallUpstream, EmitNext, Close, vars
    <2> QED BY <1>3, <2>1
<1> QED BY <1>4, <1>5, <1>6, <1>7, <1>8, <1>9 DEF Next

LEMMA CountedHolds == Spec => []Counted
<1>1. Init => Counted
    <2> SUFFICES ASSUME Init PROVE Counted
        OBVIOUS
    <2>1. out = <<>> /\ Len(out) = 0 /\ DOMAIN out = {} /\ 1 .. Len(out) = {}
        BY DEF Init
    <2>2. result.tools = 0 /\ result.text = 0
        BY DEF Init, NoResult
    <2>3. ItemCount(out, "call") = 0
        BY <2>1, FS_EmptySet DEF ItemCount
    <2> QED BY <2>1, <2>2, <2>3 DEF Counted, TextOpen
<1> QED BY <1>1, CountedStep, TypedHolds, PTL DEF Spec

Terminal == {"completed", "incomplete"}
NoEnd(plan) == \A kind \in Terminal : \A k : ~Has(plan, kind, k)

\* The answer was read to its end and the stream did not break.
Ended == pc = "ending" \/ closed = <<"clean">>

\* Each item that is complete is closed in the plan, and the response ends as the very last.
Finished ==
    /\ Whole => \A k \in 1 .. Len(out) :
                    out[k] = "call" \/ Ended => Has(Planned, "item_done", k - 1)
    /\ Whole /\ ~Ended => NoEnd(Planned)
    /\ Ended => \E before \in Seq(Pending) :
                    NoEnd(before) /\ Planned = before \o On(0, <<Status(result)>>)

LEMMA NotClean == <<>> # <<"clean">> /\ <<"error">> # <<"clean">>
OBVIOUS

\* While the answer is read, more events can be added as long as none of them is the end.
LEMMA NotYet ==
    ASSUME Typed, Typed', Numbered, Finished, pc \in {"start", "call", "read"}, todo = <<>>,
           received' = received, pc' \in {"call", "read"}, closed' = closed,
           NEW index \in Nat, NEW kinds \in Seq(Kinds), todo' = On(index, kinds),
           \A i \in 1 .. Len(kinds) : kinds[i] \notin Terminal,
           \A k \in 1 .. Len(out') : out'[k] = "call" =>
               \/ k \in 1 .. Len(out) /\ out[k] = "call"
               \/ k - 1 = index /\ \E i \in 1 .. Len(kinds) : kinds[i] = "item_done"
    PROVE  Finished'
<1>1. Planned \in Seq(Pending) /\ Planned' = Planned \o On(index, kinds)
    BY Adding, PlannedTyped
<1>2. closed = <<>> /\ Whole /\ ~Ended /\ ~Ended'
    BY NotClean DEF Numbered, Whole, Ended
<1>3. \A kind, k : Has(Planned', kind, k)
        <=> Has(Planned, kind, k) \/ (k = index /\ \E i \in 1 .. Len(kinds) : kinds[i] = kind)
    BY <1>1, HasMore
<1>4. NoEnd(Planned')
    BY <1>2, <1>3 DEF Finished, NoEnd
<1>5. \A k \in 1 .. Len(out) : out[k] = "call" => Has(Planned, "item_done", k - 1)
    BY <1>2 DEF Finished
<1>6. \A k \in 1 .. Len(out') : out'[k] = "call" => Has(Planned', "item_done", k - 1)
    BY <1>3, <1>5
<1> QED BY <1>2, <1>4, <1>6 DEF Finished

LEMMA FinishedStep ==
    ASSUME Typed, Typed', Numbered, Counted, Bracketed(Planned), Opened, Finished, [Next]_vars
    PROVE  Finished'
<1> DEFINE n == Len(out)
<1>1. n \in Nat /\ out \in Seq({"message", "call"}) /\ Planned \in Seq(Pending)
    BY PlannedTyped DEF Typed
<1>2. CASE Begin
    <2> DEFINE kinds == <<"created", "in_progress">>
    <2>1. kinds \in Seq(Kinds) /\ \A i \in 1 .. Len(kinds) : kinds[i] \notin Terminal
        BY KindsTyped DEF Terminal
    <2>2. out = <<>> /\ Len(out) = 0 /\ out' = out /\ todo = <<>>
        BY <1>2 DEF Begin, Opened, Numbered
    <2> QED BY <1>2, <2>1, <2>2, NotYet DEF Begin
<1>3. CASE ReadFirstText
    <2>1. TextOpening \in Seq(Kinds) /\ \A i \in 1 .. Len(TextOpening) : TextOpening[i] \notin Terminal
        BY KindsTyped DEF Terminal, TextOpening
    <2>2. out' = Append(out, "message") /\ \A k \in 1 .. Len(out') : out'[k] = "call" =>
              k \in 1 .. Len(out) /\ out[k] = "call"
        BY <1>1, <1>3 DEF ReadFirstText
    <2>3. /\ pc = "read" /\ pc' = "read" /\ todo = <<>> /\ received' = received /\ closed' = closed
          /\ todo' = On(n, TextOpening)
        BY <1>3 DEF ReadFirstText, Reading, TextOpening
    <2> QED BY <1>1, <2>1, <2>2, <2>3, NotYet
<1>4. CASE ReadToolCall
    <2>1. CallEvents \in Seq(Kinds) /\ \A i \in 1 .. Len(CallEvents) : CallEvents[i] \notin Terminal
        BY KindsTyped DEF Terminal, CallEvents
    <2>2. \E i \in 1 .. Len(CallEvents) : CallEvents[i] = "item_done"
        BY ChunkKinds
    <2>3. \A k \in 1 .. Len(out') : out'[k] = "call" =>
              (k \in 1 .. Len(out) /\ out[k] = "call") \/ k - 1 = n
        BY <1>1, <1>4 DEF ReadToolCall
    <2> QED BY <1>1, <1>4, <2>1, <2>2, <2>3, NotYet DEF ReadToolCall, Reading, CallEvents
<1>5. CASE ReadText
    <2> DEFINE kinds == <<"text_delta">>
    <2>1. kinds \in Seq(Kinds) /\ \A i \in 1 .. Len(kinds) : kinds[i] \notin Terminal
        BY KindsTyped DEF Terminal
    <2>2. TextIndex \in Nat /\ out' = out
        BY <1>5, TextPlace DEF ReadText
    <2>3. /\ pc = "read" /\ pc' = "read" /\ todo = <<>> /\ received' = received /\ closed' = closed
          /\ todo' = On(TextIndex, kinds)
        BY <1>5 DEF ReadText, Reading
    <2> HIDE DEF kinds
    <2> QED BY <1>1, <2>1, <2>2, <2>3, NotYet
<1>6. CASE ReadEnd
    <2> DEFINE middle == IF TextOpen THEN Planned \o On(TextIndex, TextClosing) ELSE Planned
               last == On(0, <<Status(result')>>)
    <2>1. /\ pc = "read" /\ pc' = "ending" /\ out' = out /\ Planned' = middle \o last
          /\ closed' = closed /\ Whole /\ ~Ended
        <3>1. pc = "read" /\ pc' = "ending" /\ out' = out /\ closed' = closed /\ closed = <<>>
            BY <1>6 DEF ReadEnd, Reading, Numbered
        <3>2. Planned' = middle \o last
            BY <1>6, EndingPlan
        <3> QED BY <3>1, <3>2, NotClean DEF Whole, Ended
    <2>2. last \in Seq(Pending)
        BY OnTyped, KindsTyped
    <2>3. /\ NoEnd(middle) /\ middle \in Seq(Pending)
          /\ \A k : Has(Planned, "item_done", k) => Has(middle, "item_done", k)
          /\ TextOpen => Has(middle, "item_done", TextIndex)
        <3>1. NoEnd(Planned)
            BY <2>1 DEF Finished
        <3>2. CASE TextOpen
            <4>1. TextIndex \in Nat /\ TextClosing \in Seq(Kinds)
                BY <3>2, TextPlace, KindsTyped
            <4>2. On(TextIndex, TextClosing) \in Seq(Pending)
                BY <4>1, OnTyped
            <4>3. \A kind, k : Has(middle, kind, k) <=> Has(Planned, kind, k)
                    \/ (k = TextIndex /\ \E i \in 1 .. Len(TextClosing) : TextClosing[i] = kind)
                BY <1>1, <3>2, <4>1, HasMore
            <4>4. middle \in Seq(Pending)
                BY <1>1, <3>2, <4>2, ConcatProperties
            <4>5. \E i \in 1 .. Len(TextClosing) : TextClosing[i] = "item_done"
                BY ChunkKinds
            <4>6. \A i \in 1 .. Len(TextClosing) : TextClosing[i] \notin Terminal
                BY DEF TextClosing, Terminal
            <4> HIDE DEF middle
            <4> QED BY <3>1, <4>3, <4>4, <4>5, <4>6 DEF NoEnd
        <3>3. CASE ~TextOpen
            BY <1>1, <3>1, <3>3
        <3> QED BY <3>2, <3>3
    <2> HIDE DEF middle
    <2>4. Ended' => \E before \in Seq(Pending) : NoEnd(before) /\ Planned' = before \o last
        BY <2>1, <2>3
    <2>5. \A kind, k : Has(middle, kind, k) => Has(Planned', kind, k)
        BY <2>1, <2>2, <2>3, HasAppend
    <2>6. ASSUME NEW k \in 1 .. n PROVE Has(Planned', "item_done", k - 1)
        <3>1. CASE out[k] = "call"
            BY <2>1, <2>3, <2>5, <3>1 DEF Finished
        <3>2. CASE out[k] = "message"
            <4>1. TextOpen
                BY <1>1, <3>2 DEF TextOpen
            <4>2. TextIndex \in Nat /\ TextIndex + 1 \in 1 .. n /\ out[TextIndex + 1] = "message"
                BY <1>1, <4>1, TextPlace
            <4>3. TextIndex = k - 1
                BY <1>1, <3>2, <4>2 DEF Counted
            <4> QED BY <2>3, <2>5, <4>1, <4>3
        <3> QED BY <1>1, <3>1, <3>2
    <2>7. Ended'
        BY <2>1 DEF Ended
    <2> QED BY <2>1, <2>4, <2>6, <2>7 DEF Finished
<1>7. CASE EmitNext
    <2>1. pc \notin {"failed", "done"} /\ closed = <<>> /\ closed' = closed
          /\ out' = out /\ result' = result
        BY <1>7 DEF EmitNext, Numbered
    <2>2. CASE Planned' = Planned /\ pc' = pc
        BY <2>1, <2>2 DEF Finished, Whole, Ended
    <2>3. CASE pc' = "failed"
        <3>1. ~Whole' /\ ~Ended'
            BY <2>1, <2>3, NotClean DEF Whole, Ended
        <3> QED BY <3>1 DEF Finished
    <2> QED BY <1>7, <2>2, <2>3, Emitting
<1>8. CASE Fail
    <2>1. pc' = "failed" /\ closed' = <<>>
        BY <1>8 DEF Fail, Numbered
    <2>2. ~Whole' /\ ~Ended'
        BY <2>1, NotClean DEF Whole, Ended
    <2> QED BY <2>2 DEF Finished
<1>9. CASE CallUpstream \/ ReadFinish
    <2>1. Planned' = Planned /\ pc \in {"call", "read"} /\ pc' = "read" /\ out' = out
          /\ closed' = closed /\ closed = <<>>
        BY <1>9 DEF CallUpstream, ReadFinish, Reading, Planned, Numbered
    <2>2. Whole /\ Whole' /\ ~Ended /\ ~Ended'
        BY <2>1, NotClean DEF Whole, Ended
    <2> QED BY <2>1, <2>2 DEF Finished
<1>10. CASE Close
    <2>1. Planned' = Planned /\ out' = out /\ result' = result /\ pc' = "done" /\ closed = <<>>
          /\ ((closed' = <<"clean">> /\ pc = "ending") \/ closed' = <<"error">>)
        BY <1>10 DEF Close, Planned
    <2>2. Whole' => Ended /\ Whole
        BY <2>1, NotClean DEF Whole, Ended
    <2>3. Ended' => Ended /\ Whole
        BY <2>1, NotClean DEF Whole, Ended
    <2>4. Whole' => Ended'
        BY <2>1 DEF Whole, Ended
    <2> QED BY <2>1, <2>2, <2>3, <2>4 DEF Finished
<1>11. CASE UNCHANGED vars
    <2>1. Planned' = Planned /\ pc' = pc /\ closed' = closed /\ out' = out /\ result' = result
        BY <1>11 DEF vars, Planned
    <2> QED BY <2>1 DEF Finished, Whole, Ended
<1> QED BY <1>2, <1>3, <1>4, <1>5, <1>6, <1>7, <1>8, <1>9, <1>10, <1>11 DEF Next

LEMMA FinishedHolds == Spec => []Finished
<1>1. Init => Finished
    <2> SUFFICES ASSUME Init PROVE Finished
        OBVIOUS
    <2>1. received \in Seq(Sent) /\ todo \in Seq(Pending) /\ Len(received) = 0 /\ Len(todo) = 0
          /\ out = <<>> /\ Len(out) = 0 /\ pc = "start" /\ closed = <<>>
        BY EmptySeq DEF Init
    <2>2. Len(Plan(received, todo)) = Len(received) + Len(todo)
        BY <2>1, PlanTyped
    <2>3. 1 .. Len(Planned) = {}
        BY <2>1, <2>2 DEF Planned
    <2>4. NoEnd(Planned)
        BY <2>3 DEF NoEnd, Has
    <2>5. ~Ended
        BY <2>1, NotClean DEF Ended
    <2> QED BY <2>1, <2>4, <2>5 DEF Finished
<1>2. Typed /\ Typed' /\ Numbered /\ Counted /\ PlanInv /\ Finished /\ [Next]_vars => Finished'
    BY FinishedStep DEF PlanInv
<1> QED BY <1>1, <1>2, TypedHolds, NumberedHolds, CountedHolds, OpenedHolds, PTL DEF Spec

\* As many positions as there are items: each item has one, and each position an item.
LEMMA OnePerItem ==
    ASSUME NEW n \in Nat, NEW S, IsFiniteSet(S), NEW f \in [S -> 0 .. n - 1],
           \A i, j \in S : f[i] = f[j] => i = j, \A k \in 0 .. n - 1 : \E i \in S : f[i] = k
    PROVE  Cardinality(S) = n
<1>1. f \in Bijection(S, 0 .. n - 1)
    BY Fun_IsBij
<1>2. ExistsBijection(S, 0 .. n - 1)
    BY <1>1, Fun_ExistsBij
<1>3. Cardinality(0 .. n - 1) = Cardinality(S)
    BY <1>2, FS_Bijection
<1>4. Cardinality(0 .. n - 1) = n
    BY FS_Interval
<1> QED BY <1>3, <1>4

\* The unstreamed response of a result: the message first, if there is text, then the calls.
LEMMA CompletionCounts ==
    ASSUME NEW r \in Result
    PROVE  LET items == CompletionItems(r) IN
           /\ Cardinality({i \in DOMAIN items : items[i] = "message"}) = IF r.text > 0 THEN 1 ELSE 0
           /\ Cardinality({i \in DOMAIN items : items[i] = "call"}) = r.tools
<1> DEFINE Item == {"message", "call"}
           first == IF r.text > 0 THEN <<"message">> ELSE <<>>
           calls == [i \in 1 .. r.tools |-> "call"]
           items == first \o calls
           m == IF r.text > 0 THEN 1 ELSE 0
           n == r.tools
<1>1. n \in Nat /\ m \in {0, 1}
    BY DEF Result
<1>2. first \in Seq(Item) /\ Len(first) = m /\ \A i \in 1 .. m : first[i] = "message"
    <2>1. CASE r.text > 0
        <3>1. first = <<"message">> /\ m = 1
            BY <2>1
        <3> HIDE DEF first, m
        <3> QED BY <3>1
    <2>2. CASE ~(r.text > 0)
        <3>1. first = <<>> /\ m = 0
            BY <2>2
        <3> HIDE DEF first, m
        <3> QED BY <3>1
    <2> QED BY <2>1, <2>2
<1>3. calls \in Seq(Item) /\ Len(calls) = n /\ \A i \in 1 .. n : calls[i] = "call"
    <2>1. \A i \in 1 .. n : "call" \in Item
        OBVIOUS
    <2> HIDE DEF Item
    <2> QED BY <1>1, <2>1, IsASeq
<1>4. items = CompletionItems(r)
    BY DEF CompletionItems
<1> HIDE DEF first, calls, m, n
<1>5. /\ DOMAIN items = 1 .. m + n
      /\ \A i \in 1 .. m : items[i] = "message"
      /\ \A i \in m + 1 .. m + n : items[i] = "call"
    BY <1>1, <1>2, <1>3
<1> HIDE DEF items
<1>6. {i \in DOMAIN items : items[i] = "message"} = 1 .. m
    BY <1>1, <1>5
<1>7. {i \in DOMAIN items : items[i] = "call"} = m + 1 .. m + n
    BY <1>1, <1>5
<1>8. Cardinality(1 .. m) = m /\ Cardinality(m + 1 .. m + n) = n
    BY <1>1, FS_Interval
<1> QED BY <1>4, <1>6, <1>7, <1>8 DEF m, n

\* In a clean stream every item has one event of its opening and one of its closing.
LEMMA CleanItems ==
    ASSUME Typed, Bracketed(Planned), Opened, Finished, todo = <<>>, closed = <<"clean">>,
           NEW kind \in {"item_added", "item_done"}
    PROVE  /\ \A index \in 0 .. Len(out) - 1 : Cardinality(Positions(kind, index)) = 1
           /\ Cardinality({i \in DOMAIN received : received[i].kind = kind}) = Len(out)
<1> DEFINE n == Len(out)
           m == Len(received)
           S == {i \in DOMAIN received : received[i].kind = kind}
           f == [i \in S |-> received[i].index]
<1>1. /\ n \in Nat /\ m \in Nat /\ DOMAIN received = 1 .. m /\ received \in Seq(Sent)
      /\ Len(<<>>) = 0 /\ <<>> \in Seq(Pending)
    BY EmptySeq DEF Typed
<1>2. Len(Planned) = m
    <2>1. Len(Plan(received, todo)) = m + Len(todo)
        BY <1>1, PlanTyped
    <2> QED BY <1>1, <2>1 DEF Planned
<1>3. \A i \in 1 .. m : Planned[i].kind = received[i].kind /\ Planned[i].index = received[i].index
    <2>1. \A i \in 1 .. m : Planned[i] = Plain(received[i])
        BY <1>1, PlanTyped DEF Planned
    <2>2. \A e : Plain(e).kind = e.kind /\ Plain(e).index = e.index
        BY DEF Plain
    <2> HIDE DEF m
    <2> QED BY <2>1, <2>2
<1>4. \A i \in S : received[i].index \in Nat
    <2>1. \A e \in Sent : e.index \in Nat
        BY DEF Sent
    <2>2. \A i \in 1 .. m : received[i] \in Sent
        BY <1>1
    <2> QED BY <1>1, <2>1, <2>2
<1>5. \A i \in S : i \in 1 .. m /\ Planned[i].kind = kind
    BY <1>1, <1>3
<1>6. \A i \in S : received[i].index \in 0 .. n - 1
    <2> SUFFICES ASSUME NEW i \in S PROVE received[i].index < n
        BY <1>1, <1>4
    <2>1. \E j \in 1 .. m : Planned[j].kind = "item_added" /\ Planned[j].index = received[i].index
        <3>1. CASE kind = "item_added"
            BY <1>3, <1>5, <3>1
        <3>2. CASE kind = "item_done"
            <4>1. \E j \in 1 .. i - 1 :
                    Planned[j].kind = "item_added" /\ Planned[j].index = Planned[i].index
                BY <1>2, <1>5, <3>2 DEF Bracketed, ItemKinds
            <4> QED BY <1>1, <1>3, <1>5, <4>1
        <3> QED BY <3>1, <3>2
    <2>2. Has(Planned, "item_added", received[i].index)
        BY <1>2, <2>1 DEF Has
    <2> QED BY <1>4, <2>2 DEF Opened
<1>7. \A i, j \in S : received[i].index = received[j].index => i = j
    <2> SUFFICES ASSUME NEW i \in S, NEW j \in S, received[i].index = received[j].index
                 PROVE  i = j
        OBVIOUS
    <2>1. /\ i \in 1 .. m /\ j \in 1 .. m /\ Planned[i].kind = kind /\ Planned[j].kind = kind
          /\ Planned[i].index = Planned[j].index
        BY <1>3, <1>5
    <2>2. CASE kind = "item_added"
        BY <1>2, <2>1, <2>2 DEF Bracketed
    <2>3. CASE kind = "item_done"
        <3>1. i <= j /\ j <= i
            BY <1>2, <2>1, <2>3 DEF Bracketed, ItemKinds
        <3> QED BY <1>1, <2>1, <3>1
    <2> QED BY <2>2, <2>3
<1>8. \A k \in 0 .. n - 1 : \E i \in S : received[i].index = k
    <2> SUFFICES ASSUME NEW k \in 0 .. n - 1 PROVE \E i \in S : received[i].index = k
        OBVIOUS
    <2>1. k + 1 \in 1 .. n /\ (k + 1) - 1 = k /\ Whole /\ Ended
        BY <1>1 DEF Whole, Ended
    <2>2. Has(Planned, kind, (k + 1) - 1)
        BY <2>1 DEF Opened, Finished
    <2>3. PICK i \in 1 .. m : Planned[i].kind = kind /\ Planned[i].index = k
        BY <1>2, <2>1, <2>2 DEF Has
    <2> QED BY <1>1, <1>3, <2>3
<1>9. Cardinality(S) = n
    <2>1. f \in [S -> 0 .. n - 1]
        BY <1>6
    <2>2. /\ \A i, j \in S : f[i] = f[j] => i = j
          /\ \A k \in 0 .. n - 1 : \E i \in S : f[i] = k
        BY <1>7, <1>8
    <2>3. IsFiniteSet(S)
        <3>1. IsFiniteSet(1 .. m) /\ S \subseteq 1 .. m
            BY <1>1, FS_Interval
        <3> QED BY <3>1, FS_Subset
    <2> HIDE DEF S, f, n
    <2> QED BY <1>1, <2>1, <2>2, <2>3, OnePerItem
<1>10. ASSUME NEW k \in 0 .. n - 1 PROVE Cardinality(Positions(kind, k)) = 1
    <2>1. PICK i \in S : received[i].index = k
        BY <1>8
    <2>2. Positions(kind, k) = {i}
        <3>1. Positions(kind, k) = {j \in S : received[j].index = k}
            BY DEF Positions
        <3> HIDE DEF S
        <3> QED BY <1>7, <2>1, <3>1
    <2> QED BY <2>2, FS_Singleton
<1> QED BY <1>9, <1>10

\* For any length of the answer: a stream that was closed without an error told the host
\* everything.  It ended with the one terminal event, every item was opened and closed once,
\* and the items are those of the unstreamed response.
THEOREM CleanIsComplete == Spec => []CleanMeansComplete
<1>1. ASSUME Typed, Numbered, Counted, PlanInv, Finished, closed = <<"clean">>
      PROVE  /\ received[Len(received)].kind = Status(result)
             /\ Cardinality({i \in DOMAIN received : received[i].kind \in {"completed", "incomplete"}}) = 1
    <2> DEFINE m == Len(received)
    <2>1. todo = <<>> /\ Ended
        BY <1>1, EmptySeq DEF Numbered, Ended
    <2>2. m \in Nat /\ DOMAIN received = 1 .. m /\ received \in Seq(Sent) /\ <<>> \in Seq(Pending)
          /\ Len(<<>>) = 0
        BY <1>1, EmptySeq DEF Typed
    <2>3. Len(Planned) = m
        <3>1. Len(Plan(received, todo)) = m + Len(todo)
            BY <2>1, <2>2, PlanTyped
        <3> QED BY <2>1, <2>2, <3>1 DEF Planned
    <2>4. \A i \in 1 .. m : Planned[i].kind = received[i].kind
        <3>1. \A i \in 1 .. m : Planned[i] = Plain(received[i])
            BY <2>1, <2>2, PlanTyped DEF Planned
        <3>2. \A e : Plain(e).kind = e.kind
            BY DEF Plain
        <3> HIDE DEF m
        <3> QED BY <3>1, <3>2
    <2> DEFINE last == On(0, <<Status(result)>>)
    <2>5. PICK before \in Seq(Pending) : NoEnd(before) /\ Planned = before \o last
        BY <1>1, <2>1 DEF Finished
    <2>6. last \in Seq(Pending) /\ Len(last) = 1 /\ last[1].kind = Status(result)
        <3> DEFINE kinds == <<Status(result)>>
        <3>1. kinds \in Seq(Kinds) /\ Len(kinds) = 1 /\ kinds[1] = Status(result)
            BY KindsTyped
        <3>2. last = On(0, kinds)
            OBVIOUS
        <3> HIDE DEF kinds, last
        <3> QED BY <3>1, <3>2, OnTyped
    <2> HIDE DEF last, m
    <2>7. /\ Len(before) \in Nat /\ m = Len(before) + 1 /\ Planned[m] = last[1]
          /\ \A i \in 1 .. m - 1 : Planned[i] = before[i]
        <3> DEFINE longer == before \o last
        <3>1. /\ Len(before) \in Nat /\ Len(longer) = Len(before) + 1
              /\ longer[Len(before) + 1] = last[1]
              /\ \A i \in 1 .. Len(before) : longer[i] = before[i]
            <4>1. last \in Seq(Pending) /\ before \in Seq(Pending) /\ Len(before) \in Nat
                BY <2>6
            <4>2. Len(longer) = Len(before) + Len(last)
                BY <4>1
            <4>3. \A i \in 1 .. Len(before) : longer[i] = before[i]
                BY <4>1
            <4>4. \A i \in Len(before) + 1 .. Len(before) + Len(last) :
                    longer[i] = last[i - Len(before)]
                BY <4>1
            <4> DEFINE k == Len(before)
            <4>5. (k + 1) - k = 1 /\ k + 1 \in k + 1 .. k + Len(last)
                BY <2>6, <4>1
            <4> HIDE DEF longer
            <4> QED BY <2>6, <4>1, <4>2, <4>3, <4>4, <4>5
        <3>2. Planned = longer
            BY <2>5
        <3> HIDE DEF longer
        <3>3. m - 1 = Len(before)
            BY <2>3, <3>1, <3>2
        <3> QED BY <2>2, <3>1, <3>2, <3>3
    <2>8. \A i \in 1 .. m - 1 : before[i].kind \notin Terminal
        <3>1. m - 1 = Len(before)
            BY <2>7
        <3>2. \A i \in 1 .. Len(before) : before[i].kind \notin Terminal
            BY <2>5 DEF NoEnd, Has
        <3> QED BY <3>1, <3>2
    <2>9. received[m].kind = Status(result) /\ Status(result) \in Terminal
        BY <2>4, <2>6, <2>7 DEF Status, Terminal
    <2>10. \A i \in 1 .. m - 1 : received[i].kind \notin Terminal
        <3>1. \A i \in 1 .. m - 1 : i \in 1 .. m
            BY <2>2
        <3> QED BY <2>4, <2>7, <2>8, <3>1
    <2>11. {i \in DOMAIN received : received[i].kind \in Terminal} = {m}
        BY <2>2, <2>7, <2>9, <2>10
    <2> QED BY <2>9, <2>11, FS_Singleton DEF Terminal, m
<1>2. ASSUME Typed, Counted
      PROVE  \A item \in {"message", "call"} :
                Cardinality({i \in DOMAIN out : out[i] = item})
                    = Cardinality({i \in DOMAIN CompletionItems(result) :
                                      CompletionItems(result)[i] = item})
    <2>1. DOMAIN out = 1 .. Len(out) /\ result \in Result
        BY <1>2 DEF Typed
    <2>2. Cardinality({i \in DOMAIN out : out[i] = "call"}) = result.tools
        BY <1>2, <2>1 DEF Counted, ItemCount
    <2>3. Cardinality({i \in DOMAIN out : out[i] = "message"}) = IF result.text > 0 THEN 1 ELSE 0
        <3> DEFINE places == {i \in DOMAIN out : out[i] = "message"}
        <3>1. CASE result.text > 0
            <4>1. PICK i \in DOMAIN out : out[i] = "message"
                BY <1>2, <3>1 DEF Counted, TextOpen
            <4>2. places = {i}
                BY <1>2, <2>1, <4>1 DEF Counted
            <4> QED BY <3>1, <4>2, FS_Singleton
        <3>2. CASE ~(result.text > 0)
            <4>1. places = {}
                BY <1>2, <3>2 DEF Counted, TextOpen
            <4> QED BY <3>2, <4>1, FS_EmptySet
        <3> QED BY <3>1, <3>2
    <2> QED BY <2>1, <2>2, <2>3, CompletionCounts
<1>3. Typed /\ Numbered /\ Counted /\ PlanInv /\ Finished => CleanMeansComplete
    <2> SUFFICES ASSUME Typed, Numbered, Counted, PlanInv, Finished, closed = <<"clean">>
                 PROVE  CleanMeansComplete
        BY DEF CleanMeansComplete
    <2>1. todo = <<>>
        BY EmptySeq DEF Numbered
    <2>2. \A kind \in {"item_added", "item_done"} :
              /\ \A index \in 0 .. Len(out) - 1 : Cardinality(Positions(kind, index)) = 1
              /\ Cardinality({i \in DOMAIN received : received[i].kind = kind}) = Len(out)
        BY <2>1, CleanItems DEF PlanInv
    <2> QED BY <1>1, <1>2, <2>2 DEF CleanMeansComplete
<1> QED BY <1>3, TypedHolds, NumberedHolds, CountedHolds, OpenedHolds, FinishedHolds, PTL
=============================================================================

---------------------------- MODULE ChatMessages ----------------------------
(***************************************************************************)
(* What callUpstream (src/impl.go, src/chat_compat.go) sends upstream for  *)
(* a chat request.  A chat message is [role, content, calls, id]: content  *)
(* is the sequence of its parts' kinds (a string is one text part, null    *)
(* and "" are none), calls its tool calls [id, name, arguments], and id    *)
(* names the call that a tool message answers.                             *)
(*                                                                         *)
(* Part kinds: "text"; "image", inline base64; "remote", an image that is  *)
(* a link or broken; "other", anything else, such as a file.               *)
(*                                                                         *)
(* A text that may be JSON is a sequence: <<"raw">> is no JSON, <<"doc">>  *)
(* is JSON without a string "input", and <<"input">> \o t is the object    *)
(* {"input": t}.                                                           *)
(***************************************************************************)
EXTENDS SequencesExt

Valid(text) == Head(text) # "raw"

\* The text parts of a content, of which only the number is left.
messageText(content) ==
    [i \in 1 .. Cardinality({j \in DOMAIN content : content[j] = "text"}) |-> "text"]

chatContentParts(content) == [ok |-> ToSet(content) \subseteq {"text", "image"}, parts |-> content]

\* A conversion in progress: what is sent so far, and the names of the calls so far.
Nothing == [ok |-> TRUE, sent |-> <<>>, system |-> <<>>, names |-> [id \in {} |-> <<>>]]

Refused(acc) == [acc EXCEPT !.ok = FALSE]

\* Mutant: the first call with an ID keeps its name.
NamedFirst(names, calls) ==
    [id \in DOMAIN names \cup {calls[i].id : i \in DOMAIN calls} |->
        IF id \in DOMAIN names THEN names[id]
        ELSE calls[Min({i \in DOMAIN calls : calls[i].id = id})].name]

\* toolNames: the latest call with an ID has its name.
Named(names, calls) ==
    [id \in DOMAIN names \cup {calls[i].id : i \in DOMAIN calls} |->
        LET sharing == {i \in DOMAIN calls : calls[i].id = id}
        IN IF sharing = {} THEN names[id] ELSE calls[Max(sharing)].name]

\* A tool message needs a call before it; of its content only the text is sent.
ConvertResult(acc, message) ==
    IF message.id \notin DOMAIN acc.names THEN Refused(acc)
    ELSE [acc EXCEPT !.sent = Append(@,
            [role |-> "tool", content |-> <<>>, calls |-> <<>>,
             results |-> <<[id |-> message.id, name |-> acc.names[message.id],
                            output |-> messageText(message.content)]>>])]

\* A user or assistant message: its parts, then its calls; nothing if it has neither.
ConvertSpeech(acc, message) ==
    LET content == chatContentParts(message.content)
    IN IF ~content.ok \/ \E i \in DOMAIN message.calls : ~Valid(message.calls[i].arguments)
       THEN Refused(acc)
       ELSE [acc EXCEPT
                !.names = Named(@, message.calls),
                !.sent  = IF content.parts = <<>> /\ message.calls = <<>> THEN @
                          ELSE Append(@, [role |-> message.role, content |-> content.parts,
                                          calls |-> message.calls, results |-> <<>>])]

Convert(acc, message) ==
    CASE ~acc.ok                                -> acc
      [] message.role \in {"system", "developer"} ->
            [acc EXCEPT !.system = Append(@, messageText(message.content))]
      [] message.role = "tool"                  -> ConvertResult(acc, message)
      [] OTHER                                  -> ConvertSpeech(acc, message)

\* The messages converted one after the other.
Converted(messages) ==
    LET after[i \in 0 .. Len(messages)] ==
            IF i = 0 THEN Nothing ELSE Convert(after[i - 1], messages[i])
    IN after[Len(messages)]

\* The request callUpstream makes, or ok = FALSE.  Tools are [type, name]; the one
\* tool_choice it looks at is "none".
UpstreamRequest(messages, tools, choice) ==
    LET converted == Converted(messages)
    IN [ok     |-> /\ converted.ok
                   /\ converted.sent # <<>>
                   /\ \A i \in DOMAIN tools : tools[i].type = "function",
        sent   |-> converted.sent,
        system |-> converted.system,
        tools  |-> IF choice = "none" THEN <<>> ELSE [i \in DOMAIN tools |-> tools[i].name]]
=============================================================================

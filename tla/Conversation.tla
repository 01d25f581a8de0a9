---------------------------- MODULE Conversation ----------------------------
(***************************************************************************)
(* A conversation with a model through the plugin.  The plugin keeps       *)
(* nothing between two requests: the client sends the whole history each   *)
(* time, in its own format, and the plugin converts it anew (normalize-    *)
(* ChatRequest, normalizeResponses, callUpstream).  What the model answers *)
(* is converted back, the client runs the calls it finds there, and the    *)
(* next request brings the calls and their results along.                  *)
(*                                                                         *)
(* MaxAsks bounds the requests (the last is not answered), MaxCalls the    *)
(* calls of a conversation and MaxAdded the additional_tools items.  The   *)
(* sets are what client and model may say: ToolLists, [format, tools,      *)
(* choice]; Messages, [role, content]; Additions, lists of tools; Outputs, *)
(* contents of tool results; Inputs, [string, text] of calls; Strangers,   *)
(* names of tools the model makes up; Ids, call IDs, which a model may use *)
(* again in a later answer.                                                *)
(***************************************************************************)
EXTENDS ResponseTools

CONSTANTS ToolLists, Messages, Additions, Outputs, Inputs, Strangers, Ids,
          MaxAsks, MaxCalls, MaxAdded

IsList(s) == s \in Seq(ToSet(s))

IsToolList(tools) ==
    IsList(tools) /\ \A i \in DOMAIN tools : tools[i].type = "namespace" => IsList(tools[i].tools)

\* What the JSON of a request can be: lists are lists, and a client writes messages in
\* the roles that have no call and no result.  No text is empty.
ConversationAssumption ==
    /\ \A list \in ToolLists : list.format \in {"openai", "responses"} /\ IsToolList(list.tools)
    /\ \A more \in Additions : IsToolList(more)
    /\ \A message \in Messages : /\ message.role \in {"user", "assistant", "system", "developer"}
                                /\ IsList(message.content)
    /\ \A output \in Outputs : IsList(output)
    /\ \A input \in Inputs : IsList(input.text) /\ input.text # <<>>

ASSUME ConversationAssumption

VARIABLES
    pc,       \* "client", "upstream" or "refused"
    format,   \* "openai" or "responses"
    tools,    \* the tools every request declares
    choice,   \* the tool_choice of every request
    history,  \* what the client has: chat messages or Responses items
    request,  \* the last request as the upstream got it
    news,     \* what the client added since a request was accepted
    answered, \* the calls of the last answer, [said, got], under the tools of now
    asks,     \* requests made
    told,     \* history: the parts of what the client said as the system, in order
    spoken    \* history: what client and model have said else, in order

vars == <<pc, format, tools, choice, history, request, news, answered, asks, told, spoken>>

NoRequest == [ok |-> FALSE, sent |-> <<>>, system |-> <<>>, tools |-> <<>>]

Init ==
    /\ pc = "client"
    /\ \E list \in ToolLists :
          format = list.format /\ tools = list.tools /\ choice = list.choice
    /\ history = <<>>
    /\ request = NoRequest
    /\ news = <<>>
    /\ answered = <<>>
    /\ asks = 0
    /\ told = <<>>
    /\ spoken = <<>>

InForce == IF format = "responses" THEN responseToolsForRequest(tools, history) ELSE tools

\* What the plugin makes of a history in the client's format.
Request(items) ==
    IF format = "responses" THEN ResponsesRequest(tools, items, choice)
    ELSE UpstreamRequest(items, tools, choice)

BySystem(message) == message.role \in {"system", "developer"}

Spoken(message) ==
    IF BySystem(message) THEN <<>>
    ELSE [i \in DOMAIN message.content |-> [role |-> message.role, part |-> message.content[i]]]

Told(message) == IF BySystem(message) THEN message.content ELSE <<>>

\* The client's message in its own format.
Written(message) ==
    IF format = "responses"
    THEN [type |-> "message", role |-> message.role, content |-> message.content]
    ELSE [role |-> message.role, content |-> message.content, calls |-> <<>>, id |-> ""]

\* The client adds a message, or none, and sends everything.
Ask(messages) ==
    /\ pc = "client"
    /\ asks < MaxAsks
    /\ history' = history \o [i \in DOMAIN messages |-> Written(messages[i])]
    /\ request' = Request(history')
    /\ pc' = IF request'.ok THEN "upstream" ELSE "refused"
    /\ news' = IF request'.ok THEN <<>> ELSE news \o messages
    /\ told' = told \o FlattenSeq([i \in DOMAIN messages |-> Told(messages[i])])
    /\ spoken' = spoken \o FlattenSeq([i \in DOMAIN messages |-> Spoken(messages[i])])
    /\ asks' = asks + 1
    /\ UNCHANGED <<format, tools, choice, answered>>

\* An additional_tools item, which declares more tools from here on.
AddTools(more) ==
    /\ pc = "client"
    /\ format = "responses"
    /\ Len(SelectSeq(history, LAMBDA item : item.type = "additional_tools")) < MaxAdded
    /\ history' = Append(history, [type |-> "additional_tools", tools |-> more])
    /\ news' = Append(news, [tools |-> more])
    /\ answered' = <<>>
    /\ UNCHANGED <<pc, format, tools, choice, request, asks, told, spoken>>

Custom == IF format = "responses" THEN customTools(InForce) ELSE {}

\* What a client of this format gets of one call.
Delivered(call) ==
    IF format = "responses" THEN responseToolForRequest(InForce, call, Arguments(call, Custom))
    ELSE [id |-> call.id, name |-> call.name, arguments |-> Arguments(call, Custom)]

\* An answer and the results the client gives its calls, as the client keeps them.
Kept(text, got, outputs) ==
    LET content == IF text THEN <<"text">> ELSE <<>>
        calls   == DOMAIN got
    IN IF format = "responses"
       THEN (IF text THEN <<[type |-> "message", role |-> "assistant", content |-> content]>>
             ELSE <<>>)
            \o got
            \o [i \in calls |-> [type |-> "output", call_id |-> got[i].call_id, output |-> outputs[i]]]
       ELSE <<[role |-> "assistant", content |-> content, calls |-> got, id |-> ""]>>
            \o [i \in calls |-> [role |-> "tool", content |-> outputs[i], calls |-> <<>>,
                                 id |-> got[i].id]]

\* What a custom tool is told by its input, whether or not the model wrapped it.
Meaning(text) == IF Head(text) = "input" THEN Tail(text) ELSE text

\* The same as the model and the client said it.
SpokenAnswer(text, said, outputs) ==
    (IF text THEN <<[role |-> "assistant", part |-> "text"]>> ELSE <<>>)
    \o [i \in DOMAIN said |->
          [id |-> said[i].id, name |-> said[i].name,
           arguments |-> IF said[i].name \in Custom THEN <<"input">> \o Meaning(said[i].text)
                         ELSE said[i].text]]
    \o [i \in DOMAIN said |-> [id |-> said[i].id, name |-> said[i].name, output |-> outputs[i]]]

\* The model answers with text, calls or both, and the client runs the calls.
Answer(text, said, outputs) ==
    /\ pc = "upstream"
    /\ \A i \in DOMAIN said : Valid(Arguments(said[i], Custom))
    /\ LET got == [i \in DOMAIN said |-> Delivered(said[i])]
       IN /\ history' = history \o Kept(text, got, outputs)
          /\ answered' = [i \in DOMAIN said |-> [said |-> said[i], got |-> got[i]]]
    /\ spoken' = spoken \o SpokenAnswer(text, said, outputs)
    /\ pc' = "client"
    /\ UNCHANGED <<format, tools, choice, request, news, asks, told>>

\* An answer with unusable arguments, or no answer: an error, and the client asks again.
AnswerFails ==
    /\ pc = "upstream"
    /\ answered' = <<>>
    /\ pc' = "client"
    /\ UNCHANGED <<format, tools, choice, history, request, news, asks, told, spoken>>

Calls ==
    [id : Ids, name : Strangers \cup {AliasOf(tool) : tool \in ToSet(Declared(InForce))},
     input : Inputs]

Said(call) == [id |-> call.id, name |-> call.name, string |-> call.input.string,
               text |-> call.input.text]

CallsSpoken == Len(SelectSeq(spoken, LAMBDA fact : "arguments" \in DOMAIN fact))

\* Up to two calls, under different IDs.
Answers ==
    {<<>>} \cup {<<Said(c)>> : c \in Calls}
    \cup {<<Said(p[1]), Said(p[2])>> : p \in {q \in Calls \X Calls : q[1].id # q[2].id}}

Next ==
    \/ Ask(<<>>)
    \/ \E message \in Messages : Ask(<<message>>)
    \/ \E more \in Additions : AddTools(more)
    \/ /\ pc = "upstream"
       /\ asks < MaxAsks
       /\ \E text \in BOOLEAN, said \in Answers :
             /\ CallsSpoken + Len(said) <= MaxCalls
             /\ \E outputs \in [DOMAIN said -> Outputs] : Answer(text, said, outputs)
    \/ AnswerFails

Spec == Init /\ [][Next]_vars
-----------------------------------------------------------------------------
\* What a message to the upstream tells it: a fact for each part, call and result.
Facts(message) ==
    [j \in DOMAIN message.content |-> [role |-> message.role, part |-> message.content[j]]]
        \o message.calls \o message.results

\* What the upstream reads in a request.
Heard(sent) == FlattenSeq([i \in DOMAIN sent |-> Facts(sent[i])])

\* A request that is accepted brings the model everything that was said, in order: each
\* part of each message, its own calls under the names and with the inputs it used, and
\* each result whole, under the name of the call it answers ("never silently discards
\* input", chat_compat.go), although the client has seen other names and other inputs.
HistoryArrives ==
    pc = "upstream" => Heard(request.sent) = spoken /\ FlattenSeq(request.system) = told

\* A Responses client is called only by what it declared: the call of an offered tool
\* comes as the declared type, under its own name and namespace, with the input the model
\* wrote, for a custom tool verbatim.
DeliveredAsDeclared ==
    format = "responses" =>
        \A i \in DOMAIN answered :
            LET said == answered[i].said
                got  == answered[i].got
            IN \A tool \in ToSet(Declared(InForce)) : AliasOf(tool) = said.name =>
                  /\ got.namespace = tool.ns /\ got.name = tool.name
                  /\ IF tool.type = "custom"
                     THEN got.type = "custom_tool_call" /\ got.input = Meaning(said.text)
                     ELSE got.type = "function_call" /\ got.arguments = said.text

\* Nothing the plugin itself answered makes a later request unusable: once a request was
\* accepted, the next is refused only for tools or unsupported parts the client has added.
OwnHistoryAccepted ==
    pc = "refused" /\ asks > 1 =>
        \E i \in DOMAIN news :
            "tools" \in DOMAIN news[i] \/ ~(ToSet(news[i].content) \subseteq {"text", "image"})

\* The upstream is never offered two tools under one name, nor a tool less than the
\* client declared: a name says which tool is meant.
OfferedDistinct ==
    pc = "upstream" /\ format = "responses" /\ choice # "none" =>
        /\ Cardinality(ToSet(request.tools)) = Len(Declared(InForce))
        /\ Len(request.tools) = Len(Declared(InForce))
=============================================================================

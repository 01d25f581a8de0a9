---------------------------- MODULE ResponseTools ----------------------------
(***************************************************************************)
(* The Responses API on top of chat messages (src/responses.go             *)
(* normalizeResponses, src/responses_namespace.go): its tools are renamed  *)
(* and made plain functions for the upstream, its items become chat        *)
(* messages, and the upstream's calls become items in the client's terms.  *)
(*                                                                         *)
(* A declared tool is [type, name] or, for type "namespace",               *)
(* [type, name, tools].  Tool names are sequences, so that the hash of a   *)
(* namespace and a name is <<namespace>> \o name: it has no collisions,    *)
(* but a client may declare a plain tool with the very name a hash gives.  *)
(***************************************************************************)
EXTENDS ChatMessages

namespaceToolName(ns, name) == IF ns = "" THEN name ELSE <<ns>> \o name

\* What one tool declares, a namespace opened.
Opened(tool) ==
    IF tool.type = "namespace"
    THEN [j \in DOMAIN tool.tools |->
            [ns |-> tool.name, type |-> tool.tools[j].type, name |-> tool.tools[j].name]]
    ELSE <<[ns |-> "", type |-> tool.type, name |-> tool.name]>>

\* The tools a list declares.
Declared(tools) == FlattenSeq([i \in DOMAIN tools |-> Opened(tools[i])])

AliasOf(tool) == namespaceToolName(tool.ns, tool.name)

\* Mutant: names are compared within a namespace only.
DistinctWithin(declared) ==
    \A i, j \in DOMAIN declared :
        i < j /\ declared[i].ns = declared[j].ns => declared[i].name # declared[j].name

Distinct(declared) ==
    \A i, j \in DOMAIN declared : i < j => AliasOf(declared[i]) # AliasOf(declared[j])

\* flattenResponseTools: functions under their aliases, or ok = FALSE.
flattenResponseTools(tools) ==
    LET declared == Declared(tools)
    IN [ok    |-> /\ \A i \in DOMAIN tools : tools[i].type = "namespace" => tools[i].name # ""
                  /\ \A i \in DOMAIN declared : /\ declared[i].type \in {"function", "custom"}
                                                /\ declared[i].name # <<>>
                  /\ Distinct(declared),
        tools |-> [i \in DOMAIN declared |-> [type |-> "function", name |-> AliasOf(declared[i])]]]

Brought(item) == IF item.type = "additional_tools" THEN item.tools ELSE <<>>

\* The tools of the request and those that additional_tools items bring.
responseToolsForRequest(tools, items) ==
    tools \o FlattenSeq([i \in DOMAIN items |-> Brought(items[i])])

customTools(tools) ==
    {AliasOf(tool) : tool \in {t \in ToSet(Declared(tools)) : t.type = "custom"}}

\* Mutant: the input of an earlier custom call is passed on as it is.
PastArgumentsVerbatim(input) == input

\* The arguments of an earlier custom call: its input is always wrapped.
PastArguments(input) == <<"input">> \o input

\* An item as a chat message.
MessageOf(item) ==
    LET Called(arguments) ==
            [role |-> "assistant", content |-> <<>>, id |-> "",
             calls |-> <<[id |-> item.call_id, name |-> namespaceToolName(item.namespace, item.name),
                          arguments |-> arguments]>>]
    IN CASE item.type = "message"          -> [role |-> item.role, content |-> item.content,
                                               calls |-> <<>>, id |-> ""]
         [] item.type = "function_call"    -> Called(item.arguments)
         [] item.type = "custom_tool_call" -> Called(PastArguments(item.input))
         [] item.type = "output"           -> [role |-> "tool", content |-> item.output,
                                               calls |-> <<>>, id |-> item.call_id]

\* A part that is neither text nor an image makes a message unusable in any role.
Usable(item) == item.type = "message" => "other" \notin ToSet(item.content)

\* The chat message of an item, none for one that only brings tools.
MessagesOf(item) == IF item.type = "additional_tools" THEN <<>> ELSE <<MessageOf(item)>>

InputMessages(items) == FlattenSeq([i \in DOMAIN items |-> MessagesOf(items[i])])

\* normalizeResponses, and callUpstream on what it gives.
ResponsesRequest(tools, items, choice) ==
    LET flat    == flattenResponseTools(responseToolsForRequest(tools, items))
        request == UpstreamRequest(InputMessages(items), flat.tools, choice)
    IN [request EXCEPT !.ok = @ /\ flat.ok /\ \A i \in DOMAIN items : Usable(items[i])]

\* Mutant: a string is always wrapped.
ArgumentsAlways(call, custom) ==
    IF call.string /\ call.name \in custom THEN <<"input">> \o call.text ELSE call.text

\* The arguments callUpstream makes of an upstream call [id, name, string, text], whose
\* input is the string text or the JSON value text: a custom tool's string is wrapped
\* unless it is an {"input": ...} object already.
Arguments(call, custom) ==
    IF call.string /\ call.name \in custom /\ Head(call.text) # "input"
    THEN <<"input">> \o call.text ELSE call.text

\* responseToolForRequest: the call under the name, namespace and type the client declared,
\* those of the first tool with that alias.
responseToolForRequest(tools, call, arguments) ==
    LET matching == {i \in DOMAIN Declared(tools) : AliasOf(Declared(tools)[i]) = call.name}
        tool     == Declared(tools)[Min(matching)]
    IN IF matching = {}
       THEN [type |-> "function_call", call_id |-> call.id, namespace |-> "", name |-> call.name,
             arguments |-> arguments]
       ELSE IF tool.type = "custom"
       THEN [type |-> "custom_tool_call", call_id |-> call.id,
             namespace |-> tool.ns, name |-> tool.name,
             input |-> IF Head(arguments) = "input" THEN Tail(arguments) ELSE arguments]
       ELSE [type |-> "function_call", call_id |-> call.id,
             namespace |-> tool.ns, name |-> tool.name,
             arguments |-> arguments]
=============================================================================

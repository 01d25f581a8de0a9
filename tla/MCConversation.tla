--------------------------- MODULE MCConversation ---------------------------
(* Small conversations.  The tool lists hold every type, a namespace with the same tool *)
(* names as the top level, and lists that have to be refused: two tools under one name, *)
(* a plain tool named like the alias of another, a type the upstream does not have and a *)
(* namespace within a namespace.                                                         *)
EXTENDS Conversation

Tool(type, name) == [type |-> type, name |-> name]
Space(name, children) == [type |-> "namespace", name |-> name, tools |-> children]

Read == Tool("function", <<"read">>)
Patch == Tool("custom", <<"patch">>)
Files == Space("fs", <<Patch>>)

MCToolLists ==
    [format : {"responses"}, choice : {"auto"},
     tools : {<<Patch, Files>>, <<Read, Tool("custom", <<"read">>)>>,
              <<Tool("function", <<"fs", "patch">>), Files>>, <<Tool("web_search", <<"web">>)>>,
              <<Space("fs", <<Tool("namespace", <<"deep">>)>>)>>}]
    \cup [format : {"responses"}, choice : {"none"}, tools : {<<Patch>>}]
    \cup [format : {"openai"}, choice : {"auto", "none"}, tools : {<<Read>>, <<Read, Patch>>}]

MCAdditions == {<<Read>>}

MCMessages ==
    {[role |-> "user", content |-> <<"image", "text">>], [role |-> "user", content |-> <<"remote">>],
     [role |-> "system", content |-> <<"text">>]}

TextMessages == {[role |-> "user", content |-> <<"text">>]}
MCOutputs == {<<"text">>}
\* The result of a tool that looks at an image.
ImageOutputs == {<<"text", "image">>}

MCInputs ==
    [string : {TRUE}, text : {<<"raw">>, <<"doc">>, <<"input", "raw">>}]
    \cup [string : {FALSE}, text : {<<"doc">>, <<"input", "raw">>}]

MCStrangers == {<<"unknown">>}

Symmetry == Permutations(Ids)
=============================================================================

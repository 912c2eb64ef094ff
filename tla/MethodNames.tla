----------------------------- MODULE MethodNames -----------------------------
(***************************************************************************)
(* rpcmethods: the wrapper around the MCP server that rewrites the method  *)
(* names of requests and adds suggestions to the errors about unknown      *)
(* ones, as the HTTP server of cmd/server calls it.                        *)
(*                                                                         *)
(* A name is a sequence of words and separators.  Of a word it matters     *)
(* which of the four words that the wrapper looks for it contains, and of  *)
(* which words it is a fragment, since both look for substrings.  The      *)
(* server behind the wrapper (mcp-go) is external: it accepts certain      *)
(* names and answers the others with "method not found".                   *)
(***************************************************************************)
EXTENDS Sequences, Naturals

CONSTANTS
    Words,          \* the words names are made of
    WithResource,   \* those that contain "resource",
    WithRead,       \* "read",
    WithTool,       \* "tool",
    WithCall,       \* "call"
    Lower,          \* strings.ToLower of a word or separator
    Inside,         \* the pairs of words where the first stands inside the second,
    Ending,         \*   at its end,
    Beginning,      \*   or at its beginning
    Names,          \* the names clients come up with
    Accepted        \* the names the server knows

Tokens == Words \cup {".", "/"}

MethodResourceRead == <<"method", ".", "resource", ".", "read">>
MethodToolCall == <<"method", ".", "tool", ".", "call">>
methodRegistry == {MethodResourceRead, MethodToolCall}

ASSUME TokensAssumption ==
    /\ {"mcp", "method", "resource", "read", "tool", "call"} \subseteq Words
    /\ Words \cap {".", "/"} = {}
    /\ Lower \in [Tokens -> Tokens]
ASSUME ContainsAssumption ==
    /\ WithResource \cup WithRead \cup WithTool \cup WithCall \subseteq Words
    /\ "resource" \in WithResource /\ "read" \in WithRead
    /\ "tool" \in WithTool /\ "call" \in WithCall
    /\ {"method", "tool", "call", "mcp"} \cap WithResource = {}
    /\ "mcp" \notin WithRead \cup WithTool \cup WithCall
ASSUME FragmentsAssumption == Inside \cup Ending \cup Beginning \subseteq Words \X Words
ASSUME LowerAssumption == \A m \in methodRegistry : \A i \in DOMAIN m : Lower[m[i]] = m[i]
ASSUME NamesAssumption == Names \subseteq Seq(Tokens)
\* As long as the server does not know the names the wrapper rewrites to.
ASSUME AcceptedAssumption == Accepted \subseteq Seq(Tokens) \ methodRegistry

VARIABLES
    phase,       \* where the request is
    request,     \* what the client sent
    forwarded,   \* what the server was asked
    answer,      \* what the client is told
    guided       \* history: the client has the name from the package itself

vars == <<phase, request, forwarded, answer, guided>>

\* A request that is no POST, one whose body cannot be read, one that is no JSON
\* object, one without a method or with one that is no string, one with a name.
Forms == {"get", "broken", "unparsable", "nameless", "named"}
Message == [form : Forms, method : Seq(Tokens)]

Kinds == {"none", "rejected", "result", "error", "notFound", "silence"}
Answer == [kind : Kinds, suggested : SUBSET methodRegistry]

Nothing == [kind |-> "none", suggested |-> {}]
NoMessage == [form |-> "get", method |-> <<>>]

TypeOK ==
    /\ phase \in {"ready", "received", "asked", "answered"}
    /\ request \in Message
    /\ forwarded \in Message
    /\ answer \in Answer
    /\ guided \in BOOLEAN

Init ==
    /\ phase = "ready"
    /\ request = NoMessage
    /\ forwarded = NoMessage
    /\ answer = Nothing
    /\ guided = FALSE

-----------------------------------------------------------------------------
(* The rewriting of names. *)

\* Slashes become dots.
Dotted(name) == [i \in DOMAIN name |-> IF name[i] = "/" THEN "." ELSE name[i]]

Contains(name, words) == \E i \in DOMAIN name : name[i] \in words

ReadsResource(name) == Contains(name, WithResource) /\ Contains(name, WithRead)
CallsTool(name) == Contains(name, WithTool) /\ Contains(name, WithCall)

HasPrefix(name) == Len(name) >= 2 /\ name[1] = "mcp" /\ name[2] = "."

\* One prefix is taken off.
WithoutPrefix(name) == IF HasPrefix(name) THEN SubSeq(name, 3, Len(name)) ELSE name

\* The patterns that are compared as a whole; most contain the words already.
ResourcePatterns ==
    {<<"resource", ".", "read">>, <<"resources", ".", "read">>, <<"read_resource">>,
     <<"get_resource">>, <<"Resources", ".", "Read">>}
ToolPatterns ==
    {<<"tool", ".", "call">>, <<"tools", ".", "call">>, <<"call_tool">>,
     <<"execute_tool">>, <<"Tools", ".", "Call">>}

IsValidMethod(name) == name \in methodRegistry

\* A name that is left after the words were looked for and the prefix taken off.
Standard(name) ==
    CASE IsValidMethod(name) -> name
      [] name \in ResourcePatterns -> MethodResourceRead
      [] name \in ToolPatterns -> MethodToolCall
      [] OTHER -> name

\* A name in dots that contains the words is rewritten for them, else by the rest.
ByWords(dotted, rest) ==
    CASE ReadsResource(dotted) -> MethodResourceRead
      [] CallsTool(dotted) /\ ~ReadsResource(dotted) -> MethodToolCall
      [] OTHER -> rest

\* The names of the package are rewritten to those without "method".
NormalizedShort(name) ==
    IF IsValidMethod(name) THEN SubSeq(name, 3, 5)
    ELSE ByWords(Dotted(name), Standard(WithoutPrefix(Dotted(name))))

\* The prefix is looked for before the slashes are replaced.
NormalizedPrefixFirst(name) ==
    ByWords(Dotted(WithoutPrefix(name)), Standard(Dotted(WithoutPrefix(name))))

\* A prefix behind the prefix is taken off, too.
NormalizedTwice(name) ==
    ByWords(Dotted(name), Standard(WithoutPrefix(WithoutPrefix(Dotted(name)))))

normalizeMethodName(name) ==
    ByWords(Dotted(name), Standard(WithoutPrefix(Dotted(name))))

-----------------------------------------------------------------------------
(* The suggestions. *)

\* How a word may be a fragment at place i of n: between two others it is none.
Fragments(i, n) ==
    CASE n = 1 -> Inside
      [] n > 1 /\ i = 1 -> Ending
      [] n > 1 /\ i = n -> Beginning
      [] OTHER -> {}

\* part stands somewhere in whole; its first and its last word may be fragments.
PartOf(part, whole) ==
    \E start \in 0..Len(whole) :
        /\ start + Len(part) <= Len(whole)
        /\ \A i \in 1..Len(part) :
               \/ part[i] = whole[start + i]
               \/ <<part[i], whole[start + i]>> \in Fragments(i, Len(part))

FindMethod(name) ==
    { m \in methodRegistry : PartOf([i \in DOMAIN name |-> Lower[name[i]]], m) }

GetMethodSuggestions(name) ==
    IF FindMethod(name) = {} THEN methodRegistry ELSE FindMethod(name)

-----------------------------------------------------------------------------
(* A client and its requests, one after the other. *)

Send(form, name, hinted) ==
    /\ phase' = "received"
    /\ request' = [form |-> form, method |-> name]
    /\ forwarded' = NoMessage
    /\ answer' = Nothing
    /\ guided' = hinted

\* Any request, with a name only if it has one.
Request ==
    /\ phase = "ready"
    /\ \/ \E name \in Names : Send("named", name, FALSE)
       \/ \E form \in Forms \ {"named"} : Send(form, <<>>, FALSE)

\* FormatResourceRequest and FormatToolRequest.
FormatRequest == phase = "ready" /\ \E m \in methodRegistry : Send("named", m, TRUE)

\* The client tries one of the names that were suggested to it.
Retry == phase = "answered" /\ \E m \in answer.suggested : Send("named", m, TRUE)

GiveUp ==
    /\ phase = "answered"
    /\ phase' = "ready"
    /\ request' = NoMessage
    /\ forwarded' = NoMessage
    /\ answer' = Nothing
    /\ guided' = FALSE

\* The HTTP handler turns away what is no POST or cannot be read.
Reject ==
    /\ phase = "received"
    /\ request.form \in {"get", "broken"}
    /\ answer' = [kind |-> "rejected", suggested |-> {}]
    /\ phase' = "answered"
    /\ UNCHANGED <<request, forwarded, guided>>

\* HandleMessage up to the call of the server: a message that cannot be parsed
\* or has no name is passed on as it is.
Forward ==
    /\ phase = "received"
    /\ \/ request.form \in {"unparsable", "nameless"} /\ forwarded' = request
       \/ /\ request.form = "named"
          /\ forwarded' = [request EXCEPT !.method = normalizeMethodName(@)]
    /\ phase' = "asked"
    /\ UNCHANGED <<request, answer, guided>>

\* What the server answers: a notification gets no answer at all.  What it makes
\* of a message in which the wrapper found no name is its own affair.
ServerAnswers(message) ==
    IF message.form = "named"
    THEN IF message.method \in Accepted THEN {"result", "error", "silence"}
         ELSE {"notFound", "silence"}
    ELSE {"result", "error", "notFound", "silence"}

\* The suggestions are for the name the server was asked for.
ReturnForwarded ==
    /\ phase = "asked"
    /\ \E kind \in ServerAnswers(forwarded) :
        answer' = [kind |-> kind,
                   suggested |-> IF kind = "notFound" /\ request.form = "named"
                                 THEN GetMethodSuggestions(forwarded.method) ELSE {}]
    /\ phase' = "answered"
    /\ UNCHANGED <<request, forwarded, guided>>

\* The rest of HandleMessage: suggestions for the name as it was sent.  What was
\* passed on as it is gets the server's own answer.
Return ==
    /\ phase = "asked"
    /\ \E kind \in ServerAnswers(forwarded) :
        answer' = [kind |-> kind,
                   suggested |-> IF kind = "notFound" /\ request.form = "named"
                                 THEN GetMethodSuggestions(request.method) ELSE {}]
    /\ phase' = "answered"
    /\ UNCHANGED <<request, forwarded, guided>>

Next == Request \/ FormatRequest \/ Retry \/ GiveUp \/ Reject \/ Forward \/ Return

Spec == Init /\ [][Next]_vars

-----------------------------------------------------------------------------
(* Properties *)

Slashed(name) == [i \in DOMAIN name |-> IF name[i] = "." THEN "/" ELSE name[i]]

\* The ways to write a name: with dots, with slashes, and each with the prefix,
\* unless there is one already.
Spellings(name) ==
    LET plain == {name, Dotted(name), Slashed(name)}
    IN  IF HasPrefix(Dotted(name)) THEN plain
        ELSE plain \cup {<<"mcp", sep>> \o n : sep \in {".", "/"}, n \in plain}

\* Every spelling of the name that was sent reaches the server as the same method.
SpellingsAgree ==
    phase = "asked" /\ request.form = "named" =>
        \A name \in Spellings(request.method) : normalizeMethodName(name) = forwarded.method

\* A client that takes a name from the package, because it was suggested or by
\* FormatResourceRequest and FormatToolRequest, is asking for that very method,
\* and if the server does not know it is never sent on to another.
SuggestionsSettle ==
    phase = "answered" /\ guided =>
        /\ forwarded.method = request.method
        /\ answer.suggested \subseteq {request.method}

\* The server carries out no method but the one that was sent, which may be spelled
\* with slashes or one prefix: nothing else is taken off or put into a name.  A name
\* with the words of a standard one is not carried out at all (AcceptedAssumption).
AnsweredAsAsked ==
    phase = "answered" /\ request.form = "named" /\ answer.kind = "result" =>
        Dotted(request.method) \in {forwarded.method, <<"mcp", ".">> \o forwarded.method}

\* The methods the server can be reached for: none with a slash in it, so none of
\* the methods of MCP but "initialize" and "ping", and none that contains the words,
\* in whatever order and with whatever else.
ReachesOnlyPlain ==
    phase = "answered" /\ request.form = "named" /\ answer.kind = "result" =>
        /\ ~Contains(forwarded.method, {"/"})
        /\ ~ReadsResource(Dotted(request.method))
        /\ ~CallsTool(Dotted(request.method))

\* Rewriting is done with after one pass, except where a second prefix is left.
NormalizedOnce(name) ==
    LET once == normalizeMethodName(name)
    IN  ~HasPrefix(once) => normalizeMethodName(once) = once

-----------------------------------------------------------------------------
(* What each phase knows of the request: the invariant behind the above. *)

Rewritten ==
    phase \in {"asked", "answered"} /\ request.form = "named" =>
        forwarded = [request EXCEPT !.method = normalizeMethodName(@)]

Guided == guided => request.form = "named" /\ request.method \in methodRegistry

Answered ==
    phase = "answered" =>
        /\ answer.kind = "result" /\ request.form = "named" => forwarded.method \in Accepted
        /\ answer.suggested \in {{}, GetMethodSuggestions(request.method)}

IInv == TypeOK /\ Rewritten /\ Guided /\ Answered
=============================================================================

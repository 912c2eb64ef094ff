------------------------- MODULE MethodNames_proofs -------------------------
(***************************************************************************)
(* Proofs about the rewriting of method names, for any words and names.    *)
(***************************************************************************)
EXTENDS MethodNames, TLAPS

-----------------------------------------------------------------------------
(* Types. *)

LEMMA StandardNamesTyped == methodRegistry \subseteq Seq(Tokens)
<1>1. {"method", "resource", "read", "tool", "call", "."} \subseteq Tokens
  BY TokensAssumption DEF Tokens
<1>2. MethodResourceRead \in Seq(Tokens)
  BY <1>1 DEF MethodResourceRead
<1>3. MethodToolCall \in Seq(Tokens)
  BY <1>1 DEF MethodToolCall
<1> QED BY <1>2, <1>3 DEF methodRegistry

LEMMA DottedTyped ==
    ASSUME NEW name \in Seq(Tokens)
    PROVE  /\ Dotted(name) \in Seq(Tokens)
           /\ Len(Dotted(name)) = Len(name)
           /\ \A i \in 1..Len(name) :
                Dotted(name)[i] = IF name[i] = "/" THEN "." ELSE name[i]
<1>1. \A i \in 1..Len(name) : (IF name[i] = "/" THEN "." ELSE name[i]) \in Tokens
  BY DEF Tokens
<1>2. DOMAIN name = 1..Len(name) /\ Len(name) \in Nat
  OBVIOUS
<1> QED BY <1>1, <1>2 DEF Dotted

LEMMA SlashedTyped ==
    ASSUME NEW name \in Seq(Tokens)
    PROVE  /\ Slashed(name) \in Seq(Tokens)
           /\ Len(Slashed(name)) = Len(name)
           /\ \A i \in 1..Len(name) :
                Slashed(name)[i] = IF name[i] = "." THEN "/" ELSE name[i]
<1>1. \A i \in 1..Len(name) : (IF name[i] = "." THEN "/" ELSE name[i]) \in Tokens
  BY DEF Tokens
<1>2. DOMAIN name = 1..Len(name) /\ Len(name) \in Nat
  OBVIOUS
<1> QED BY <1>1, <1>2 DEF Slashed

LEMMA WithoutPrefixTyped ==
    ASSUME NEW name \in Seq(Tokens)
    PROVE  WithoutPrefix(name) \in Seq(Tokens)
BY DEF WithoutPrefix, HasPrefix

\* What is left by the words is a standard name or the dotted name less a prefix.
LEMMA NormalizeCases ==
    ASSUME NEW name
    PROVE  \/ normalizeMethodName(name) \in methodRegistry
           \/ normalizeMethodName(name) = WithoutPrefix(Dotted(name))
BY DEF normalizeMethodName, ByWords, Standard, IsValidMethod, methodRegistry

LEMMA NormalizeTyped ==
    ASSUME NEW name \in Seq(Tokens)
    PROVE  normalizeMethodName(name) \in Seq(Tokens)
BY NormalizeCases, StandardNamesTyped, DottedTyped, WithoutPrefixTyped

-----------------------------------------------------------------------------
(* The names of the package are left as they are. *)

LEMMA DottedKeepsStandard ==
    ASSUME NEW m \in methodRegistry
    PROVE  Dotted(m) = m
<1>1. \A i \in DOMAIN m : m[i] # "/"
  BY DEF methodRegistry, MethodResourceRead, MethodToolCall
<1>2. Dotted(m) = [i \in DOMAIN m |-> m[i]]
  BY <1>1 DEF Dotted
<1>3. m = [i \in DOMAIN m |-> m[i]]
  BY StandardNamesTyped
<1> QED BY <1>2, <1>3

LEMMA NormalizeKeepsStandard ==
    ASSUME NEW m \in methodRegistry
    PROVE  normalizeMethodName(m) = m
<1>1. CASE m = MethodResourceRead
  <2>1. m[3] = "resource" /\ m[5] = "read" /\ {3, 5} \subseteq DOMAIN m
    BY <1>1 DEF MethodResourceRead
  <2>2. ReadsResource(m)
    BY <2>1, ContainsAssumption DEF ReadsResource, Contains
  <2> QED BY <1>1, <2>2, DottedKeepsStandard DEF normalizeMethodName, ByWords
<1>2. CASE m = MethodToolCall
  <2>1. m[3] = "tool" /\ m[5] = "call" /\ {3, 5} \subseteq DOMAIN m
    BY <1>2 DEF MethodToolCall
  <2>2. CallsTool(m)
    BY <2>1, ContainsAssumption DEF CallsTool, Contains
  <2>3. \A i \in DOMAIN m : m[i] \in {"method", ".", "tool", "call"}
    BY <1>2 DEF MethodToolCall
  <2>4. "." \notin WithResource
    BY ContainsAssumption, TokensAssumption
  <2>5. ~ReadsResource(m)
    BY <2>3, <2>4, ContainsAssumption DEF ReadsResource, Contains
  <2> QED BY <1>2, <2>2, <2>5, DottedKeepsStandard DEF normalizeMethodName, ByWords
<1> QED BY <1>1, <1>2 DEF methodRegistry

\* And the only suggestion for one of them is itself.
LEMMA SuggestionsForStandard ==
    ASSUME NEW m \in methodRegistry
    PROVE  GetMethodSuggestions(m) = {m}
<1>1. [i \in DOMAIN m |-> Lower[m[i]]] = m
  <2>1. [i \in DOMAIN m |-> Lower[m[i]]] = [i \in DOMAIN m |-> m[i]]
    BY LowerAssumption
  <2> QED BY <2>1, StandardNamesTyped
<1>2. \A n \in methodRegistry : Len(n) = 5 /\ n \in Seq(Tokens)
  BY StandardNamesTyped DEF methodRegistry, MethodResourceRead, MethodToolCall
<1>3. PartOf(m, m)
  BY <1>2 DEF PartOf
<1>4. \A n \in methodRegistry : PartOf(m, n) => n = m
  <2> SUFFICES ASSUME NEW n \in methodRegistry, PartOf(m, n) PROVE n = m
    OBVIOUS
  <2>1. PICK start \in 0..Len(n) :
            /\ start + Len(m) <= Len(n)
            /\ \A i \in 1..Len(m) :
                   m[i] = n[start + i] \/ <<m[i], n[start + i]>> \in Fragments(i, Len(m))
    BY DEF PartOf
  <2>2. start = 0 /\ Len(m) = 5
    BY <1>2, <2>1
  <2>3. Fragments(3, 5) = {}
    BY DEF Fragments
  <2>4. m[3] = n[3]
    <3>1. m[3] = n[start + 3] \/ <<m[3], n[start + 3]>> \in Fragments(3, 5)
      BY <2>1, <2>2
    <3> QED BY <2>2, <2>3, <3>1
  <2> QED BY <2>4 DEF methodRegistry, MethodResourceRead, MethodToolCall
<1>5. FindMethod(m) = {m}
  BY <1>1, <1>3, <1>4 DEF FindMethod
<1> QED BY <1>5 DEF GetMethodSuggestions

-----------------------------------------------------------------------------
(* The invariant. *)

LEMMA InitEstablishesIInv == Init => IInv
<1>1. <<>> \in Seq(Tokens)
  OBVIOUS
<1>2. NoMessage \in Message
  BY <1>1 DEF NoMessage, Message, Forms
<1>3. Nothing \in Answer
  BY DEF Nothing, Answer, Kinds
<1> QED BY <1>2, <1>3 DEF Init, IInv, TypeOK, Rewritten, Guided, Answered

LEMMA SendKeepsIInv ==
    ASSUME NEW form \in Forms, NEW name \in Seq(Tokens), NEW hinted \in BOOLEAN,
           Send(form, name, hinted),
           hinted => form = "named" /\ name \in methodRegistry
    PROVE  IInv'
<1>1. request' \in Message /\ request'.form = form /\ request'.method = name
  BY DEF Send, Message
<1>2. NoMessage \in Message
  BY DEF NoMessage, Message, Forms
<1>3. Nothing \in Answer
  BY DEF Nothing, Answer, Kinds
<1>4. TypeOK'
  BY <1>1, <1>2, <1>3 DEF Send, TypeOK
<1>5. phase' = "received" /\ guided' = hinted
  BY DEF Send
<1> QED BY <1>1, <1>4, <1>5 DEF IInv, Rewritten, Guided, Answered

LEMMA ClientKeepsIInv == IInv /\ (Request \/ FormatRequest \/ Retry \/ GiveUp) => IInv'
<1> SUFFICES ASSUME IInv, Request \/ FormatRequest \/ Retry \/ GiveUp PROVE IInv'
  OBVIOUS
<1>1. CASE \E name \in Names : Send("named", name, FALSE)
  BY <1>1, SendKeepsIInv, NamesAssumption DEF Forms
<1>2. CASE \E form \in Forms \ {"named"} : Send(form, <<>>, FALSE)
  <2>1. <<>> \in Seq(Tokens)
    OBVIOUS
  <2> QED BY <1>2, <2>1, SendKeepsIInv
<1>3. CASE \E m \in methodRegistry : Send("named", m, TRUE)
  BY <1>3, SendKeepsIInv, StandardNamesTyped DEF Forms
<1>4. CASE Retry
  <2>1. answer.suggested \subseteq methodRegistry
    BY DEF IInv, TypeOK, Answer
  <2> QED BY <1>3, <1>4, <2>1 DEF Retry
<1>5. CASE GiveUp
  <2>1. NoMessage \in Message /\ Nothing \in Answer
    <3>1. <<>> \in Seq(Tokens)
      OBVIOUS
    <3> QED BY <3>1 DEF NoMessage, Message, Forms, Nothing, Answer, Kinds
  <2> QED BY <1>5, <2>1 DEF GiveUp, IInv, TypeOK, Rewritten, Guided, Answered
<1> QED BY <1>1, <1>2, <1>3, <1>4, <1>5 DEF Request, FormatRequest

LEMMA RejectKeepsIInv == IInv /\ Reject => IInv'
<1> SUFFICES ASSUME IInv, Reject PROVE IInv'
  OBVIOUS
<1>1. answer' \in Answer
  BY DEF Reject, Answer, Kinds
<1>2. TypeOK'
  BY <1>1 DEF Reject, IInv, TypeOK
<1>3. request' = request /\ guided' = guided /\ request.form # "named"
      /\ answer'.suggested = {} /\ answer'.kind = "rejected"
  BY DEF Reject
<1> QED BY <1>2, <1>3 DEF IInv, Rewritten, Guided, Answered

LEMMA ForwardKeepsIInv == IInv /\ Forward => IInv'
<1> SUFFICES ASSUME IInv, Forward PROVE IInv'
  OBVIOUS
<1> USE DEF IInv
<1>1. request \in Message /\ request.method \in Seq(Tokens)
  BY DEF TypeOK, Message
<1>2. normalizeMethodName(request.method) \in Seq(Tokens)
  BY <1>1, NormalizeTyped
<1>3. forwarded' \in Message
        /\ (request.form = "named" =>
              forwarded' = [request EXCEPT !.method = normalizeMethodName(@)])
  BY <1>1, <1>2 DEF Forward, Message
<1>4. phase' = "asked" /\ UNCHANGED <<request, answer, guided>>
  BY DEF Forward
<1> QED BY <1>3, <1>4 DEF TypeOK, Rewritten, Guided, Answered

LEMMA ReturnKeepsIInv == IInv /\ Return => IInv'
<1> SUFFICES ASSUME IInv, Return PROVE IInv'
  OBVIOUS
<1> USE DEF IInv
<1>1. PICK kind \in ServerAnswers(forwarded) :
        answer' = [kind |-> kind,
                   suggested |-> IF kind = "notFound" /\ request.form = "named"
                                 THEN GetMethodSuggestions(request.method) ELSE {}]
  BY DEF Return
<1>2. kind \in Kinds
  BY DEF ServerAnswers, Kinds
<1>3. GetMethodSuggestions(request.method) \subseteq methodRegistry
  BY DEF GetMethodSuggestions, FindMethod
<1>4. answer' \in Answer /\ answer'.kind = kind
      /\ answer'.suggested \in {{}, GetMethodSuggestions(request.method)}
  BY <1>1, <1>2, <1>3 DEF Answer
<1>5. phase' = "answered" /\ UNCHANGED <<request, forwarded, guided>> /\ phase = "asked"
  BY DEF Return
<1>6. request.form = "named" => forwarded.form = "named"
  BY <1>5 DEF Rewritten, TypeOK, Message
<1>7. kind = "result" /\ request.form = "named" => forwarded.method \in Accepted
  BY <1>6 DEF ServerAnswers
<1> QED BY <1>4, <1>5, <1>7 DEF TypeOK, Rewritten, Guided, Answered

LEMMA NextKeepsIInv == IInv /\ [Next]_vars => IInv'
<1> SUFFICES ASSUME IInv, [Next]_vars PROVE IInv'
  OBVIOUS
<1>1. CASE UNCHANGED vars
  BY <1>1 DEF vars, IInv, TypeOK, Rewritten, Guided, Answered
<1>2. CASE Next
  BY <1>2, ClientKeepsIInv, RejectKeepsIInv, ForwardKeepsIInv, ReturnKeepsIInv DEF Next
<1> QED BY <1>1, <1>2

\* The invariant holds in every reachable state.
THEOREM InductiveInvariant == Spec => []IInv
<1> QED BY InitEstablishesIInv, NextKeepsIInv, PTL DEF Spec

-----------------------------------------------------------------------------
(* The properties. *)

\* A name from the package reaches the server unchanged, and is the only one that
\* can be suggested for it.
THEOREM SuggestionsSettleHolds == Spec => []SuggestionsSettle
<1>1. IInv => SuggestionsSettle
  <2> SUFFICES ASSUME IInv, phase = "answered", guided
               PROVE  /\ forwarded.method = request.method
                      /\ answer.suggested \subseteq {request.method}
    BY DEF SuggestionsSettle
  <2>1. request.form = "named" /\ request.method \in methodRegistry
    BY DEF IInv, Guided
  <2>2. forwarded.method = normalizeMethodName(request.method)
    BY <2>1 DEF IInv, TypeOK, Message, Rewritten
  <2>3. answer.suggested \in {{}, {request.method}}
    BY <2>1, SuggestionsForStandard DEF IInv, Answered
  <2> QED BY <2>1, <2>2, <2>3, NormalizeKeepsStandard
<1> QED BY <1>1, InductiveInvariant, PTL

LEMMA PrefixRestores ==
    ASSUME NEW name \in Seq(Tokens), HasPrefix(name)
    PROVE  name = <<"mcp", ".">> \o WithoutPrefix(name)
BY DEF HasPrefix, WithoutPrefix

\* Behind a prefix comes what stood there.
LEMMA RestOfPrefixed ==
    ASSUME NEW name \in Seq(Tokens), HasPrefix(name)
    PROVE  \A i \in DOMAIN SubSeq(name, 3, Len(name)) :
               i + 2 \in DOMAIN name /\ SubSeq(name, 3, Len(name))[i] = name[i + 2]
BY DEF HasPrefix

\* The server carries out no method but the one the client named.
THEOREM AnsweredAsAskedHolds == Spec => []AnsweredAsAsked
<1>1. IInv => AnsweredAsAsked
  <2> SUFFICES ASSUME IInv, phase = "answered", request.form = "named",
                      answer.kind = "result"
               PROVE  Dotted(request.method)
                        \in {forwarded.method, <<"mcp", ".">> \o forwarded.method}
    BY DEF AnsweredAsAsked
  <2> DEFINE dotted == Dotted(request.method)
  <2>1. request.method \in Seq(Tokens)
        /\ forwarded.method = normalizeMethodName(request.method)
    BY DEF IInv, TypeOK, Message, Rewritten
  <2>2. forwarded.method \notin methodRegistry
    BY AcceptedAssumption DEF IInv, Answered
  <2>3. forwarded.method = WithoutPrefix(dotted)
    BY <2>1, <2>2, NormalizeCases
  <2>4. dotted \in Seq(Tokens)
    BY <2>1, DottedTyped
  <2>5. CASE HasPrefix(dotted)
    BY <2>3, <2>4, <2>5, PrefixRestores
  <2>6. CASE ~HasPrefix(dotted)
    BY <2>3, <2>6 DEF WithoutPrefix
  <2> QED BY <2>5, <2>6
<1> QED BY <1>1, InductiveInvariant, PTL

\* Dots have no slashes, and taking a prefix off brings none in.
LEMMA NormalizedHasNoSlash ==
    ASSUME NEW name \in Seq(Tokens)
    PROVE  ~Contains(normalizeMethodName(name), {"/"})
<1> DEFINE dotted == Dotted(name)
<1>1. dotted \in Seq(Tokens) /\ \A i \in 1..Len(dotted) : dotted[i] # "/"
  BY DottedTyped
<1>2. CASE normalizeMethodName(name) \in methodRegistry
  BY <1>2 DEF Contains, methodRegistry, MethodResourceRead, MethodToolCall
<1>3. CASE normalizeMethodName(name) = WithoutPrefix(dotted)
  <2>1. \A i \in DOMAIN WithoutPrefix(dotted) : WithoutPrefix(dotted)[i] # "/"
    <3>1. CASE ~HasPrefix(dotted)
      BY <1>1, <3>1 DEF WithoutPrefix
    <3>2. CASE HasPrefix(dotted)
      BY <1>1, <3>2, RestOfPrefixed DEF WithoutPrefix
    <3> QED BY <3>1, <3>2
  <2> QED BY <1>3, <2>1 DEF Contains
<1> QED BY <1>2, <1>3, NormalizeCases

\* A name with the words is always rewritten to one of the package.
LEMMA WordsRewritten ==
    ASSUME NEW name, ReadsResource(Dotted(name)) \/ CallsTool(Dotted(name))
    PROVE  normalizeMethodName(name) \in methodRegistry
BY DEF normalizeMethodName, ByWords, methodRegistry

\* Neither a method of MCP with a slash nor any name with the words is ever
\* carried out, whatever methods the server has.
THEOREM ReachesOnlyPlainHolds == Spec => []ReachesOnlyPlain
<1>1. IInv => ReachesOnlyPlain
  <2> SUFFICES ASSUME IInv, phase = "answered", request.form = "named",
                      answer.kind = "result"
               PROVE  /\ ~Contains(forwarded.method, {"/"})
                      /\ ~ReadsResource(Dotted(request.method))
                      /\ ~CallsTool(Dotted(request.method))
    BY DEF ReachesOnlyPlain
  <2>1. request.method \in Seq(Tokens)
        /\ forwarded.method = normalizeMethodName(request.method)
    BY DEF IInv, TypeOK, Message, Rewritten
  <2>2. forwarded.method \notin methodRegistry
    BY AcceptedAssumption DEF IInv, Answered
  <2> QED BY <2>1, <2>2, NormalizedHasNoSlash, WordsRewritten
<1> QED BY <1>1, InductiveInvariant, PTL

\* A second pass over a name that was rewritten changes nothing: what is not a name
\* of the package has neither slashes nor the words nor one of the patterns left.
THEOREM NormalizedOnceHolds == \A name \in Seq(Tokens) : NormalizedOnce(name)
<1> SUFFICES ASSUME NEW name \in Seq(Tokens), ~HasPrefix(normalizeMethodName(name))
             PROVE  normalizeMethodName(normalizeMethodName(name)) = normalizeMethodName(name)
  BY DEF NormalizedOnce
<1> DEFINE once == normalizeMethodName(name)
           dotted == Dotted(name)
<1>1. CASE once \in methodRegistry
  BY <1>1, NormalizeKeepsStandard
<1>2. CASE once \notin methodRegistry
  <2>1. dotted \in Seq(Tokens) /\ once \in Seq(Tokens)
    BY DottedTyped, NormalizeTyped
  <2>2. once = WithoutPrefix(dotted) /\ ~ReadsResource(dotted) /\ ~CallsTool(dotted)
    BY <1>2, NormalizeCases, WordsRewritten
  <2>3. Standard(once) = once
    <3>1. once = Standard(WithoutPrefix(dotted))
      BY <2>2 DEF normalizeMethodName, ByWords
    <3> QED BY <2>2, <3>1
  <2>4. ~ReadsResource(once) /\ ~CallsTool(once)
    <3>1. CASE HasPrefix(dotted)
      <4>1. \A words : Contains(once, words) => Contains(dotted, words)
        BY <2>1, <2>2, <3>1, RestOfPrefixed DEF WithoutPrefix, Contains
      <4> QED BY <2>2, <4>1 DEF ReadsResource, CallsTool
    <3>2. CASE ~HasPrefix(dotted)
      BY <2>2, <3>2 DEF WithoutPrefix
    <3> QED BY <3>1, <3>2
  <2>5. Dotted(once) = once
    <3>1. \A i \in 1..Len(once) : once[i] # "/"
      BY <2>1, NormalizedHasNoSlash DEF Contains
    <3>2. \A i \in 1..Len(once) : Dotted(once)[i] = once[i]
      BY <2>1, <3>1, DottedTyped
    <3> QED BY <2>1, <3>2, DottedTyped
  <2>6. WithoutPrefix(once) = once
    BY DEF WithoutPrefix
  <2> HIDE DEF once
  <2>7. normalizeMethodName(once) = ByWords(once, Standard(once))
    BY <2>5, <2>6 DEF normalizeMethodName
  <2> QED BY <2>3, <2>4, <2>7 DEF ByWords, once
<1> QED BY <1>1, <1>2

\* Names with the same dots are rewritten alike.
LEMMA NormalizeByDots ==
    ASSUME NEW a, NEW b, Dotted(a) = Dotted(b)
    PROVE  normalizeMethodName(a) = normalizeMethodName(b)
BY DEF normalizeMethodName

LEMMA DotsOfPlain ==
    ASSUME NEW name \in Seq(Tokens), NEW n \in {name, Dotted(name), Slashed(name)}
    PROVE  n \in Seq(Tokens) /\ Dotted(n) = Dotted(name)
<1>1. n \in Seq(Tokens) /\ Len(n) = Len(name)
  BY DottedTyped, SlashedTyped
<1>2. \A i \in 1..Len(name) : Dotted(n)[i] = Dotted(name)[i]
  BY <1>1, DottedTyped, SlashedTyped
<1>3. Dotted(n) \in Seq(Tokens) /\ Dotted(name) \in Seq(Tokens)
      /\ Len(Dotted(n)) = Len(Dotted(name)) /\ Len(Dotted(name)) = Len(name)
  BY <1>1, DottedTyped
<1> QED BY <1>1, <1>2, <1>3

\* A prefix in dots or slashes is one in dots.
LEMMA DotsOfPrefixed ==
    ASSUME NEW n \in Seq(Tokens), NEW sep \in {".", "/"}
    PROVE  Dotted(<<"mcp", sep>> \o n) = <<"mcp", ".">> \o Dotted(n)
<1> DEFINE long == <<"mcp", sep>> \o n
           dots == <<"mcp", ".">> \o Dotted(n)
<1>1. "mcp" \in Tokens /\ sep \in Tokens /\ "." \in Tokens /\ "mcp" # "/"
  BY TokensAssumption DEF Tokens
<1>2. long \in Seq(Tokens) /\ Len(long) = Len(n) + 2 /\ Len(n) \in Nat
      /\ long[1] = "mcp" /\ long[2] = sep /\ \A i \in 3..Len(n) + 2 : long[i] = n[i - 2]
  BY <1>1
<1>3. Dotted(n) \in Seq(Tokens) /\ Len(Dotted(n)) = Len(n)
  BY DottedTyped
<1>4. dots \in Seq(Tokens) /\ Len(dots) = Len(n) + 2
      /\ dots[1] = "mcp" /\ dots[2] = "."
      /\ \A i \in 3..Len(n) + 2 : dots[i] = Dotted(n)[i - 2]
  BY <1>1, <1>3
<1> HIDE DEF long, dots
<1>5. Dotted(long) \in Seq(Tokens) /\ Len(Dotted(long)) = Len(n) + 2
      /\ \A i \in 1..Len(n) + 2 :
            Dotted(long)[i] = IF long[i] = "/" THEN "." ELSE long[i]
  BY <1>2, DottedTyped
<1>6. \A i \in 1..Len(n) + 2 : Dotted(long)[i] = dots[i]
  <2> SUFFICES ASSUME NEW i \in 1..Len(n) + 2 PROVE Dotted(long)[i] = dots[i]
    OBVIOUS
  <2>1. CASE i \in {1, 2}
    BY <1>1, <1>2, <1>4, <1>5, <2>1
  <2>2. CASE i \in 3..Len(n) + 2
    <3>1. i - 2 \in 1..Len(n)
      BY <1>2, <2>2
    <3>2. Dotted(n)[i - 2] = IF n[i - 2] = "/" THEN "." ELSE n[i - 2]
      BY <3>1, DottedTyped
    <3> QED BY <1>2, <1>4, <1>5, <2>2, <3>2
  <2> QED BY <1>2, <2>1, <2>2
<1>7. Dotted(long) = dots
  BY <1>4, <1>5, <1>6
<1> QED BY <1>7 DEF long, dots

\* A prefix is no word that is looked for.
LEMMA ContainsPrefixed ==
    ASSUME NEW n \in Seq(Tokens), NEW words \in SUBSET Words, "mcp" \notin words
    PROVE  Contains(<<"mcp", ".">> \o n, words) <=> Contains(n, words)
<1> DEFINE long == <<"mcp", ".">> \o n
<1>1. "." \notin words
  BY TokensAssumption
<1>2. DOMAIN long = 1..Len(n) + 2 /\ DOMAIN n = 1..Len(n) /\ Len(n) \in Nat
      /\ long[1] = "mcp" /\ long[2] = "."
      /\ \A i \in 1..Len(n) : long[i + 2] = n[i]
  OBVIOUS
<1> HIDE DEF long
<1>3. ASSUME Contains(n, words) PROVE Contains(long, words)
  BY <1>2, <1>3 DEF Contains
<1>4. ASSUME Contains(long, words) PROVE Contains(n, words)
  <2>1. PICK i \in 1..Len(n) + 2 : long[i] \in words
    BY <1>2, <1>4 DEF Contains
  <2>2. i \notin {1, 2}
    BY <1>1, <1>2, <2>1
  <2>3. i - 2 \in 1..Len(n) /\ long[i - 2 + 2] = n[i - 2] /\ i - 2 + 2 = i
    BY <1>2, <2>2
  <2> QED BY <1>2, <2>1, <2>3 DEF Contains
<1>5. Contains(long, words) <=> Contains(n, words)
  BY <1>3, <1>4
<1> QED BY <1>5 DEF long

\* In whatever spelling a name is sent, the server is asked for the same method.
THEOREM SpellingsAgreeHolds == Spec => []SpellingsAgree
<1>1. IInv => SpellingsAgree
  <2> SUFFICES ASSUME IInv, phase = "asked", request.form = "named",
                      NEW name \in Spellings(request.method)
               PROVE  normalizeMethodName(name) = forwarded.method
    BY DEF SpellingsAgree
  <2> DEFINE sent == request.method
             dotted == Dotted(sent)
             long == <<"mcp", ".">> \o dotted
  <2>1. sent \in Seq(Tokens) /\ forwarded.method = normalizeMethodName(sent)
    BY DEF IInv, TypeOK, Message, Rewritten
  <2>2. dotted \in Seq(Tokens)
    BY <2>1, DottedTyped
  <2>3. CASE name \in {sent, dotted, Slashed(sent)}
    BY <2>1, <2>3, DotsOfPlain, NormalizeByDots
  <2>4. CASE ~(name \in {sent, dotted, Slashed(sent)})
    <3>1. ~HasPrefix(dotted)
      BY <2>4 DEF Spellings
    <3>2. PICK sep \in {".", "/"}, n \in {sent, dotted, Slashed(sent)} :
              name = <<"mcp", sep>> \o n
      BY <2>4, <3>1 DEF Spellings
    <3>3. Dotted(name) = long
      <4>1. n \in Seq(Tokens) /\ Dotted(n) = dotted
        BY <2>1, <3>2, DotsOfPlain
      <4>2. Dotted(<<"mcp", sep>> \o n) = <<"mcp", ".">> \o Dotted(n)
        BY <4>1, DotsOfPrefixed
      <4> QED BY <3>2, <4>1, <4>2
    <3>4. ReadsResource(long) <=> ReadsResource(dotted)
      BY <2>2, ContainsPrefixed, ContainsAssumption DEF ReadsResource
    <3>5. CallsTool(long) <=> CallsTool(dotted)
      BY <2>2, ContainsPrefixed, ContainsAssumption DEF CallsTool
    <3>6. WithoutPrefix(long) = dotted /\ WithoutPrefix(dotted) = dotted
      <4>1. HasPrefix(long)
        BY <2>2 DEF HasPrefix
      <4>2. SubSeq(long, 3, Len(long)) = dotted
        BY <2>2
      <4> QED BY <3>1, <4>1, <4>2 DEF WithoutPrefix
    <3> HIDE DEF long, dotted
    <3>7. normalizeMethodName(name) = ByWords(long, Standard(dotted))
      BY <3>3, <3>6 DEF normalizeMethodName
    <3>8. normalizeMethodName(sent) = ByWords(dotted, Standard(dotted))
      BY <3>6 DEF normalizeMethodName, dotted
    <3>9. ByWords(long, Standard(dotted)) = ByWords(dotted, Standard(dotted))
      BY <3>4, <3>5 DEF ByWords
    <3> QED BY <2>1, <3>7, <3>8, <3>9
  <2> QED BY <2>3, <2>4
<1> QED BY <1>1, InductiveInvariant, PTL
=============================================================================

---------------------------- MODULE MCMethodNames ----------------------------
(***************************************************************************)
(* The words of the names that the tests of rpcmethods try, some words of  *)
(* MCP, one, "readback", that contains a word by chance, and fragments.    *)
(***************************************************************************)
EXTENDS MethodNames

SomeWords ==
    {"mcp", "method", "resource", "resources", "read", "tool", "tools", "call", "list",
     "ping", "read_resource", "get_resource", "execute_tool", "readback", "Resources", "Read",
     "resour", "od"}

ContainResource == {"resource", "resources", "read_resource", "get_resource"}
ContainRead == {"read", "read_resource", "readback"}
ContainTool == {"tool", "tools", "execute_tool"}
ContainCall == {"call"}

ToLower ==
    [t \in Tokens |-> CASE t = "Resources" -> "resources"
                        [] t = "Read" -> "read"
                        [] OTHER -> t]

InsideWords == {<<"resour", "resource">>, <<"od", "method">>}
BeginWords == {<<"resour", "resource">>}
EndWords == {<<"od", "method">>}

\* Words with a separator between each two.
Joined(words, seps) ==
    [i \in 1..(2 * Len(words) - 1) |->
        IF i % 2 = 1 THEN words[(i + 1) \div 2] ELSE seps[i \div 2]]

\* Up to three words, and names that are no words at all.
ShortNames ==
    {<<>>, <<".">>, <<"/">>, <<"mcp", "/">>, <<".", "ping">>}
        \cup UNION { {Joined(words, seps) : words \in [1..n -> Words],
                                            seps \in [1..(n - 1) -> {".", "/"}]} : n \in 1..3 }

\* Methods of MCP that the server knows.
SomeAccepted ==
    {<<"ping">>, <<"resources", "/", "list">>, <<"resources", "/", "read">>,
     <<"tools", "/", "list">>, <<"tools", "/", "call">>}
=============================================================================

-------------------------- MODULE MCStreamingTools --------------------------
(* A small instance of the tools: two hosts, two ports, two stream IDs. *)
EXTENDS StreamingTools, TLC

At(host, port) == [host |-> host, port |-> port]

\* An address rejected by the client library.
Bad == {At("remote", "bad")}

\* A whole address, a port alone, a stream ID alone, nothing, a bad address.
SomeRequests ==
    {[NoRequest EXCEPT !.url = At("remote", "4222")],
     [NoRequest EXCEPT !.port = "4333"],
     [NoRequest EXCEPT !.streamID = "preworm"],
     NoRequest,
     [NoRequest EXCEPT !.url = At("remote", "bad")]}

\* The callers differ in nothing but their names.
Symmetry == Permutations(Callers)
=============================================================================

------------------------- MODULE MCStreamingService -------------------------
(* Instances of StreamingService for TLC. *)
EXTENDS StreamingService

\* time.Duration is 8 bits wide here and a millisecond is 10 units: 20 ms
\* wraps to -56, the others fit.
WrappingRequests == {-1, 0, 1, 20}
=============================================================================

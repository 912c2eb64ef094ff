------------------------------ MODULE Delivery ------------------------------
(***************************************************************************)
(* What whoever publishes a moment may rely on: the audience is settled    *)
(* before the first message, only readers in the audience are ever reached,*)
(* in any order and several at a time, what was delivered is not taken     *)
(* back, and a delivery that ends well has reached the whole audience.  It *)
(* may end badly at any time.  Publishing is shown to implement this       *)
(* module.                                                                 *)
(***************************************************************************)
CONSTANT Readers

VARIABLES stage, audience, reached

vars == <<stage, audience, reached>>

Init == stage = "idle" /\ audience = {} /\ reached = {}

Begin ==
    /\ stage = "idle"
    /\ stage' = "sending"
    /\ audience' \in SUBSET Readers
    /\ UNCHANGED reached

Reach ==
    /\ stage = "sending"
    /\ reached \subseteq reached' /\ reached' \subseteq audience
    /\ UNCHANGED <<stage, audience>>

Finish ==
    /\ stage = "sending"
    /\ reached = audience
    /\ stage' = "done"
    /\ UNCHANGED <<audience, reached>>

Fail ==
    /\ stage \in {"idle", "sending"}
    /\ stage' = "failed"
    /\ UNCHANGED <<audience, reached>>

Next == Begin \/ Reach \/ Finish \/ Fail

Spec == Init /\ [][Next]_vars
=============================================================================

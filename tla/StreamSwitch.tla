---------------------------- MODULE StreamSwitch ----------------------------
(***************************************************************************)
(* What a caller of the streaming service may rely on: a switch that is    *)
(* turned on and off, and the fact that moments are being streamed         *)
(* ("running").  Streaming starts together with the switch, never dies     *)
(* while the switch is on, and ends some time after it was turned off for  *)
(* good.  StreamingService is shown to implement this module.              *)
(***************************************************************************)
VARIABLES active,   \* what IsStreaming() answers
          running   \* some streaming goroutine is alive

vars == <<active, running>>

TypeOK == active \in BOOLEAN /\ running \in BOOLEAN

Init == active = FALSE /\ running = FALSE

TurnOn ==
    /\ ~active
    /\ active' = TRUE
    /\ running' = TRUE

TurnOff ==
    /\ active
    /\ active' = FALSE
    /\ UNCHANGED running

\* The last goroutine returns; never while the switch is on.
LastExit ==
    /\ ~active
    /\ running
    /\ running' = FALSE
    /\ UNCHANGED active

Next == TurnOn \/ TurnOff \/ LastExit

SafeSpec == Init /\ [][Next]_vars

Spec == SafeSpec /\ WF_vars(LastExit)
=============================================================================

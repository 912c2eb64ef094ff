---------------------------- MODULE TokenBucket ----------------------------
(***************************************************************************)
(* What may be relied on of TryAcquire: it grants no more than an exact    *)
(* token bucket, with a capacity, a number of tokens to start with, and a  *)
(* flow that refills it without steps.  The level is counted in parts of a *)
(* token so small that a millisecond adds a whole number of them.  A       *)
(* bucket of this kind bounds the grants between any two moments by the    *)
(* capacity and the flow of the time between them.  RateLimiter is shown   *)
(* to implement this module.                                               *)
(*                                                                         *)
(* A grant is no message: PublishWorldMoment asks once (nats_client.go:285)*)
(* and then sends one message to the subject of the world and one to that  *)
(* of each allowed user who may see the moment.  So nothing here bounds    *)
(* the messages that reach the server.                                     *)
(***************************************************************************)
EXTENDS Integers

CONSTANTS
    capacity,   \* tokens the bucket holds
    start,      \* tokens it holds at first
    rate,       \* tokens that flow in each interval
    interval    \* milliseconds

VARIABLES now, granted, level

vars == <<now, granted, level>>

Full == capacity * interval

Init == now = 0 /\ granted = 0 /\ level = start * interval

Tick ==
    /\ now' = now + 1
    /\ level' = IF level + rate > Full THEN Full ELSE level + rate
    /\ UNCHANGED granted

Take ==
    /\ level >= interval
    /\ level' = level - interval
    /\ granted' = granted + 1
    /\ UNCHANGED now

Next == Tick \/ Take

Spec == Init /\ [][Next]_vars
=============================================================================

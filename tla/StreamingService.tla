-------------------------- MODULE StreamingService --------------------------
(***************************************************************************)
(* streaming/service.go: the service that starts and stops the goroutine   *)
(* publishing a moment of every world once per interval.                   *)
(*                                                                         *)
(* Every method holds s.mu from beginning to end, so a method is one       *)
(* action.  The streaming goroutine (streamMoments) takes no lock: it      *)
(* reads s.config.StreamInterval once and s.stopChan at every turn of its  *)
(* loop, while the methods write both.  Its steps are actions of their     *)
(* own, one family per goroutine.                                          *)
(*                                                                         *)
(* Goroutine n is the one started by the n-th successful startStreaming;   *)
(* stop channel n is the one made for it, channel 0 the one made by        *)
(* CreateStreamingService and used by nobody.                              *)
(***************************************************************************)
EXTENDS Integers, FiniteSets

CONSTANTS
    MaxStarts,        \* bound: how many goroutines are ever started
    MaxMoments,       \* bound: how many moments one tick generates
    AutoStart,        \* config.AutoStart
    Requests,         \* the intervals, in milliseconds, that tool calls carry
    DefaultInterval,  \* config.StreamInterval at creation, in milliseconds
    Scale,            \* time.Millisecond
    Half              \* half of the range of time.Duration (2^63 in the code)

Loops == 1..MaxStarts
Chans == 0..MaxStarts

\* time.Duration(ms) * time.Millisecond, in wrapping signed arithmetic.
Duration(ms) == ((ms * Scale + Half) % (2 * Half)) - Half

ASSUME BoundsAssumption == MaxStarts \in Nat /\ MaxMoments \in Nat

ASSUME ConfigAssumption ==
    /\ AutoStart \in BOOLEAN
    /\ Scale \in Nat \ {0} /\ Half \in Nat \ {0}
    /\ Requests \subseteq Int
    /\ DefaultInterval \in Nat \ {0}
    /\ DefaultInterval * Scale < Half

VARIABLES
    streamingActive,  \* s.streamingActive
    stopChan,         \* s.stopChan: the newest channel
    closed,           \* the channels that have been closed
    client,           \* the connection behind s.natsClient: off, up or down
    interval,         \* s.config.StreamInterval
    pc,               \* where each goroutine is
    watch,            \* the stop channel its current select waits for
    period,           \* the period of its ticker
    left,             \* moments of the current tick still to publish
    panic             \* what the process died of, or "none"

service == <<streamingActive, stopChan, closed>>
loopVars == <<pc, watch, period, left>>
vars == <<service, client, interval, loopVars, panic>>

PCs == {"none", "begin", "loop", "select", "publish", "done"}

\* "up": IsConnected() is true; "down": it is false, but a connection exists and
\* may come up; "off": no connection was opened yet, or it was closed.
ClientStates == {"off", "up", "down"}

TypeOK ==
    /\ streamingActive \in BOOLEAN
    /\ stopChan \in Chans
    /\ closed \subseteq Chans
    /\ client \in ClientStates
    /\ interval \in Int
    /\ pc \in [Loops -> PCs]
    /\ watch \in [Loops -> Chans]
    /\ period \in [Loops -> Int]
    /\ left \in [Loops -> 0..MaxMoments]
    /\ panic \in {"none", "close", "ticker"}

Init ==
    /\ streamingActive = FALSE
    /\ stopChan = 0
    /\ closed = {}
    /\ client = "off"
    /\ interval = Duration(DefaultInterval)
    /\ pc = [g \in Loops |-> "none"]
    /\ watch = [g \in Loops |-> 0]
    /\ period = [g \in Loops |-> 0]
    /\ left = [g \in Loops |-> 0]
    /\ panic = "none"

-----------------------------------------------------------------------------
(* The methods, each under s.mu. *)

\* Connect() returned nil: at once when the connection is up; otherwise with a
\* new connection that is up, or (nats.RetryOnFailedConnect) still trying.
AfterConnect(c) == IF c = "up" THEN {"up"} ELSE {"up", "down"}

\* Connect() returned an error: only when it had to open a connection, and by then
\* it has closed the old one.
ConnectFails(c) == c # "up" /\ client' = "off"

\* The new channel and the goroutine that will wait for it.
Spawn ==
    /\ stopChan < MaxStarts
    /\ stopChan' = stopChan + 1
    /\ streamingActive' = TRUE
    /\ pc' = [pc EXCEPT ![stopChan + 1] = "begin"]
    /\ watch' = [watch EXCEPT ![stopChan + 1] = stopChan + 1]
    /\ UNCHANGED <<closed, period, left>>

\* Without the early return of a service that is already streaming.
StartStreamingAgain(c) ==
    \/ client' \in AfterConnect(c) /\ Spawn
    \/ ConnectFails(c) /\ UNCHANGED <<service, loopVars>>

\* c is the state of the client when the function is entered.
startStreaming(c) ==
    \/ streamingActive /\ client' = c /\ UNCHANGED <<service, loopVars>>
    \/ ~streamingActive /\ client' \in AfterConnect(c) /\ Spawn
    \/ ~streamingActive /\ ConnectFails(c) /\ UNCHANGED <<service, loopVars>>

\* close of a closed channel panics.
CloseStopChan ==
    /\ panic' = IF stopChan \in closed THEN "close" ELSE panic
    /\ closed' = closed \cup {stopChan}

\* Without the early return of a service that is not streaming.
StopStreamingAgain ==
    /\ CloseStopChan
    /\ streamingActive' = FALSE
    /\ UNCHANGED stopChan

stopStreaming ==
    \/ /\ ~streamingActive
       /\ UNCHANGED <<service, panic>>
    \/ /\ streamingActive
       /\ CloseStopChan
       /\ streamingActive' = FALSE
       /\ UNCHANGED stopChan

Start ==
    /\ \/ ConnectFails(client) /\ UNCHANGED <<service, loopVars>>
       \/ /\ ~AutoStart
          /\ client' \in AfterConnect(client)
          /\ UNCHANGED <<service, loopVars>>
       \/ AutoStart /\ \E c \in AfterConnect(client) : startStreaming(c)
    /\ UNCHANGED <<interval, panic>>

Stop ==
    /\ stopStreaming
    /\ client' = "off"
    /\ UNCHANGED <<interval, loopVars>>

StartStreaming ==
    /\ startStreaming(client)
    /\ UNCHANGED <<interval, panic>>

StopStreaming ==
    /\ stopStreaming
    /\ UNCHANGED <<client, interval, loopVars>>

\* Generates and publishes one moment in the caller's goroutine; what it
\* leaves in the service is the connection it may have opened.
StreamSingleWorld ==
    /\ client' \in AfterConnect(client) \/ ConnectFails(client)
    /\ UNCHANGED <<service, interval, loopVars, panic>>

-----------------------------------------------------------------------------
(* The tools write the interval without the lock. *)

\* The check "if req.Interval > 0" is missing.
SetAnyInterval(ms) ==
    /\ interval' = Duration(ms)
    /\ UNCHANGED <<service, client, loopVars, panic>>

SetInterval(ms) ==
    /\ ms > 0
    /\ interval' = Duration(ms)
    /\ UNCHANGED <<service, client, loopVars, panic>>

(* The connection is lost and restored behind the service's back. *)

ConnectionDrops ==
    /\ client = "up"
    /\ client' = "down"
    /\ UNCHANGED <<service, interval, loopVars, panic>>

ConnectionReturns ==
    /\ client = "down"
    /\ client' = "up"
    /\ UNCHANGED <<service, interval, loopVars, panic>>

-----------------------------------------------------------------------------
(* The streaming goroutine, streamMoments. *)

\* time.NewTicker panics unless the interval is positive.
LoopBegin(g) ==
    /\ pc[g] = "begin"
    /\ period' = [period EXCEPT ![g] = interval]
    /\ panic' = IF interval <= 0 THEN "ticker" ELSE panic
    /\ pc' = [pc EXCEPT ![g] = "loop"]
    /\ UNCHANGED <<service, client, interval, watch, left>>

\* The select waits for a channel that was never that of this goroutine.
LoopSelectAny(g) ==
    /\ pc[g] = "loop"
    /\ \E ch \in 0..stopChan : watch' = [watch EXCEPT ![g] = ch]
    /\ pc' = [pc EXCEPT ![g] = "select"]
    /\ UNCHANGED <<service, client, interval, period, left, panic>>

\* select evaluates s.stopChan without the lock: the race lets it see any
\* value written since the one this goroutine saw last.
LoopSelect(g) ==
    /\ pc[g] = "loop"
    /\ \E ch \in watch[g]..stopChan : watch' = [watch EXCEPT ![g] = ch]
    /\ pc' = [pc EXCEPT ![g] = "select"]
    /\ UNCHANGED <<service, client, interval, period, left, panic>>

\* The goroutine returns, instead of continuing, when generation fails.
LoopTickReturns(g) ==
    /\ pc[g] = "select"
    /\ \/ \E n \in 0..MaxMoments :
             /\ left' = [left EXCEPT ![g] = n]
             /\ pc' = [pc EXCEPT ![g] = "publish"]
       \/ /\ pc' = [pc EXCEPT ![g] = "done"]
          /\ UNCHANGED left
    /\ UNCHANGED <<service, client, interval, watch, period, panic>>

\* The ticker fires: all moments are generated, or an error is printed.
LoopTick(g) ==
    /\ pc[g] = "select"
    /\ \/ \E n \in 0..MaxMoments :
             /\ left' = [left EXCEPT ![g] = n]
             /\ pc' = [pc EXCEPT ![g] = "publish"]
       \/ /\ pc' = [pc EXCEPT ![g] = "loop"]
          /\ UNCHANGED left
    /\ UNCHANGED <<service, client, interval, watch, period, panic>>

\* Publishing waits for the connection instead of failing.
LoopPublishWaits(g) ==
    /\ pc[g] = "publish"
    /\ \/ /\ left[g] > 0 /\ client = "up"
          /\ left' = [left EXCEPT ![g] = @ - 1]
          /\ UNCHANGED pc
       \/ /\ left[g] = 0
          /\ pc' = [pc EXCEPT ![g] = "loop"]
          /\ UNCHANGED left
    /\ UNCHANGED <<service, client, interval, watch, period, panic>>

\* One PublishWorldMoment; its error is printed and the loop goes on.
LoopPublish(g) ==
    /\ pc[g] = "publish"
    /\ \/ /\ left[g] > 0
          /\ left' = [left EXCEPT ![g] = @ - 1]
          /\ UNCHANGED pc
       \/ /\ left[g] = 0
          /\ pc' = [pc EXCEPT ![g] = "loop"]
          /\ UNCHANGED left
    /\ UNCHANGED <<service, client, interval, watch, period, panic>>

\* The select finds its channel closed.
LoopStop(g) ==
    /\ pc[g] = "select"
    /\ watch[g] \in closed
    /\ pc' = [pc EXCEPT ![g] = "done"]
    /\ UNCHANGED <<service, client, interval, watch, period, left, panic>>

LoopStep(g) ==
    LoopBegin(g) \/ LoopSelect(g) \/ LoopTick(g) \/ LoopPublish(g) \/ LoopStop(g)

-----------------------------------------------------------------------------
Caller ==
    \/ Start \/ Stop \/ StartStreaming \/ StopStreaming \/ StreamSingleWorld
    \/ \E ms \in Requests : SetInterval(ms)

Network == ConnectionDrops \/ ConnectionReturns

Next ==
    /\ panic = "none"
    /\ Caller \/ Network \/ \E g \in Loops : LoopStep(g)

SafeSpec == Init /\ [][Next]_vars

(***************************************************************************)
(* Fairness: goroutines that can run do run, and tickers fire.  A select   *)
(* with a tick and a closed channel both ready picks one at random, so the *)
(* closed channel cannot lose for ever: strong fairness of LoopStop.       *)
(* Callers and the network owe nothing.                                    *)
(***************************************************************************)
Fairness ==
    \A g \in Loops :
        /\ WF_vars(LoopBegin(g))
        /\ WF_vars(LoopSelect(g))
        /\ WF_vars(LoopTick(g))
        /\ WF_vars(LoopPublish(g))
        /\ SF_vars(LoopStop(g))

Spec == SafeSpec /\ Fairness

-----------------------------------------------------------------------------
(* Properties *)

Alive(g) == pc[g] \notin {"none", "done"}

\* No sequence of calls closes a stop channel twice (service.go:146): the
\* flag streamingActive guards the close on every path.
NoDoubleClose == panic # "close"

\* The only way to a ticker without a positive period (service.go:152) is a
\* positive interval that was requested and wrapped: the tools reject all others
\* and the configured one is positive.
TickerPanicNeedsWrap ==
    panic = "ticker" =>
        \E ms \in Requests : ms > 0 /\ interval = Duration(ms) /\ interval <= 0

\* While IsStreaming() answers true, the goroutine of the last start is
\* there: neither a failed generation, nor a straggler, nor the channel of an
\* earlier round makes it return.
ActiveHasLoop == streamingActive => Alive(stopChan)

\* A goroutine that nobody told to stop is the one of the round in progress: of
\* those that a Start after a Stop leaves behind, all were told.
OnlyNewestUntold ==
    \A g \in Loops : Alive(g) /\ g \notin closed => streamingActive /\ g = stopChan

\* In a service that does not stream no goroutine is stuck: the channel that its
\* select waits for, be it its own or, by the race, a later one, is closed.
StopReachesAll ==
    ~streamingActive => \A g \in Loops : pc[g] = "select" => watch[g] \in closed

\* A goroutine returns only after its own stop channel was closed, whatever
\* channel the race made it watch: a round is never cut short by the stop of
\* an earlier one, and a stopped round may outlive its stop but not die early.
EndsOnlyWhenStopped ==
    [][\A g \in Loops : Alive(g) /\ ~Alive(g)' => g \in closed]_vars

\* StreamingService implements StreamSwitch: streaming goes on while the
\* service is active, and once it stays inactive every goroutine ends.
Switch == INSTANCE StreamSwitch WITH
              active <- streamingActive,
              running <- \E g \in Loops : Alive(g)

ImplementsSwitch == Switch!Spec

\* A service that stays active keeps ticking: the goroutine of the last start
\* comes to its publishing loop, or to a failed generation, again and again.
ActiveKeepsTicking ==
    <>[]streamingActive => []<>(\E g \in Loops : g = stopChan /\ pc[g] = "loop")

\* service.go:145, "Signal the streaming goroutine to stop": a goroutine whose
\* stop channel was closed ends.  The code does not keep this.
SignalledLoopStops ==
    \A g \in Loops : (g \in closed) ~> (pc[g] = "done")

-----------------------------------------------------------------------------
(* The inductive invariant behind the safety properties. *)

\* Every round but the one in progress has had its channel closed, exactly.
ClosedRounds ==
    /\ closed = (1..stopChan) \ (IF streamingActive THEN {stopChan} ELSE {})
    /\ streamingActive => stopChan > 0

\* Goroutines are started in order and watch their own or a later channel.
LoopsInOrder ==
    \A g \in Loops :
        /\ pc[g] = "none" <=> g > stopChan
        /\ g <= stopChan => watch[g] \in g..stopChan
        /\ pc[g] = "done" => g \in closed

\* The interval is one that was configured or accepted from a request.
IntervalAccepted ==
    \/ interval = Duration(DefaultInterval)
    \/ \E ms \in Requests : ms > 0 /\ interval = Duration(ms)

IInv ==
    /\ TypeOK
    /\ ClosedRounds
    /\ LoopsInOrder
    /\ IntervalAccepted
    /\ NoDoubleClose
    /\ TickerPanicNeedsWrap
=============================================================================

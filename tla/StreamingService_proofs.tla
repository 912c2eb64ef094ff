----------------------- MODULE StreamingService_proofs -----------------------
(***************************************************************************)
(* Proofs about StreamingService, for every number of rounds, moments,     *)
(* requests and every width of time.Duration.                              *)
(***************************************************************************)
EXTENDS StreamingService, TLAPS

\* A duration is an integer, whatever was requested.
LEMMA DurationType ==
    ASSUME NEW ms \in Int
    PROVE  Duration(ms) \in Int
BY ConfigAssumption DEF Duration

\* Adding half of the range and reducing modulo the range leaves a number
\* below half of the range where it was.
LEMMA ModOfSmall ==
    ASSUME NEW x \in Nat, NEW h \in Nat \ {0}, x < h
    PROVE  (x + h) % (2 * h) = x + h
<1>1. 2 * h \in Nat \ {0} /\ x + h \in 0..(2 * h - 1)
  OBVIOUS
<1>2. \A n \in Nat \ {0} : \A y \in 0..(n - 1) : y % n = y
  OBVIOUS
<1> QED BY <1>1, <1>2

\* The configured interval does not wrap, so a ticker can be made with it.
LEMMA DefaultIntervalFits == Duration(DefaultInterval) > 0
<1>1. DefaultInterval * Scale \in Nat \ {0} /\ DefaultInterval * Scale < Half
  BY ConfigAssumption
<1>2. Half \in Nat \ {0}
  BY ConfigAssumption
<1>3. (DefaultInterval * Scale + Half) % (2 * Half) = DefaultInterval * Scale + Half
  BY <1>1, <1>2, ModOfSmall
<1> QED BY <1>1, <1>2, <1>3 DEF Duration

\* The interval is an integer, and positive unless a request wrapped.
LEMMA AcceptedInterval ==
    ASSUME IntervalAccepted
    PROVE  /\ interval \in Int
           /\ interval <= 0 =>
              \E ms \in Requests : ms > 0 /\ interval = Duration(ms) /\ interval <= 0
<1>1. CASE interval = Duration(DefaultInterval)
  <2>1. DefaultInterval \in Int
    BY ConfigAssumption
  <2>2. Duration(DefaultInterval) \in Int
    BY <2>1, DurationType
  <2> QED BY <1>1, <2>2, DefaultIntervalFits
<1>2. CASE \E ms \in Requests : ms > 0 /\ interval = Duration(ms)
  <2>1. PICK ms \in Requests : ms > 0 /\ interval = Duration(ms)
    BY <1>2
  <2>2. ms \in Int
    BY ConfigAssumption
  <2>3. Duration(ms) \in Int
    BY <2>2, DurationType
  <2> QED BY <2>1, <2>3
<1> QED BY <1>1, <1>2 DEF IntervalAccepted

LEMMA InitEstablishesIInv == Init => IInv
<1> SUFFICES ASSUME Init PROVE IInv
  OBVIOUS
<1>1. IntervalAccepted
  BY DEF Init, IntervalAccepted
<1>2. interval \in Int
  BY <1>1, AcceptedInterval
<1>3. TypeOK
  <2>1. 0 \in Chans /\ 0 \in 0..MaxMoments
    BY BoundsAssumption DEF Chans
  <2>2. pc \in [Loops -> PCs] /\ client \in ClientStates
    BY DEF Init, PCs, ClientStates
  <2>3. /\ watch \in [Loops -> Chans]
        /\ period \in [Loops -> Int]
        /\ left \in [Loops -> 0..MaxMoments]
    BY <2>1 DEF Init
  <2> QED BY <1>2, <2>1, <2>2, <2>3 DEF Init, TypeOK
<1>4. ClosedRounds
  BY DEF Init, ClosedRounds
<1>5. LoopsInOrder
  BY BoundsAssumption DEF Init, LoopsInOrder, Loops
<1> QED BY <1>1, <1>3, <1>4, <1>5 DEF Init, IInv, NoDoubleClose, TickerPanicNeedsWrap

(***************************************************************************)
(* What the two internal methods do to the part of the state the invariant *)
(* speaks of.                                                              *)
(***************************************************************************)

\* A spawned round gets a channel and a goroutine of its own.
LEMMA SpawnKeepsIInv ==
    ASSUME IInv, Spawn, ~streamingActive, client' \in ClientStates,
           UNCHANGED <<interval, panic>>
    PROVE  IInv'
<1> USE DEF IInv, Spawn
<1>1. TypeOK'
  BY BoundsAssumption DEF TypeOK, Loops, Chans, PCs
<1>2. ClosedRounds'
  BY BoundsAssumption DEF TypeOK, ClosedRounds, Chans
<1>3. LoopsInOrder'
  BY BoundsAssumption DEF TypeOK, LoopsInOrder, Loops, Chans
<1>4. IntervalAccepted' /\ NoDoubleClose' /\ TickerPanicNeedsWrap'
  BY DEF IntervalAccepted, NoDoubleClose, TickerPanicNeedsWrap
<1> QED BY <1>1, <1>2, <1>3, <1>4

LEMMA UnchangedServiceKeepsIInv ==
    ASSUME IInv, client' \in ClientStates,
           UNCHANGED <<service, loopVars, interval, panic>>
    PROVE  IInv'
BY DEF IInv, TypeOK, ClosedRounds, LoopsInOrder, IntervalAccepted, NoDoubleClose,
       TickerPanicNeedsWrap, service, loopVars

LEMMA StartStreamingKeepsIInv ==
    ASSUME IInv, NEW c \in ClientStates, startStreaming(c), UNCHANGED <<interval, panic>>
    PROVE  IInv'
<1>1. client' \in ClientStates
  BY DEF startStreaming, ConnectFails, AfterConnect, ClientStates
<1>2. CASE UNCHANGED <<service, loopVars>>
  BY <1>1, <1>2, UnchangedServiceKeepsIInv DEF service, loopVars
<1>3. CASE ~streamingActive /\ Spawn
  BY <1>1, <1>3, SpawnKeepsIInv
<1> QED BY <1>2, <1>3 DEF startStreaming

\* The channel of the round in progress is open, so closing it cannot panic.
LEMMA StopStreamingKeepsIInv ==
    ASSUME IInv, stopStreaming, client' \in ClientStates,
           UNCHANGED <<loopVars, interval>>
    PROVE  IInv'
<1>1. CASE ~streamingActive /\ UNCHANGED <<service, panic>>
  BY <1>1, UnchangedServiceKeepsIInv DEF service, loopVars
<1>2. CASE streamingActive /\ CloseStopChan /\ streamingActive' = FALSE /\ UNCHANGED stopChan
  <2> USE <1>2 DEF IInv, loopVars, CloseStopChan
  <2>1. stopChan \notin closed
    BY DEF ClosedRounds
  <2>2. stopChan \in 1..MaxStarts
    <3>1. stopChan # 0
      BY DEF ClosedRounds, LoopsInOrder, TypeOK, Chans, Loops
    <3> QED BY <3>1, BoundsAssumption DEF TypeOK, Chans
  <2>3. TypeOK'
    BY <2>1 DEF TypeOK
  <2>4. ClosedRounds'
    BY <2>2 DEF ClosedRounds
  <2>5. LoopsInOrder'
    BY DEF LoopsInOrder
  <2>6. IntervalAccepted' /\ NoDoubleClose' /\ TickerPanicNeedsWrap'
    BY <2>1 DEF IntervalAccepted, NoDoubleClose, TickerPanicNeedsWrap
  <2> QED BY <2>3, <2>4, <2>5, <2>6
<1> QED BY <1>1, <1>2 DEF stopStreaming
(***************************************************************************)
(* The steps of a goroutine, and the invariant.                            *)
(***************************************************************************)

\* No step of a goroutine disturbs the service's own variables; what has to be
\* shown is the type, the order of the loops and, for LoopBegin, the panic.
LEMMA LoopStepKeepsIInv ==
    ASSUME IInv, NEW g \in Loops, LoopStep(g)
    PROVE  IInv'
<1> USE DEF IInv
<1>1. UNCHANGED <<service, client, interval>>
  BY DEF LoopStep, LoopBegin, LoopSelect, LoopTick, LoopPublish, LoopStop
<1>2. ClosedRounds' /\ IntervalAccepted'
  BY <1>1 DEF ClosedRounds, IntervalAccepted, service
<1>3. g <= stopChan /\ watch[g] \in g..stopChan
  <2>1. pc[g] # "none"
    BY DEF LoopStep, LoopBegin, LoopSelect, LoopTick, LoopPublish, LoopStop
  <2> QED BY <2>1, BoundsAssumption DEF LoopsInOrder, TypeOK, Loops, Chans
<1>4. CASE LoopBegin(g)
  <2>1. TypeOK'
    BY <1>1, <1>4 DEF LoopBegin, TypeOK, PCs, service
  <2>2. LoopsInOrder'
    BY <1>1, <1>3, <1>4 DEF LoopBegin, LoopsInOrder, TypeOK, service
  <2>3. NoDoubleClose' /\ TickerPanicNeedsWrap'
    BY <1>4, AcceptedInterval DEF LoopBegin, NoDoubleClose, TickerPanicNeedsWrap
  <2> QED BY <1>2, <2>1, <2>2, <2>3
<1>5. CASE LoopSelect(g)
  <2>1. PICK ch \in watch[g]..stopChan : watch' = [watch EXCEPT ![g] = ch]
    BY <1>5 DEF LoopSelect
  <2>2. ch \in Chans /\ ch \in g..stopChan
    BY <1>3, <2>1, BoundsAssumption DEF TypeOK, Chans, Loops
  <2>3. TypeOK'
    BY <1>1, <1>5, <2>1, <2>2 DEF LoopSelect, TypeOK, PCs, service
  <2>4. LoopsInOrder'
    BY <1>1, <1>3, <1>5, <2>1, <2>2 DEF LoopSelect, LoopsInOrder, TypeOK, service
  <2>5. NoDoubleClose' /\ TickerPanicNeedsWrap'
    BY <1>5 DEF LoopSelect, NoDoubleClose, TickerPanicNeedsWrap
  <2> QED BY <1>2, <2>3, <2>4, <2>5
<1>6. CASE LoopTick(g)
  <2>1. TypeOK'
    BY <1>1, <1>6 DEF LoopTick, TypeOK, PCs, service
  <2>2. LoopsInOrder'
    BY <1>1, <1>3, <1>6 DEF LoopTick, LoopsInOrder, TypeOK, service
  <2>3. NoDoubleClose' /\ TickerPanicNeedsWrap'
    BY <1>6 DEF LoopTick, NoDoubleClose, TickerPanicNeedsWrap
  <2> QED BY <1>2, <2>1, <2>2, <2>3
<1>7. CASE LoopPublish(g)
  <2>1. TypeOK'
    BY <1>1, <1>7, BoundsAssumption DEF LoopPublish, TypeOK, PCs, service
  <2>2. LoopsInOrder'
    BY <1>1, <1>3, <1>7 DEF LoopPublish, LoopsInOrder, TypeOK, service
  <2>3. NoDoubleClose' /\ TickerPanicNeedsWrap'
    BY <1>7 DEF LoopPublish, NoDoubleClose, TickerPanicNeedsWrap
  <2> QED BY <1>2, <2>1, <2>2, <2>3
<1>8. CASE LoopStop(g)
  <2>1. TypeOK'
    BY <1>1, <1>8 DEF LoopStop, TypeOK, PCs, service
  <2>2. g \in closed
    BY <1>3, <1>8, BoundsAssumption DEF LoopStop, ClosedRounds, TypeOK, Chans, Loops
  <2>3. LoopsInOrder'
    BY <1>1, <1>3, <1>8, <2>2 DEF LoopStop, LoopsInOrder, TypeOK, service
  <2>4. NoDoubleClose' /\ TickerPanicNeedsWrap'
    BY <1>8 DEF LoopStop, NoDoubleClose, TickerPanicNeedsWrap
  <2> QED BY <1>2, <2>1, <2>3, <2>4
<1> QED BY <1>4, <1>5, <1>6, <1>7, <1>8 DEF LoopStep

LEMMA NextKeepsIInv == IInv /\ [Next]_vars => IInv'
<1> SUFFICES ASSUME IInv, [Next]_vars PROVE IInv'
  OBVIOUS
<1>1. CASE Start
  <2>1. ASSUME client' \in ClientStates, UNCHANGED <<service, loopVars>> PROVE IInv'
    BY <1>1, <2>1, UnchangedServiceKeepsIInv DEF Start
  <2>2. ASSUME NEW c \in AfterConnect(client), startStreaming(c) PROVE IInv'
    BY <1>1, <2>2, StartStreamingKeepsIInv DEF Start, AfterConnect, ClientStates
  <2>3. client \in ClientStates
    BY DEF IInv, TypeOK
  <2> QED BY <1>1, <2>1, <2>2, <2>3 DEF Start, ConnectFails, AfterConnect, ClientStates
<1>2. CASE Stop
  BY <1>2, StopStreamingKeepsIInv DEF Stop, ClientStates
<1>3. CASE StartStreaming
  BY <1>3, StartStreamingKeepsIInv DEF StartStreaming, IInv, TypeOK
<1>4. CASE StopStreaming
  BY <1>4, StopStreamingKeepsIInv DEF StopStreaming, IInv, TypeOK
<1>5. CASE StreamSingleWorld
  <2>1. client' \in ClientStates
    BY <1>5 DEF StreamSingleWorld, ConnectFails, AfterConnect, ClientStates, IInv, TypeOK
  <2> QED BY <1>5, <2>1, UnchangedServiceKeepsIInv DEF StreamSingleWorld
<1>6. ASSUME panic = "none", NEW ms \in Requests, SetInterval(ms) PROVE IInv'
  <2>1. ms \in Int /\ Duration(ms) \in Int
    BY ConfigAssumption, DurationType
  <2>2. IntervalAccepted'
    BY <1>6 DEF SetInterval, IntervalAccepted
  <2> QED BY <1>6, <2>1, <2>2 DEF SetInterval, IInv, TypeOK, ClosedRounds, LoopsInOrder,
             NoDoubleClose, TickerPanicNeedsWrap, service, loopVars
<1>7. CASE Network
  BY <1>7, UnchangedServiceKeepsIInv
     DEF Network, ConnectionDrops, ConnectionReturns, ClientStates
<1>8. ASSUME NEW g \in Loops, LoopStep(g) PROVE IInv'
  BY <1>8, LoopStepKeepsIInv
<1>9. CASE UNCHANGED vars
  BY <1>9, UnchangedServiceKeepsIInv DEF vars, service, loopVars, IInv, TypeOK
<1> QED BY <1>1, <1>2, <1>3, <1>4, <1>5, <1>6, <1>7, <1>8, <1>9 DEF Next, Caller

\* The invariant holds in every reachable state.
THEOREM InductiveInvariant == SafeSpec => []IInv
<1> QED BY InitEstablishesIInv, NextKeepsIInv, PTL DEF SafeSpec
-----------------------------------------------------------------------------

\* stopChan is closed at most once, in every sequence of Start, Stop,
\* StartStreaming and StopStreaming and for any number of rounds.
THEOREM NoDoubleCloseHolds == SafeSpec => []NoDoubleClose
<1>1. IInv => NoDoubleClose
  BY DEF IInv
<1> QED BY <1>1, InductiveInvariant, PTL

\* Without a request that wraps no ticker panics, whatever the width.
THEOREM TickerPanicNeedsWrapHolds == SafeSpec => []TickerPanicNeedsWrap
<1>1. IInv => TickerPanicNeedsWrap
  BY DEF IInv
<1> QED BY <1>1, InductiveInvariant, PTL

\* The round in progress has a goroutine, since its channel is still open.
LEMMA IInvGivesLoop ==
    ASSUME IInv, streamingActive
    PROVE  stopChan \in Loops /\ Alive(stopChan)
<1>1. stopChan \in Loops
  BY BoundsAssumption DEF IInv, ClosedRounds, TypeOK, Chans, Loops
<1>2. stopChan \notin closed
  BY DEF IInv, ClosedRounds
<1> QED BY <1>1, <1>2 DEF IInv, LoopsInOrder, Alive, TypeOK, Loops

\* A service that says it is streaming has a goroutine that streams.
THEOREM ActiveHasLoopHolds == SafeSpec => []ActiveHasLoop
<1>1. IInv => ActiveHasLoop
  BY IInvGivesLoop DEF ActiveHasLoop
<1> QED BY <1>1, InductiveInvariant, PTL

\* A goroutine that ends in a step of Next had its channel closed before.
LEMMA StepEndsOnlyStopped ==
    ASSUME IInv, IInv', [Next]_vars
    PROVE  \A g \in Loops : Alive(g) /\ ~Alive(g)' => g \in closed
<1> SUFFICES ASSUME NEW g \in Loops, Alive(g), ~Alive(g)'
             PROVE  g \in closed
  OBVIOUS
<1>1. pc'[g] = "done"
  <2>1. g <= stopChan /\ stopChan <= stopChan'
    BY BoundsAssumption DEF Alive, IInv, LoopsInOrder, TypeOK, Loops, Chans, Next,
       Caller, Network, Start, Stop, StartStreaming, StopStreaming, StreamSingleWorld,
       SetInterval, ConnectionDrops, ConnectionReturns, LoopStep, LoopBegin,
       LoopSelect, LoopTick, LoopPublish, LoopStop, startStreaming, stopStreaming,
       Spawn, service, vars
  <2> QED BY <2>1, BoundsAssumption
          DEF Alive, IInv, LoopsInOrder, TypeOK, Loops, Chans
<1>2. g \in closed'
  BY <1>1 DEF IInv, LoopsInOrder
<1>3. pc' # pc
  BY <1>1 DEF Alive
<1>4. closed' = closed
  BY <1>3 DEF Next, Caller, Network, Start, Stop, StartStreaming, StopStreaming,
       StreamSingleWorld, SetInterval, ConnectionDrops, ConnectionReturns, LoopStep,
       LoopBegin, LoopSelect, LoopTick, LoopPublish, LoopStop, startStreaming,
       stopStreaming, Spawn, service, vars, loopVars
<1> QED BY <1>2, <1>4

\* No round is cut short: a goroutine ends only after its own stop.
THEOREM EndsOnlyWhenStoppedHolds == SafeSpec => EndsOnlyWhenStopped
<1>1. IInv /\ IInv' /\ [Next]_vars
        => [\A g \in Loops : Alive(g) /\ ~Alive(g)' => g \in closed]_vars
  BY StepEndsOnlyStopped
<1> QED BY <1>1, InductiveInvariant, PTL DEF SafeSpec, EndsOnlyWhenStopped
-----------------------------------------------------------------------------
(* StreamingService implements StreamSwitch (the safety part). *)

\* A goroutine that comes to life in a step belongs to a round being started.
LEMMA StepStartsOnlyActive ==
    ASSUME IInv, [Next]_vars, NEW g \in Loops, ~Alive(g), Alive(g)'
    PROVE  streamingActive'
<1>1. pc' # pc
  BY DEF Alive
<1>2. CASE Spawn
  BY <1>2 DEF Spawn
<1>3. ASSUME NEW h \in Loops, LoopStep(h) PROVE FALSE
  <2>1. pc[h] \notin {"none", "done"} /\ \E v : pc' = [pc EXCEPT ![h] = v]
    BY <1>1, <1>3 DEF LoopStep, LoopBegin, LoopSelect, LoopTick, LoopPublish, LoopStop
  <2>2. g # h
    BY <2>1 DEF Alive
  <2> QED BY <2>1, <2>2 DEF Alive, IInv, TypeOK
<1> QED BY <1>1, <1>2, <1>3 DEF Next, Caller, Network, Start, Stop, StartStreaming,
        StopStreaming, StreamSingleWorld, SetInterval, ConnectionDrops,
        ConnectionReturns, startStreaming, stopStreaming, service, vars, loopVars

LEMMA StepImplementsSwitch ==
    ASSUME IInv, IInv', [Next]_vars
    PROVE  [Switch!Next]_(Switch!vars)
<1> DEFINE running == \E g \in Loops : Alive(g)
<1>1. streamingActive \in BOOLEAN /\ streamingActive' \in BOOLEAN
  BY DEF IInv, TypeOK
<1>2. streamingActive => stopChan \in Loops /\ Alive(stopChan)
  BY IInvGivesLoop
<1>3. streamingActive' => running'
  <2> SUFFICES ASSUME streamingActive' PROVE running'
    OBVIOUS
  <2>1. stopChan' \in Loops
    BY BoundsAssumption DEF IInv, ClosedRounds, TypeOK, Chans, Loops
  <2>2. stopChan' \notin closed'
    BY DEF IInv, ClosedRounds
  <2>3. Alive(stopChan)'
    BY <2>1, <2>2 DEF IInv, LoopsInOrder, Alive, TypeOK, Loops
  <2> QED BY <2>1, <2>3 DEF Alive
<1>4. CASE streamingActive /\ streamingActive'
  BY <1>2, <1>3, <1>4 DEF Switch!vars
<1>5. CASE ~streamingActive /\ streamingActive'
  BY <1>1, <1>3, <1>5 DEF Switch!Next, Switch!TurnOn
<1>6. CASE streamingActive /\ ~streamingActive'
  <2>1. PICK g \in Loops : g = stopChan /\ Alive(g)
    BY <1>2, <1>6
  <2>2. g \notin closed
    BY <1>6, <2>1 DEF IInv, ClosedRounds
  <2>3. Alive(g)'
    BY <2>1, <2>2, StepEndsOnlyStopped
  <2>4. running /\ running'
    BY <2>1, <2>3
  <2> QED BY <1>1, <1>6, <2>4 DEF Switch!Next, Switch!TurnOff
<1>7. CASE ~streamingActive /\ ~streamingActive'
  <2>1. running' => running
    BY <1>7, StepStartsOnlyActive DEF Alive
  <2>2. CASE running' = running
    BY <1>1, <1>7, <2>2 DEF Switch!vars
  <2>3. CASE running /\ ~running'
    BY <1>1, <1>7, <2>3 DEF Switch!Next, Switch!LastExit
  <2> QED BY <2>1, <2>2, <2>3
<1> QED BY <1>1, <1>4, <1>5, <1>6, <1>7

\* Every behaviour of the service is one of the switch: streaming starts with
\* the switch, never ends while it is on, and starts in no other way.
THEOREM ImplementsSwitchSafely == SafeSpec => Switch!SafeSpec
<1>1. Init => Switch!Init
  BY DEF Init, Switch!Init, Alive
<1>2. IInv /\ IInv' /\ [Next]_vars => [Switch!Next]_(Switch!vars)
  BY StepImplementsSwitch
<1> QED BY <1>1, <1>2, InductiveInvariant, PTL DEF SafeSpec, Switch!SafeSpec
\* However often the service is started and stopped, at most one goroutine is
\* without the signal to stop, and it belongs to the round in progress.
THEOREM OnlyNewestUntoldHolds == SafeSpec => []OnlyNewestUntold
<1>1. IInv => OnlyNewestUntold
  <2> SUFFICES ASSUME IInv, NEW g \in Loops, Alive(g), g \notin closed
               PROVE  streamingActive /\ g = stopChan
    BY DEF OnlyNewestUntold
  <2>1. g \in 1..stopChan
    BY BoundsAssumption DEF IInv, LoopsInOrder, Alive, TypeOK, Loops, Chans
  <2> QED BY <2>1 DEF IInv, ClosedRounds
<1> QED BY <1>1, InductiveInvariant, PTL

\* After the service was stopped every select has a closed channel to wake it, even
\* of a goroutine that by the race waits for the channel of a later round.
THEOREM StopReachesAllHolds == SafeSpec => []StopReachesAll
<1>1. IInv => StopReachesAll
  <2> SUFFICES ASSUME IInv, ~streamingActive, NEW g \in Loops, pc[g] = "select"
               PROVE  watch[g] \in closed
    BY DEF StopReachesAll
  <2>1. g <= stopChan /\ watch[g] \in g..stopChan
    BY BoundsAssumption DEF IInv, LoopsInOrder, TypeOK, Loops, Chans
  <2>2. watch[g] \in 1..stopChan
    BY <2>1, BoundsAssumption DEF IInv, TypeOK, Loops, Chans
  <2> QED BY <2>2 DEF IInv, ClosedRounds
<1> QED BY <1>1, InductiveInvariant, PTL
=============================================================================

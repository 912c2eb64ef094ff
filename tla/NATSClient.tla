----------------------------- MODULE NATSClient -----------------------------
(***************************************************************************)
(* streaming/nats_client.go: the client that owns the NATS connection.     *)
(*                                                                         *)
(* The client keeps a flag, "connected", of its own.  Connect and Close    *)
(* write it under c.mu, and so do the handlers that nats.go calls, one     *)
(* after the other for each connection but at a time of its choosing.  The *)
(* handlers are closures over the client, not over the connection they     *)
(* were registered for.                                                    *)
(*                                                                         *)
(* nats.go is external: a connection is a status and the queue of the      *)
(* handler calls it has not made yet.  Close and Connect hold c.mu all     *)
(* along and are one action each; a publisher checks the flag, lets go of  *)
(* the lock to prepare its messages, and takes it again to send them; a    *)
(* request for the status holds it while it waits for the server.          *)
(***************************************************************************)
EXTENDS Integers, Sequences, FiniteSets

CONSTANTS
    Publishers,   \* goroutines inside PublishWorldMoment or PublishVibeUpdate
    Watchers,     \* goroutines inside GetConnectionStatus
    Subjects,     \* the subjects of one publication
    MaxConns,     \* bound: connections ever opened
    MaxDrops      \* bound: times a connection is lost

ASSUME BoundsAssumption == MaxConns \in Nat /\ MaxDrops \in Nat

Conns == 1..MaxConns
NoConn == 0        \* c.conn == nil
NilConn == -1      \* the (*nats.Conn)(nil) a failed nats.Connect leaves in c.conn

Free == "free"
ASSUME PublishersAssumption ==
    Free \notin Publishers \cup Watchers /\ Publishers \cap Watchers = {}

VARIABLES
    urlOk,            \* c.url can be parsed; it never changes
    conn,             \* c.conn
    connected,        \* c.connected
    reconnectCount,   \* c.reconnectCount
    disconnectCount,  \* c.disconnectCount
    status,           \* of each connection, in nats.go
    queue,            \* of each connection, the handler calls to come
    opened,           \* how many connections were opened
    drops,            \* how often a connection was lost
    mu,               \* who holds c.mu between two steps
    pc, todo,         \* each publisher: where it is, what it has to send
    via,              \* history: the connections its messages went to
    closing,          \* history: the last call was Close
    stale             \* history: since Connect opened the connection, a handler
                      \*   of an earlier one has run

flags == <<connected, reconnectCount, disconnectCount>>
network == <<status, queue, opened, drops>>
publishing == <<mu, pc, todo, via>>
vars == <<urlOk, conn, flags, network, publishing, closing, stale>>

Handlers == {"disconnected", "reconnected", "closed"}
Statuses == {"none", "initial", "connected", "reconnecting", "closed"}
PCs == {"idle", "checked", "ready", "sending"}

Open(k) == status[k] \in {"initial", "connected", "reconnecting"}

TypeOK ==
    /\ urlOk \in BOOLEAN
    /\ conn \in Conns \cup {NoConn, NilConn}
    /\ connected \in BOOLEAN
    /\ reconnectCount \in Nat
    /\ disconnectCount \in Nat
    /\ status \in [Conns -> Statuses]
    /\ queue \in [Conns -> Seq(Handlers)]
    /\ opened \in 0..MaxConns
    /\ drops \in 0..MaxDrops
    /\ mu \in Publishers \cup Watchers \cup {Free}
    /\ pc \in [Publishers -> PCs]
    /\ todo \in [Publishers -> SUBSET Subjects]
    /\ via \in [Publishers -> SUBSET Conns]
    /\ closing \in BOOLEAN
    /\ stale \in BOOLEAN

Init ==
    /\ urlOk \in BOOLEAN
    /\ conn = NoConn
    /\ connected = FALSE
    /\ reconnectCount = 0
    /\ disconnectCount = 0
    /\ status = [k \in Conns |-> "none"]
    /\ queue = [k \in Conns |-> <<>>]
    /\ opened = 0
    /\ drops = 0
    /\ mu = Free
    /\ pc = [p \in Publishers |-> "idle"]
    /\ todo = [p \in Publishers |-> {}]
    /\ via = [p \in Publishers |-> {}]
    /\ closing = FALSE
    /\ stale = FALSE

\* c.connected && c.conn != nil && c.conn.IsConnected()
IsConnected ==
    /\ connected
    /\ conn # NoConn
    /\ status[conn] = "connected"

-----------------------------------------------------------------------------
(* nats.go, as the client uses it. *)

\* The handler calls that closing connection k adds to its queue.  The
\* disconnect handler runs for a connection that is up, and may run for one
\* that is just trying.
OnClose(k) ==
    CASE status[k] = "connected" -> {<<"disconnected", "closed">>}
      [] status[k] \in {"initial", "reconnecting"} ->
            {<<"closed">>, <<"disconnected", "closed">>}
      [] OTHER -> {<<>>}

ClosedStatus == IF conn \in Conns THEN [status EXCEPT ![conn] = "closed"] ELSE status

\* What the queues may be once c.conn was closed, if there was one.
ClosedQueues ==
    IF conn \in Conns
    THEN {[queue EXCEPT ![conn] = @ \o calls] : calls \in OnClose(conn)}
    ELSE {queue}

\* MaxReconnects(-1): a connection that is lost is tried again for ever.
ConnLost(k) ==
    /\ status[k] = "connected"
    /\ drops < MaxDrops
    /\ drops' = drops + 1
    /\ status' = [status EXCEPT ![k] = "reconnecting"]
    /\ queue' = [queue EXCEPT ![k] = Append(@, "disconnected")]
    /\ UNCHANGED <<urlOk, conn, flags, opened, publishing, closing, stale>>

\* The first success of a connection that started without one calls no handler.
ConnRestored(k) ==
    /\ status[k] \in {"initial", "reconnecting"}
    /\ status' = [status EXCEPT ![k] = "connected"]
    /\ queue' = IF status[k] = "initial" THEN queue
                ELSE [queue EXCEPT ![k] = Append(@, "reconnected")]
    /\ UNCHANGED <<urlOk, conn, flags, opened, drops, publishing, closing, stale>>

-----------------------------------------------------------------------------
(* The client. *)

\* The flag is set before the error of natsConnect is looked at.
ConnectTooEager ==
    /\ mu = Free
    /\ ~IsConnected
    /\ \/ /\ urlOk
          /\ opened < MaxConns
          /\ \E up \in BOOLEAN :
                 status' = [ClosedStatus EXCEPT
                               ![opened + 1] = IF up THEN "connected" ELSE "initial"]
          /\ queue' \in ClosedQueues
          /\ opened' = opened + 1
          /\ conn' = opened + 1
          /\ stale' = FALSE
       \/ /\ ~urlOk
          /\ status' = ClosedStatus
          /\ queue' \in ClosedQueues
          /\ conn' = NilConn
          /\ UNCHANGED <<opened, stale>>
    /\ connected' = TRUE
    /\ closing' = FALSE
    /\ UNCHANGED <<urlOk, reconnectCount, disconnectCount, drops, publishing>>

\* The previous connection is forgotten without being closed.
ConnectKeepingOld ==
    /\ mu = Free
    /\ ~IsConnected
    /\ urlOk
    /\ opened < MaxConns
    /\ \E up \in BOOLEAN :
           status' = [status EXCEPT ![opened + 1] = IF up THEN "connected" ELSE "initial"]
    /\ opened' = opened + 1
    /\ conn' = opened + 1
    /\ connected' = TRUE
    /\ stale' = FALSE
    /\ closing' = FALSE
    /\ UNCHANGED <<urlOk, reconnectCount, disconnectCount, queue, drops, publishing>>

\* A client that is connected has nothing to do.  Otherwise the old connection
\* is closed and a new one made, up or (RetryOnFailedConnect) still trying; an
\* address that cannot be parsed is an error and leaves a nil *nats.Conn.
Connect ==
    /\ mu = Free
    /\ \/ /\ IsConnected
          /\ UNCHANGED <<conn, connected, status, queue, opened, stale>>
       \/ /\ ~IsConnected
          /\ urlOk
          /\ opened < MaxConns
          /\ \E up \in BOOLEAN :
                 status' = [ClosedStatus EXCEPT
                               ![opened + 1] = IF up THEN "connected" ELSE "initial"]
          /\ queue' \in ClosedQueues
          /\ opened' = opened + 1
          /\ conn' = opened + 1
          /\ connected' = TRUE
          /\ stale' = FALSE
       \/ /\ ~IsConnected
          /\ ~urlOk
          /\ status' = ClosedStatus
          /\ queue' \in ClosedQueues
          /\ conn' = NilConn
          /\ UNCHANGED <<connected, opened, stale>>
    /\ closing' = FALSE
    /\ UNCHANGED <<urlOk, reconnectCount, disconnectCount, drops, publishing>>

\* Nothing is closed while the flag is down.
CloseIfConnected ==
    /\ mu = Free
    /\ status' = IF connected THEN ClosedStatus ELSE status
    /\ queue' \in IF connected THEN ClosedQueues ELSE {queue}
    /\ connected' = FALSE
    /\ closing' = TRUE
    /\ UNCHANGED <<urlOk, conn, reconnectCount, disconnectCount, opened, drops,
                   publishing, stale>>

\* c.conn keeps the closed connection.
Close ==
    /\ mu = Free
    /\ status' = ClosedStatus
    /\ queue' \in ClosedQueues
    /\ connected' = FALSE
    /\ closing' = TRUE
    /\ UNCHANGED <<urlOk, conn, reconnectCount, disconnectCount, opened, drops,
                   publishing, stale>>

\* The reconnect handler only counts.
RunHandlerCounting(k) ==
    /\ mu = Free
    /\ queue[k] # <<>>
    /\ \/ /\ Head(queue[k]) = "disconnected"
          /\ connected' = FALSE
          /\ disconnectCount' = disconnectCount + 1
          /\ UNCHANGED reconnectCount
       \/ /\ Head(queue[k]) = "reconnected"
          /\ reconnectCount' = reconnectCount + 1
          /\ UNCHANGED <<connected, disconnectCount>>
       \/ /\ Head(queue[k]) = "closed"
          /\ connected' = FALSE
          /\ UNCHANGED <<reconnectCount, disconnectCount>>
    /\ queue' = [queue EXCEPT ![k] = Tail(@)]
    /\ stale' = (stale \/ k # conn)
    /\ UNCHANGED <<urlOk, conn, status, opened, drops, publishing, closing>>

\* The disconnect handler drops the flag without counting.
RunHandlerUncounted(k) ==
    /\ mu = Free
    /\ queue[k] # <<>>
    /\ connected' = (Head(queue[k]) = "reconnected")
    /\ reconnectCount' = reconnectCount + IF Head(queue[k]) = "reconnected" THEN 1 ELSE 0
    /\ queue' = [queue EXCEPT ![k] = Tail(@)]
    /\ stale' = (stale \/ k # conn)
    /\ UNCHANGED <<urlOk, conn, disconnectCount, status, opened, drops, publishing,
                   closing>>

\* nats.go makes the next handler call of connection k.
RunHandler(k) ==
    /\ mu = Free
    /\ queue[k] # <<>>
    /\ \/ /\ Head(queue[k]) = "disconnected"
          /\ connected' = FALSE
          /\ disconnectCount' = disconnectCount + 1
          /\ UNCHANGED reconnectCount
       \/ /\ Head(queue[k]) = "reconnected"
          /\ connected' = TRUE
          /\ reconnectCount' = reconnectCount + 1
          /\ UNCHANGED disconnectCount
       \/ /\ Head(queue[k]) = "closed"
          /\ connected' = FALSE
          /\ UNCHANGED <<reconnectCount, disconnectCount>>
    /\ queue' = [queue EXCEPT ![k] = Tail(@)]
    /\ stale' = (stale \/ k # conn)
    /\ UNCHANGED <<urlOk, conn, status, opened, drops, publishing, closing>>

-----------------------------------------------------------------------------
(* PublishWorldMoment and PublishVibeUpdate. *)

Goto(p, where) == pc' = [pc EXCEPT ![p] = where]
elsewhere == <<urlOk, conn, flags, network, closing, stale>>

\* IsConnected(), without keeping the lock.
PublishCheck(p) ==
    /\ pc[p] = "idle"
    /\ mu = Free
    /\ IsConnected
    /\ Goto(p, "checked")
    /\ UNCHANGED <<mu, todo, via, elsewhere>>

\* The rate limiter and the preparation of the messages: go on, or an error.
PublishPrepare(p) ==
    /\ pc[p] = "checked"
    /\ Goto(p, "ready") \/ Goto(p, "idle")
    /\ UNCHANGED <<mu, todo, via, elsewhere>>

\* The lock is let go again before the messages are sent.
PublishLockBriefly(p) ==
    /\ pc[p] = "ready"
    /\ mu = Free
    /\ connected
    /\ Goto(p, "sending")
    /\ todo' = [todo EXCEPT ![p] = Subjects]
    /\ via' = [via EXCEPT ![p] = {}]
    /\ UNCHANGED <<mu, elsewhere>>

\* "Double-check connection after acquiring lock": the flag and c.conn only.
PublishLock(p) ==
    /\ pc[p] = "ready"
    /\ mu = Free
    /\ \/ /\ connected /\ conn # NoConn
          /\ mu' = p
          /\ Goto(p, "sending")
          /\ todo' = [todo EXCEPT ![p] = Subjects]
          /\ via' = [via EXCEPT ![p] = {}]
       \/ /\ ~connected \/ conn = NoConn
          /\ Goto(p, "idle")
          /\ UNCHANGED <<mu, todo, via>>
    /\ UNCHANGED elsewhere

\* One c.conn.Publish: sent, or buffered while reconnecting.  An error ends the call:
\* a closed connection, a full buffer, and on any connection a message that is too
\* large or a subject that is none.
PublishOne(p) ==
    /\ pc[p] = "sending"
    /\ \/ \E s \in todo[p] :
             /\ Open(conn)
             /\ todo' = [todo EXCEPT ![p] = @ \ {s}]
             /\ via' = [via EXCEPT ![p] = @ \cup {conn}]
             /\ UNCHANGED <<mu, pc>>
       \/ /\ todo[p] # {}
          /\ mu' = Free
          /\ Goto(p, "idle")
          /\ UNCHANGED <<todo, via>>
    /\ UNCHANGED elsewhere

PublishDone(p) ==
    /\ pc[p] = "sending"
    /\ todo[p] = {}
    /\ mu' = Free
    /\ Goto(p, "idle")
    /\ UNCHANGED <<todo, via, elsewhere>>

Publish(p) ==
    \/ PublishCheck(p) \/ PublishPrepare(p) \/ PublishLock(p)
    \/ PublishOne(p) \/ PublishDone(p)

-----------------------------------------------------------------------------
(* GetConnectionStatus. *)

watching == <<pc, todo, via, elsewhere>>

\* c.conn.RTT() waits for an answer of the server, with the lock held.  A
\* connection that is not up is an error at once, and a flag that is down keeps
\* it from being asked: both leave everything as it was.
StatusAsk(w) ==
    /\ mu = Free
    /\ connected /\ conn # NoConn
    /\ status[conn] = "connected"
    /\ mu' = w
    /\ UNCHANGED watching

\* Waiting without a limit: only a connection that is up answers.
StatusAnswerOnly(w) ==
    /\ mu = w
    /\ status[conn] = "connected"
    /\ mu' = Free
    /\ UNCHANGED watching

\* An answer, the loss of the connection or the time limit of RTT.
StatusReturn(w) ==
    /\ mu = w
    /\ mu' = Free
    /\ UNCHANGED watching

-----------------------------------------------------------------------------
Network == \E k \in Conns : ConnLost(k) \/ ConnRestored(k)

Next ==
    \/ Connect \/ Close
    \/ \E k \in Conns : RunHandler(k)
    \/ Network
    \/ \E p \in Publishers : Publish(p)
    \/ \E w \in Watchers : StatusAsk(w) \/ StatusReturn(w)

SafeSpec == Init /\ [][Next]_vars

\* nats.go makes the handler calls it has queued, and whoever holds the lock goes
\* on: a publisher sends, and RTT returns after ten seconds at the latest.  A
\* handler waits for a mutex that others take again and again, but a sync.Mutex
\* is handed over in order after a millisecond of waiting: strong fairness.
Fairness ==
    /\ \A k \in Conns : SF_vars(RunHandler(k))
    /\ \A p \in Publishers : WF_vars(PublishOne(p)) /\ WF_vars(PublishDone(p))
    /\ \A w \in Watchers : WF_vars(StatusReturn(w))

Spec == SafeSpec /\ Fairness

-----------------------------------------------------------------------------
(* Properties *)

\* Whenever the flag is up there is a connection behind c.conn, so IsConnected,
\* GetConnectionStatus and the publishers never call a method of the nil
\* *nats.Conn that a failed Connect stores (nats_client.go:134).
NilSafe == connected => conn \in Conns

\* No connection is leaked: at most one is open, and it is c.conn.
OneOpenConnection == \A k \in Conns : Open(k) => k = conn

\* The statistics of streaming_status: however many connections took part, no
\* reconnection is counted before the disconnection it repairs.  STREAMING.md:301-302
\* shows an answer, of two reconnections and one disconnection, that never occurs.
ReconnectsFollowDisconnects == reconnectCount <= disconnectCount

\* The messages of one publication all go to one connection: Connect cannot
\* replace it between two of them.
SameConnection == \A p \in Publishers : \A j, k \in via[p] : j = k

\* The flag is right once nats.go has made all calls for the connection, as long
\* as no handler of an earlier connection has run since it was opened.
FlagRight ==
    conn \in Conns /\ queue[conn] = <<>> /\ ~stale =>
        (connected <=> status[conn] \in {"initial", "connected"})

\* After the last Close the flag ends up down and stays down, even when a
\* reconnect handler was waiting for the lock meanwhile.
CloseIsFinal == <>[]closing => <>[]~connected

\* A flag that is up is right, once nats.go has made all calls: what handlers of
\* replaced connections can do to the flag (see StatusTruth) is to lower it.
UpIsTrue ==
    connected /\ (\A k \in Conns : queue[k] = <<>>) =>
        conn \in Conns /\ status[conn] \in {"initial", "connected"}

\* The part of CloseIsFinal that needs no fairness: after the last Close the flag is
\* up only while some connection, the last or a replaced one, has calls to come.
CloseSettles == closing /\ (\A k \in Conns : queue[k] = <<>>) => ~connected

\* After Close nothing is sent until the next Connect: not by a publisher that had
\* seen the flag up before, nor by one that sees it up again because of a late
\* reconnect handler.
NothingSentAfterClose ==
    [][closing /\ closing' => \A p \in Publishers : via'[p] \subseteq via[p]]_vars

\* No handler is kept waiting for good, however often publications and requests
\* for the status take the lock it needs, and whatever becomes of the connection
\* they hold it for: the calls of every connection run out.
HandlersRun == \A k \in Conns : queue[k] # <<>> ~> queue[k] = <<>>

\* nats_client.go:410, "IsConnected returns the current connection status": with
\* no handler call outstanding, a connection that is up is reported as up.  The
\* code does not keep this once a connection was replaced.
StatusTruth ==
    (\A k \in Conns : queue[k] = <<>>) =>
        (IsConnected <=> conn \in Conns /\ status[conn] = "connected")

-----------------------------------------------------------------------------
(* The inductive invariant behind the safety properties. *)

\* Connections are numbered in the order they are opened and c.conn is the
\* newest; a client whose address is bad never has one.
ConnsInOrder ==
    /\ \A k \in Conns : status[k] # "none" <=> k <= opened
    /\ \A k \in Conns : queue[k] # <<>> => k <= opened
    /\ opened > 0 => conn = opened /\ urlOk
    /\ opened = 0 => conn \notin Conns /\ ~connected

\* The value the flag will have when the queued calls of connection k are made.
Settled(k) ==
    IF queue[k] = <<>> THEN connected ELSE queue[k][Len(queue[k])] = "reconnected"

FlagSettles ==
    conn \in Conns /\ ~stale =>
        (Settled(conn) <=> status[conn] \in {"initial", "connected"})

\* The lock is held by who is sending, or by who waits for an answer on a real
\* connection.
LockHeld ==
    /\ \A p \in Publishers : pc[p] = "sending" <=> mu = p
    /\ mu \in Watchers => conn \in Conns
SentVia ==
    \A p \in Publishers : pc[p] = "sending" => conn \in Conns /\ via[p] \subseteq {conn}

ConnInv ==
    /\ TypeOK
    /\ ConnsInOrder
    /\ OneOpenConnection
    /\ FlagSettles
    /\ LockHeld
    /\ SentVia
    /\ SameConnection

\* The connections that are lost, or came back, with the loss counted and the
\* return not yet.
Owed ==
    { k \in Conns : \/ queue[k] = <<>> /\ status[k] = "reconnecting"
                    \/ queue[k] # <<>> /\ Head(queue[k]) = "reconnected" }

\* Every call of a reconnect handler follows one of the disconnect handler.
CallsAlternate ==
    \A k \in Conns :
        /\ \A i \in 2..Len(queue[k]) :
               queue[k][i] = "reconnected" => queue[k][i - 1] = "disconnected"
        /\ status[k] = "reconnecting" /\ queue[k] # <<>> =>
               queue[k][Len(queue[k])] = "disconnected"

\* What is counted as a return was counted as a loss before, and the losses that
\* are still to be followed by a return come on top.
CountsInOrder ==
    CallsAlternate /\ reconnectCount + Cardinality(Owed) <= disconnectCount

\* The last of the calls to come tells of the status the connection has.
LastCall(st) ==
    CASE st = "connected" -> "reconnected"
      [] st = "reconnecting" -> "disconnected"
      [] st = "closed" -> "closed"
      [] OTHER -> "none"

CallsFit ==
    \A k \in Conns : queue[k] # <<>> => queue[k][Len(queue[k])] = LastCall(status[k])

ClosedWhileClosing == closing => \A k \in Conns : ~Open(k)

UpInv == CallsFit /\ ClosedWhileClosing /\ UpIsTrue

IInv == ConnInv /\ CountsInOrder /\ UpInv
=============================================================================

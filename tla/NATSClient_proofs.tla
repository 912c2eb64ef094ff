-------------------------- MODULE NATSClient_proofs --------------------------
(***************************************************************************)
(* Proofs about NATSClient, for every number of publishers, watchers,      *)
(* subjects, connections and losses.                                       *)
(***************************************************************************)
EXTENDS NATSClient, SequenceTheorems, FiniteSetTheorems, TLAPS

\* Appending a non-empty piece to a queue: its last call is that of the piece.
LEMMA LastOfConcat ==
    ASSUME NEW q \in Seq(Handlers), NEW c \in Seq(Handlers), c # <<>>
    PROVE  /\ q \o c \in Seq(Handlers)
           /\ q \o c # <<>>
           /\ (q \o c)[Len(q \o c)] = c[Len(c)]
<1>1. Len(c) > 0 /\ Len(q) >= 0
  OBVIOUS
<1>2. q \o c \in Seq(Handlers) /\ Len(q \o c) = Len(q) + Len(c)
  OBVIOUS
<1> QED BY <1>1, <1>2

\* Closing a connection queues calls that end with "closed", or none if it was
\* closed before.
LEMMA OnCloseEndsClosed ==
    ASSUME NEW k \in Conns, NEW calls \in OnClose(k)
    PROVE  /\ calls \in Seq(Handlers)
           /\ Open(k) => calls # <<>> /\ calls[Len(calls)] = "closed"
           /\ ~Open(k) => calls = <<>>
<1>1. CASE status[k] = "connected"
  <2>1. calls = <<"disconnected", "closed">>
    BY <1>1 DEF OnClose
  <2> QED BY <1>1, <2>1 DEF Open, Handlers
<1>2. CASE status[k] \in {"initial", "reconnecting"}
  <2>1. calls = <<"closed">> \/ calls = <<"disconnected", "closed">>
    BY <1>2 DEF OnClose
  <2>2. Open(k)
    BY <1>2 DEF Open
  <2>3. CASE calls = <<"closed">>
    BY <2>2, <2>3 DEF Handlers
  <2>4. CASE calls = <<"disconnected", "closed">>
    BY <2>2, <2>4 DEF Handlers
  <2> QED BY <2>1, <2>3, <2>4
<1>3. CASE status[k] \notin {"connected", "initial", "reconnecting"}
  <2>1. calls = <<>>
    BY <1>3 DEF OnClose
  <2> QED BY <1>3, <2>1 DEF Open, Handlers
<1> QED BY <1>1, <1>2, <1>3

LEMMA InitEstablishesConnInv == Init => ConnInv
<1> SUFFICES ASSUME Init PROVE ConnInv
  OBVIOUS
<1>1. TypeOK
  <2>1. 0 \in 0..MaxConns /\ 0 \in 0..MaxDrops /\ <<>> \in Seq(Handlers)
    BY BoundsAssumption
  <2>2. status \in [Conns -> Statuses] /\ queue \in [Conns -> Seq(Handlers)]
    BY <2>1 DEF Init, Statuses
  <2>3. /\ pc \in [Publishers -> PCs]
        /\ todo \in [Publishers -> SUBSET Subjects]
        /\ via \in [Publishers -> SUBSET Conns]
    BY DEF Init, PCs
  <2> QED BY <2>1, <2>2, <2>3 DEF Init, TypeOK
<1>2. ConnsInOrder
  BY BoundsAssumption DEF Init, ConnsInOrder, Conns, NoConn
<1>3. OneOpenConnection
  BY DEF Init, OneOpenConnection, Open
<1>4. FlagSettles
  BY DEF Init, FlagSettles, Conns, NoConn
<1>5. LockHeld /\ SentVia /\ SameConnection
  BY PublishersAssumption DEF Init, LockHeld, SentVia, SameConnection
<1> QED BY <1>1, <1>2, <1>3, <1>4, <1>5 DEF ConnInv

-----------------------------------------------------------------------------
(* The parts of the invariant about the publishers. *)

PublisherInv == LockHeld /\ SentVia /\ SameConnection

\* c.conn changes only while nobody holds the lock, so nobody is sending.
LEMMA ConnChangeKeepsPublisherInv ==
    ASSUME ConnInv, mu = Free, UNCHANGED publishing
    PROVE  PublisherInv'
<1>1. \A p \in Publishers : pc[p] # "sending"
  BY PublishersAssumption DEF ConnInv, LockHeld
<1> QED BY <1>1, PublishersAssumption
        DEF ConnInv, PublisherInv, LockHeld, SentVia, SameConnection, publishing

\* The rest of the invariant does not mention the publishers' variables.
LEMMA PublishKeepsRest ==
    ASSUME ConnInv, UNCHANGED elsewhere
    PROVE  ConnsInOrder' /\ OneOpenConnection' /\ FlagSettles'
BY DEF ConnInv, elsewhere, flags, network, ConnsInOrder, OneOpenConnection, Open,
       FlagSettles, Settled

LEMMA PublishKeepsConnInv ==
    ASSUME ConnInv, NEW p \in Publishers, Publish(p)
    PROVE  ConnInv'
<1>1. UNCHANGED elsewhere
  BY DEF Publish, PublishCheck, PublishPrepare, PublishLock, PublishOne, PublishDone
<1>2. ConnsInOrder' /\ OneOpenConnection' /\ FlagSettles'
  BY <1>1, PublishKeepsRest
<1>3. UNCHANGED <<urlOk, conn, connected, reconnectCount, disconnectCount, status, queue,
                  opened, drops, closing, stale>>
  BY <1>1 DEF elsewhere, flags, network
<1>4. p # Free
  BY PublishersAssumption
<1>5. CASE PublishCheck(p)
  <2>1. TypeOK'
    BY <1>3, <1>5 DEF PublishCheck, Goto, ConnInv, TypeOK, PCs
  <2>2. PublisherInv'
    BY <1>3, <1>5 DEF PublishCheck, Goto, ConnInv, PublisherInv, TypeOK, LockHeld, SentVia,
       SameConnection
  <2> QED BY <1>2, <2>1, <2>2 DEF ConnInv, PublisherInv
<1>6. CASE PublishPrepare(p)
  <2>1. TypeOK'
    BY <1>3, <1>6 DEF PublishPrepare, Goto, ConnInv, TypeOK, PCs
  <2>2. PublisherInv'
    BY <1>3, <1>6 DEF PublishPrepare, Goto, ConnInv, PublisherInv, TypeOK, LockHeld, SentVia,
       SameConnection
  <2> QED BY <1>2, <2>1, <2>2 DEF ConnInv, PublisherInv
<1>7. CASE PublishLock(p)
  <2>1. TypeOK'
    BY <1>3, <1>7 DEF PublishLock, Goto, ConnInv, TypeOK, PCs
  <2>2. \A q \in Publishers : pc[q] # "sending"
    BY <1>7, PublishersAssumption DEF PublishLock, ConnInv, LockHeld
  <2>3. ASSUME connected, conn # NoConn, mu' = p, Goto(p, "sending"),
               via' = [via EXCEPT ![p] = {}]
        PROVE  LockHeld' /\ SentVia' /\ SameConnection'
    <3>1. conn \in Conns
      BY <2>3 DEF ConnInv, ConnsInOrder, TypeOK, Conns
    <3>2. \A q \in Publishers : pc'[q] = "sending" <=> q = p
      BY <2>2, <2>3 DEF Goto, ConnInv, TypeOK
    <3>3. via'[p] = {} /\ \A q \in Publishers : q # p => via'[q] = via[q]
      BY <2>3 DEF ConnInv, TypeOK
    <3>4. LockHeld'
      BY <2>3, <3>2, PublishersAssumption DEF LockHeld
    <3>5. SentVia' /\ SameConnection'
      BY <1>3, <3>1, <3>2, <3>3 DEF ConnInv, SentVia, SameConnection
    <3> QED BY <3>4, <3>5
  <2>4. ASSUME Goto(p, "idle"), UNCHANGED <<mu, todo, via>>
        PROVE  LockHeld' /\ SentVia' /\ SameConnection'
    <3>1. \A q \in Publishers : pc'[q] # "sending"
      BY <2>2, <2>4 DEF Goto, ConnInv, TypeOK
    <3> QED BY <1>7, <2>4, <3>1, PublishersAssumption
            DEF PublishLock, ConnInv, LockHeld, SentVia, SameConnection
  <2>5. LockHeld' /\ SentVia' /\ SameConnection'
    BY <1>7, <2>3, <2>4 DEF PublishLock
  <2> QED BY <1>2, <2>1, <2>5 DEF ConnInv
<1>8. CASE PublishOne(p)
  <2>1. CASE \E s \in todo[p] :
               /\ Open(conn)
               /\ todo' = [todo EXCEPT ![p] = @ \ {s}]
               /\ via' = [via EXCEPT ![p] = @ \cup {conn}]
               /\ UNCHANGED <<mu, pc>>
    <3>1. conn \in Conns
      BY <1>8 DEF PublishOne, ConnInv, SentVia
    <3>2. TypeOK'
      BY <1>3, <2>1, <3>1 DEF ConnInv, TypeOK
    <3>3. LockHeld'
      BY <1>3, <2>1 DEF ConnInv, LockHeld
    <3>4. via[p] \subseteq {conn} /\ via'[p] = via[p] \cup {conn}
      BY <1>8, <2>1 DEF PublishOne, ConnInv, SentVia, TypeOK
    <3>5. \A q \in Publishers : q # p => via'[q] = via[q]
      BY <2>1 DEF ConnInv, TypeOK
    <3>6. SentVia' /\ SameConnection'
      BY <1>3, <2>1, <3>4, <3>5 DEF ConnInv, SentVia, SameConnection
    <3> QED BY <1>2, <3>2, <3>3, <3>6 DEF ConnInv
  <2>2. CASE mu' = Free /\ Goto(p, "idle") /\ UNCHANGED <<todo, via>>
    <3>1. TypeOK'
      BY <1>3, <2>2 DEF Goto, ConnInv, TypeOK, PCs
    <3>2. \A q \in Publishers : q # p => pc[q] # "sending"
      BY <1>8 DEF PublishOne, ConnInv, LockHeld
    <3>3. LockHeld'
      BY <1>4, <2>2, <3>2, PublishersAssumption DEF Goto, ConnInv, TypeOK, LockHeld
    <3>4. SentVia' /\ SameConnection'
      BY <1>3, <2>2 DEF Goto, ConnInv, TypeOK, SentVia, SameConnection
    <3> QED BY <1>2, <3>1, <3>3, <3>4 DEF ConnInv
  <2> QED BY <1>8, <2>1, <2>2 DEF PublishOne
<1>9. CASE PublishDone(p)
  <2>1. TypeOK'
    BY <1>3, <1>9 DEF PublishDone, Goto, ConnInv, TypeOK, PCs
  <2>2. \A q \in Publishers : q # p => pc[q] # "sending"
    BY <1>9 DEF PublishDone, ConnInv, LockHeld
  <2>3. LockHeld'
    BY <1>4, <1>9, <2>2, PublishersAssumption DEF PublishDone, Goto, ConnInv, TypeOK, LockHeld
  <2>4. SentVia' /\ SameConnection'
    BY <1>3, <1>9 DEF PublishDone, Goto, ConnInv, TypeOK, SentVia, SameConnection
  <2> QED BY <1>2, <2>1, <2>3, <2>4 DEF ConnInv
<1> QED BY <1>5, <1>6, <1>7, <1>8, <1>9 DEF Publish
\* A request for the status takes the lock and gives it back, and nothing else.
LEMMA StatusKeepsConnInv ==
    ASSUME ConnInv, NEW w \in Watchers, StatusAsk(w) \/ StatusReturn(w)
    PROVE  ConnInv'
<1>1. UNCHANGED elsewhere /\ UNCHANGED <<pc, todo, via>>
  BY DEF StatusAsk, StatusReturn, watching
<1>2. ConnsInOrder' /\ OneOpenConnection' /\ FlagSettles'
  BY <1>1, PublishKeepsRest
<1>3. UNCHANGED <<urlOk, conn, connected, reconnectCount, disconnectCount, status, queue,
                  opened, drops, closing, stale>>
  BY <1>1 DEF elsewhere, flags, network
<1>4. mu' \in Watchers \cup {Free} /\ mu \notin Publishers
  BY PublishersAssumption DEF StatusAsk, StatusReturn
<1>5. TypeOK'
  BY <1>1, <1>3, <1>4 DEF ConnInv, TypeOK
<1>6. mu' \in Watchers => conn \in Conns
  BY PublishersAssumption
     DEF StatusAsk, StatusReturn, ConnInv, ConnsInOrder, TypeOK, Conns
<1>7. LockHeld'
  BY <1>1, <1>3, <1>4, <1>6, PublishersAssumption DEF ConnInv, LockHeld
<1>8. SentVia' /\ SameConnection'
  BY <1>1, <1>3 DEF ConnInv, SentVia, SameConnection
<1> QED BY <1>2, <1>5, <1>7, <1>8 DEF ConnInv

-----------------------------------------------------------------------------
(* Connecting, closing, the handlers and the network. *)

\* After closing c.conn no connection is open, and nothing else has changed
\* but the end of its queue.
LEMMA ClosingConn ==
    ASSUME ConnInv, NEW qs \in ClosedQueues
    PROVE  /\ ClosedStatus \in [Conns -> Statuses]
           /\ qs \in [Conns -> Seq(Handlers)]
           /\ \A k \in Conns : ClosedStatus[k] \notin {"initial", "connected", "reconnecting"}
           /\ \A k \in Conns : ClosedStatus[k] # "none" <=> k <= opened
           /\ \A k \in Conns : qs[k] # <<>> => k <= opened
           /\ conn \in Conns =>
                 \/ qs[conn] # <<>> /\ qs[conn][Len(qs[conn])] = "closed"
                 \/ qs[conn] = queue[conn] /\ ~Open(conn)
<1> USE DEF ConnInv
<1>1. CASE conn \notin Conns
  BY <1>1 DEF ClosedStatus, ClosedQueues, TypeOK, ConnsInOrder, OneOpenConnection, Open
<1>2. CASE conn \in Conns
  <2>1. ClosedStatus = [status EXCEPT ![conn] = "closed"]
    BY <1>2 DEF ClosedStatus
  <2>2. PICK calls \in OnClose(conn) : qs = [queue EXCEPT ![conn] = @ \o calls]
    BY <1>2 DEF ClosedQueues
  <2>3. conn <= opened
    BY <1>2, BoundsAssumption DEF ConnsInOrder, TypeOK, Conns
  <2>4. ClosedStatus \in [Conns -> Statuses]
    BY <2>1 DEF TypeOK, Statuses
  <2>5. /\ \A k \in Conns : ClosedStatus[k] \notin {"initial", "connected", "reconnecting"}
        /\ \A k \in Conns : ClosedStatus[k] # "none" <=> k <= opened
    BY <1>2, <2>1, <2>3 DEF TypeOK, OneOpenConnection, Open, ConnsInOrder
  <2>6. calls \in Seq(Handlers) /\ queue[conn] \in Seq(Handlers)
    BY <1>2, <2>2, OnCloseEndsClosed DEF TypeOK
  <2>7. qs[conn] = queue[conn] \o calls /\ \A k \in Conns : k # conn => qs[k] = queue[k]
    BY <1>2, <2>2 DEF TypeOK
  <2>8. qs \in [Conns -> Seq(Handlers)] /\ \A k \in Conns : qs[k] # <<>> => k <= opened
    <3>1. queue[conn] \o calls \in Seq(Handlers)
      BY <2>6
    <3> QED BY <1>2, <2>2, <2>3, <2>7, <3>1 DEF TypeOK, ConnsInOrder
  <2>9. CASE Open(conn)
    <3>1. calls # <<>> /\ calls[Len(calls)] = "closed"
      BY <1>2, <2>9, OnCloseEndsClosed
    <3>2. qs[conn] # <<>> /\ qs[conn][Len(qs[conn])] = "closed"
      BY <2>6, <2>7, <3>1, LastOfConcat
    <3> QED BY <2>4, <2>5, <2>8, <3>2
  <2>10. CASE ~Open(conn)
    <3>1. calls = <<>>
      BY <1>2, <2>10, OnCloseEndsClosed
    <3>2. qs[conn] = queue[conn]
      BY <2>6, <2>7, <3>1
    <3> QED BY <2>4, <2>5, <2>8, <2>10, <3>2
  <2> QED BY <2>9, <2>10
<1> QED BY <1>1, <1>2

LEMMA CloseKeepsConnInv == ConnInv /\ Close => ConnInv'
<1> SUFFICES ASSUME ConnInv, Close PROVE ConnInv'
  OBVIOUS
<1> USE DEF ConnInv, Close
<1>1. PICK qs \in ClosedQueues : queue' = qs
  OBVIOUS
<1>2. status' = ClosedStatus /\ connected' = FALSE
  OBVIOUS
<1>3. UNCHANGED <<conn, opened, stale, urlOk>>
  OBVIOUS
<1>4. TypeOK'
  BY <1>1, <1>2, ClosingConn DEF TypeOK, publishing
<1>5. ConnsInOrder'
  BY <1>1, <1>2, <1>3, ClosingConn DEF ConnsInOrder
<1>6. OneOpenConnection'
  BY <1>1, <1>2, ClosingConn DEF OneOpenConnection, Open
<1>7. FlagSettles'
  <2> SUFFICES ASSUME conn \in Conns, ~stale
               PROVE  ~Settled(conn)' /\ status'[conn] \notin {"initial", "connected"}
    BY <1>3 DEF FlagSettles, Settled
  <2>1. status'[conn] \notin {"initial", "connected"}
    BY <1>1, <1>2, ClosingConn
  <2>2. CASE qs[conn] # <<>> /\ qs[conn][Len(qs[conn])] = "closed"
    BY <1>1, <1>3, <2>1, <2>2 DEF Settled
  <2>3. CASE qs[conn] = queue[conn] /\ ~Open(conn)
    <3>1. ~Settled(conn)
      BY <2>3 DEF FlagSettles, Open
    <3> QED BY <1>1, <1>2, <1>3, <2>1, <2>3, <3>1 DEF Settled
  <2> QED BY <1>1, <2>2, <2>3, ClosingConn
<1>8. PublisherInv'
  BY ConnChangeKeepsPublisherInv
<1> QED BY <1>4, <1>5, <1>6, <1>7, <1>8 DEF PublisherInv

LEMMA ConnectKeepsConnInv == ConnInv /\ Connect => ConnInv'
<1> SUFFICES ASSUME ConnInv, Connect PROVE ConnInv'
  OBVIOUS
<1> USE DEF ConnInv
<1>1. mu = Free /\ UNCHANGED <<urlOk, reconnectCount, disconnectCount, drops, publishing>>
      /\ closing' = FALSE
  BY DEF Connect
<1>2. PublisherInv'
  BY <1>1, ConnChangeKeepsPublisherInv
<1>3. CASE UNCHANGED <<conn, connected, status, queue, opened, stale>>
  BY <1>1, <1>2, <1>3 DEF PublisherInv, TypeOK, ConnsInOrder, OneOpenConnection, Open,
     FlagSettles, Settled, publishing
<1>4. CASE /\ urlOk
           /\ opened < MaxConns
           /\ \E up \in BOOLEAN :
                  status' = [ClosedStatus EXCEPT
                                ![opened + 1] = IF up THEN "connected" ELSE "initial"]
           /\ queue' \in ClosedQueues
           /\ opened' = opened + 1
           /\ conn' = opened + 1
           /\ connected' = TRUE
           /\ stale' = FALSE
  <2>1. opened + 1 \in Conns /\ opened \in Nat
    BY <1>4, BoundsAssumption DEF TypeOK, Conns
  <2>2. PICK st \in {"connected", "initial"} :
            status' = [ClosedStatus EXCEPT ![opened + 1] = st]
    BY <1>4
  <2>3. status'[opened + 1] = st /\
        \A k \in Conns : k # opened + 1 => status'[k] = ClosedStatus[k]
    BY <1>4, <2>1, <2>2, ClosingConn
  <2>4. TypeOK'
    <3>1. status' \in [Conns -> Statuses] /\ queue' \in [Conns -> Seq(Handlers)]
      BY <1>4, <2>2, ClosingConn DEF Statuses
    <3>2. conn' \in Conns /\ opened' \in 0..MaxConns
      BY <1>4, <2>1, BoundsAssumption
    <3> QED BY <1>1, <1>4, <3>1, <3>2 DEF TypeOK, publishing
  <2>5. queue'[opened + 1] = <<>> /\ \A k \in Conns : queue'[k] # <<>> => k <= opened
    BY <1>4, <2>1, ClosingConn
  <2>6. ConnsInOrder'
    BY <1>1, <1>4, <2>1, <2>3, <2>5, ClosingConn DEF ConnsInOrder, Conns
  <2>7. OneOpenConnection'
    BY <1>4, <2>3, ClosingConn DEF OneOpenConnection, Open
  <2>8. FlagSettles'
    BY <1>4, <2>3, <2>5 DEF FlagSettles, Settled
  <2> QED BY <1>2, <2>4, <2>6, <2>7, <2>8 DEF PublisherInv
<1>5. CASE /\ ~urlOk
           /\ status' = ClosedStatus
           /\ queue' \in ClosedQueues
           /\ conn' = NilConn
           /\ UNCHANGED <<connected, opened, stale>>
  <2>1. opened = 0
    BY <1>5, BoundsAssumption DEF TypeOK, ConnsInOrder
  <2>2. NilConn \notin Conns
    BY DEF NilConn, Conns
  <2>3. TypeOK'
    BY <1>1, <1>5, ClosingConn DEF TypeOK, publishing
  <2>4. ConnsInOrder'
    BY <1>5, <2>1, <2>2, ClosingConn DEF ConnsInOrder
  <2>5. OneOpenConnection' /\ FlagSettles'
    BY <1>5, <2>2, ClosingConn DEF OneOpenConnection, Open, FlagSettles
  <2> QED BY <1>2, <2>3, <2>4, <2>5 DEF PublisherInv
<1> QED BY <1>3, <1>4, <1>5 DEF Connect

\* A handler of the connection c.conn takes its call off the queue and leaves
\* the flag as the rest of the queue expects it; any other one sets stale.
LEMMA RunHandlerKeepsConnInv ==
    ASSUME ConnInv, NEW k \in Conns, RunHandler(k)
    PROVE  ConnInv'
<1> USE DEF ConnInv
<1>1. mu = Free /\ queue[k] # <<>> /\ queue' = [queue EXCEPT ![k] = Tail(@)]
      /\ stale' = (stale \/ k # conn)
      /\ UNCHANGED <<urlOk, conn, status, opened, drops, publishing, closing>>
  BY DEF RunHandler
<1>2. PublisherInv'
  BY <1>1, ConnChangeKeepsPublisherInv
<1>3. /\ queue[k] \in Seq(Handlers) /\ Head(queue[k]) \in Handlers
      /\ Tail(queue[k]) \in Seq(Handlers)
  BY <1>1 DEF TypeOK
<1>4. connected' = (Head(queue[k]) = "reconnected")
  BY <1>3 DEF RunHandler, Handlers
<1>5. TypeOK'
  <2>1. reconnectCount' \in Nat /\ disconnectCount' \in Nat
    BY DEF RunHandler, TypeOK
  <2> QED BY <1>1, <1>3, <1>4, <2>1 DEF TypeOK, publishing
<1>6. opened > 0
  BY <1>1, BoundsAssumption DEF ConnsInOrder, TypeOK, Conns
<1>7. ConnsInOrder'
  <2>1. \A j \in Conns : queue'[j] # <<>> => queue[j] # <<>>
    BY <1>1 DEF TypeOK
  <2> QED BY <1>1, <1>6, <2>1 DEF ConnsInOrder
<1>8. OneOpenConnection'
  BY <1>1 DEF OneOpenConnection, Open
<1>9. FlagSettles'
  <2> SUFFICES ASSUME conn \in Conns, ~stale, k = conn
               PROVE  Settled(conn)' <=> Settled(conn)
    BY <1>1 DEF FlagSettles
  <2>1. queue'[k] = Tail(queue[k])
    BY <1>1 DEF TypeOK
  <2>2. CASE Tail(queue[k]) = <<>>
    <3>1. Len(queue[k]) = 1
      <4>1. Len(queue[k]) \in Nat /\ Len(queue[k]) # 0
        BY <1>1, <1>3, LenProperties, EmptySeq
      <4>2. Len(Tail(queue[k])) = Len(queue[k]) - 1
        BY <1>1, <1>3, HeadTailProperties
      <4>3. Len(Tail(queue[k])) = 0
        BY <1>3, <2>2, EmptySeq
      <4> QED BY <4>1, <4>2, <4>3
    <3>2. queue[k][Len(queue[k])] = Head(queue[k])
      BY <1>1, <1>3, <3>1
    <3> QED BY <1>1, <1>4, <2>1, <2>2, <3>2 DEF Settled
  <2>3. CASE Tail(queue[k]) # <<>>
    <3>1. Tail(queue[k])[Len(Tail(queue[k]))] = queue[k][Len(queue[k])]
      BY <1>1, <1>3, <2>3
    <3> QED BY <1>1, <2>1, <2>3, <3>1 DEF Settled
  <2> QED BY <2>2, <2>3
<1> QED BY <1>2, <1>5, <1>7, <1>8, <1>9 DEF PublisherInv

\* The network changes a status and appends the call that goes with it.
LEMMA NetworkKeepsConnInv ==
    ASSUME ConnInv, NEW k \in Conns, ConnLost(k) \/ ConnRestored(k)
    PROVE  ConnInv'
<1> USE DEF ConnInv
<1>1. UNCHANGED <<urlOk, conn, connected, reconnectCount, disconnectCount, opened, publishing,
                  closing, stale>>
  BY DEF ConnLost, ConnRestored, flags
<1>2. PublisherInv'
  BY <1>1 DEF PublisherInv, LockHeld, SentVia, SameConnection, publishing
<1>3. Open(k) /\ k = conn /\ k <= opened
  BY DEF ConnLost, ConnRestored, Open, OneOpenConnection, ConnsInOrder
<1>4. PICK st \in {"connected", "reconnecting"}, calls \in Seq(Handlers) :
          /\ status' = [status EXCEPT ![k] = st]
          /\ queue' = [queue EXCEPT ![k] = @ \o calls]
          /\ drops' \in 0..MaxDrops
          /\ \/ /\ calls = <<>> /\ status[k] = "initial" /\ st = "connected"
             \/ /\ calls # <<>>
                /\ calls[Len(calls)] = "reconnected" <=> st = "connected"
  <2>1. CASE ConnLost(k)
    <3>1. queue' = [queue EXCEPT ![k] = @ \o <<"disconnected">>]
      <4>1. queue[k] \in Seq(Handlers) /\ "disconnected" \in Handlers
        BY DEF TypeOK, Handlers
      <4>2. Append(queue[k], "disconnected") = queue[k] \o <<"disconnected">>
        BY <4>1, AppendIsConcat
      <4> QED BY <2>1, <4>2 DEF ConnLost
    <3>2. drops' \in 0..MaxDrops
      BY <2>1, BoundsAssumption DEF ConnLost, TypeOK
    <3>3. <<"disconnected">> \in Seq(Handlers)
      BY DEF Handlers
    <3>4. /\ <<"disconnected">> # <<>>
          /\ <<"disconnected">>[Len(<<"disconnected">>)] = "disconnected"
      OBVIOUS
    <3>5. status' = [status EXCEPT ![k] = "reconnecting"]
      BY <2>1 DEF ConnLost
    <3> QED BY <3>1, <3>2, <3>3, <3>4, <3>5
  <2>2. CASE ConnRestored(k) /\ status[k] = "initial"
    <3>1. queue' = [queue EXCEPT ![k] = @ \o <<>>]
      BY <2>2 DEF ConnRestored, TypeOK
    <3>2. status' = [status EXCEPT ![k] = "connected"] /\ drops' \in 0..MaxDrops
      BY <2>2 DEF ConnRestored, TypeOK
    <3>3. <<>> \in Seq(Handlers)
      OBVIOUS
    <3> QED BY <2>2, <3>1, <3>2, <3>3
  <2>3. CASE ConnRestored(k) /\ status[k] # "initial"
    <3>1. queue' = [queue EXCEPT ![k] = @ \o <<"reconnected">>]
      <4>1. queue[k] \in Seq(Handlers) /\ "reconnected" \in Handlers
        BY DEF TypeOK, Handlers
      <4>2. Append(queue[k], "reconnected") = queue[k] \o <<"reconnected">>
        BY <4>1, AppendIsConcat
      <4> QED BY <2>3, <4>2 DEF ConnRestored
    <3>2. <<"reconnected">> \in Seq(Handlers)
      BY DEF Handlers
    <3>3. /\ <<"reconnected">> # <<>>
          /\ <<"reconnected">>[Len(<<"reconnected">>)] = "reconnected"
      OBVIOUS
    <3>4. status' = [status EXCEPT ![k] = "connected"] /\ drops' \in 0..MaxDrops
      BY <2>3 DEF ConnRestored, TypeOK
    <3> QED BY <3>1, <3>2, <3>3, <3>4
  <2> QED BY <2>1, <2>2, <2>3 DEF ConnRestored
<1>5. status'[k] = st /\ queue'[k] = queue[k] \o calls /\ queue[k] \in Seq(Handlers)
      /\ \A j \in Conns : j # k => status'[j] = status[j] /\ queue'[j] = queue[j]
  BY <1>4 DEF TypeOK
<1>6. TypeOK'
  <2>1. queue[k] \o calls \in Seq(Handlers)
    BY <1>5
  <2> QED BY <1>1, <1>4, <2>1 DEF TypeOK, Statuses, publishing
<1>7. ConnsInOrder' /\ OneOpenConnection'
  BY <1>1, <1>3, <1>5 DEF ConnsInOrder, OneOpenConnection, Open
<1>8. FlagSettles'
  <2> SUFFICES ASSUME ~stale
               PROVE  Settled(conn)' <=> st = "connected"
    BY <1>1, <1>3, <1>4, <1>5 DEF FlagSettles
  <2>1. CASE calls = <<>> /\ status[k] = "initial" /\ st = "connected"
    <3>1. queue[k] \o calls = queue[k]
      BY <1>5, <2>1
    <3>2. Settled(conn)
      BY <1>3, <2>1 DEF FlagSettles
    <3> QED BY <1>1, <1>3, <1>5, <2>1, <3>1, <3>2 DEF Settled
  <2>2. CASE calls # <<>> /\ (calls[Len(calls)] = "reconnected" <=> st = "connected")
    BY <1>1, <1>3, <1>5, <2>2, LastOfConcat DEF Settled
  <2> QED BY <1>4, <2>1, <2>2
<1> QED BY <1>2, <1>6, <1>7, <1>8 DEF PublisherInv

LEMMA NextKeepsConnInv == ConnInv /\ [Next]_vars => ConnInv'
<1> SUFFICES ASSUME ConnInv, [Next]_vars PROVE ConnInv'
  OBVIOUS
<1>1. CASE Connect
  BY <1>1, ConnectKeepsConnInv
<1>2. CASE Close
  BY <1>2, CloseKeepsConnInv
<1>3. ASSUME NEW k \in Conns, RunHandler(k) PROVE ConnInv'
  BY <1>3, RunHandlerKeepsConnInv
<1>4. CASE Network
  BY <1>4, NetworkKeepsConnInv DEF Network
<1>5. ASSUME NEW p \in Publishers, Publish(p) PROVE ConnInv'
  BY <1>5, PublishKeepsConnInv
<1>6. ASSUME NEW w \in Watchers, StatusAsk(w) \/ StatusReturn(w) PROVE ConnInv'
  BY <1>6, StatusKeepsConnInv
<1>7. CASE UNCHANGED vars
  BY <1>7 DEF vars, flags, network, publishing, ConnInv, TypeOK, ConnsInOrder,
     OneOpenConnection, Open, FlagSettles, Settled, LockHeld, SentVia, SameConnection
<1> QED BY <1>1, <1>2, <1>3, <1>4, <1>5, <1>6, <1>7 DEF Next

-----------------------------------------------------------------------------
(* The counters. *)

Alternates(q, st) ==
    /\ \A i \in 2..Len(q) : q[i] = "reconnected" => q[i - 1] = "disconnected"
    /\ st = "reconnecting" /\ q # <<>> => q[Len(q)] = "disconnected"

Owes(q, st) ==
    \/ q = <<>> /\ st = "reconnecting"
    \/ q # <<>> /\ Head(q) = "reconnected"

LEMMA QueueByQueue ==
    /\ CallsAlternate <=> \A k \in Conns : Alternates(queue[k], status[k])
    /\ Owed = { k \in Conns : Owes(queue[k], status[k]) }
BY DEF CallsAlternate, Alternates, Owed, Owes

\* Making the next call: only after a loss can a return be owed.
LEMMA TailAlternates ==
    ASSUME NEW q \in Seq(Handlers), q # <<>>, NEW st, Alternates(q, st)
    PROVE  /\ Alternates(Tail(q), st)
           /\ Owes(Tail(q), st) => Head(q) = "disconnected"
<1>1. Len(q) \in Nat /\ Len(q) > 0 /\ Len(Tail(q)) = Len(q) - 1 /\ Head(q) = q[1]
  OBVIOUS
<1>2. \A i \in 1..Len(q) - 1 : Tail(q)[i] = q[i + 1]
  OBVIOUS
<1>3. ASSUME NEW i \in 2..Len(Tail(q)), Tail(q)[i] = "reconnected"
      PROVE  Tail(q)[i - 1] = "disconnected"
  <2>1. q[i + 1] = "reconnected" /\ i + 1 \in 2..Len(q)
    BY <1>1, <1>2, <1>3
  <2>2. q[i] = "disconnected"
    <3>1. q[(i + 1) - 1] = "disconnected"
      BY <2>1 DEF Alternates
    <3> QED BY <3>1
  <2>3. Tail(q)[i - 1] = q[(i - 1) + 1]
    BY <1>1, <1>2
  <2> QED BY <2>2, <2>3
<1>4. Tail(q) # <<>> => Len(q) > 1 /\ Tail(q)[Len(Tail(q))] = q[Len(q)]
  BY <1>1, <1>2
<1>5. Alternates(Tail(q), st)
  BY <1>3, <1>4 DEF Alternates
<1>6. ASSUME Owes(Tail(q), st) PROVE Head(q) = "disconnected"
  <2>1. CASE Tail(q) = <<>>
    <3>1. Len(q) = 1 /\ st = "reconnecting"
      BY <1>1, <1>6, <2>1 DEF Owes
    <3> QED BY <1>1, <3>1 DEF Alternates
  <2>2. CASE Tail(q) # <<>>
    <3>1. Len(q) > 1 /\ Head(Tail(q)) = "reconnected"
      BY <1>4, <1>6, <2>2 DEF Owes
    <3>2. Head(Tail(q)) = Tail(q)[1] /\ Tail(q)[1] = q[1 + 1]
      BY <1>1, <1>2, <2>2, <3>1
    <3>3. q[2] = "reconnected" /\ 2 \in 2..Len(q)
      BY <1>1, <3>1, <3>2
    <3>4. q[2 - 1] = "disconnected"
      BY <3>3 DEF Alternates
    <3> QED BY <1>1, <3>4
  <2> QED BY <2>1, <2>2
<1> QED BY <1>5, <1>6

\* Closing a connection adds no return.
LEMMA ClosedAlternates ==
    ASSUME NEW q \in Seq(Handlers), NEW st, Alternates(q, st),
           NEW calls \in {<<>>, <<"closed">>, <<"disconnected", "closed">>}
    PROVE  /\ Alternates(q \o calls, "closed")
           /\ Owes(q \o calls, "closed") => Owes(q, st)
<1>1. Len(q) \in Nat /\ Len(calls) \in 0..2 /\ Len(q \o calls) = Len(q) + Len(calls)
  OBVIOUS
<1>2. \A i \in 1..Len(q) : (q \o calls)[i] = q[i]
  OBVIOUS
<1>3. \A i \in Len(q) + 1..Len(q) + Len(calls) : (q \o calls)[i] # "reconnected"
  BY <1>1
<1>4. ASSUME NEW i \in 2..Len(q \o calls), (q \o calls)[i] = "reconnected"
      PROVE  (q \o calls)[i - 1] = "disconnected"
  <2>1. i \in 2..Len(q)
    BY <1>1, <1>3, <1>4
  <2>2. q[i] = "reconnected" /\ (q \o calls)[i - 1] = q[i - 1]
    BY <1>1, <1>2, <1>4, <2>1
  <2> QED BY <2>1, <2>2 DEF Alternates
<1>5. Alternates(q \o calls, "closed")
  BY <1>4 DEF Alternates
<1>6. ASSUME Owes(q \o calls, "closed") PROVE Owes(q, st)
  <2>1. q \o calls # <<>> /\ (q \o calls)[1] = "reconnected"
    BY <1>6 DEF Owes
  <2>2. Len(q) > 0
    BY <1>1, <1>3, <2>1
  <2> QED BY <1>1, <1>2, <2>1, <2>2 DEF Owes
<1> QED BY <1>5, <1>6

\* A loss is not owed a return before it is counted.
LEMMA LostAlternates ==
    ASSUME NEW q \in Seq(Handlers), NEW st, Alternates(q, st)
    PROVE  /\ Alternates(Append(q, "disconnected"), "reconnecting")
           /\ Owes(Append(q, "disconnected"), "reconnecting") => Owes(q, st)
<1> DEFINE r == Append(q, "disconnected")
<1>1. /\ r # <<>> /\ Len(r) = Len(q) + 1 /\ r[Len(r)] = "disconnected" /\ Head(r) = r[1]
      /\ Len(q) \in Nat /\ \A i \in 1..Len(q) : r[i] = q[i]
  OBVIOUS
<1> HIDE DEF r
<1>2. Alternates(r, "reconnecting")
  BY <1>1 DEF Alternates
<1>3. Owes(r, "reconnecting") => Owes(q, st)
  <2>1. CASE q = <<>>
    BY <1>1, <2>1 DEF Owes
  <2>2. CASE q # <<>>
    <3>1. Head(r) = Head(q)
      BY <1>1, <2>2
    <3> QED BY <1>1, <2>2, <3>1 DEF Owes
  <2> QED BY <2>1, <2>2
<1> QED BY <1>2, <1>3 DEF r

\* A return follows the loss, counted or about to be.
LEMMA RestoredAlternates ==
    ASSUME NEW q \in Seq(Handlers), Alternates(q, "reconnecting")
    PROVE  /\ Alternates(Append(q, "reconnected"), "connected")
           /\ Owes(Append(q, "reconnected"), "connected") => Owes(q, "reconnecting")
<1> DEFINE r == Append(q, "reconnected")
<1>1. /\ r # <<>> /\ Len(r) = Len(q) + 1 /\ r[Len(r)] = "reconnected" /\ Head(r) = r[1]
      /\ Len(q) \in Nat /\ \A i \in 1..Len(q) : r[i] = q[i]
  <2>1. Len(q) \in Nat /\ Len(r) = Len(q) + 1 /\ \A i \in 1..Len(q) : r[i] = q[i]
    OBVIOUS
  <2>2. r[Len(q) + 1] = "reconnected" /\ r # <<>>
    <3>1. "reconnected" \in Handlers
      BY DEF Handlers
    <3> QED BY <3>1, AppendProperties
  <2> QED BY <2>1, <2>2
<1> HIDE DEF r
<1>2. Alternates(r, "connected")
  <2> SUFFICES ASSUME NEW i \in 2..Len(r), r[i] = "reconnected"
               PROVE  r[i - 1] = "disconnected"
    BY DEF Alternates
  <2>1. i - 1 \in 1..Len(q) /\ r[i - 1] = q[i - 1]
    BY <1>1
  <2>2. CASE i = Len(r)
    <3>1. q # <<>> /\ i - 1 = Len(q)
      BY <1>1, <2>1, <2>2
    <3> QED BY <2>1, <3>1 DEF Alternates
  <2>3. CASE i # Len(r)
    <3>1. i \in 2..Len(q) /\ q[i] = "reconnected"
      BY <1>1, <2>3
    <3> QED BY <2>1, <3>1 DEF Alternates
  <2> QED BY <2>2, <2>3
<1>3. Owes(r, "connected") => Owes(q, "reconnecting")
  <2>1. CASE q = <<>>
    BY <2>1 DEF Owes
  <2>2. CASE q # <<>>
    <3>1. Head(r) = Head(q)
      BY <1>1, <2>2
    <3> QED BY <1>1, <2>2, <3>1 DEF Owes
  <2> QED BY <2>1, <2>2
<1> QED BY <1>2, <1>3 DEF r

LEMMA OwedCounts ==
    ASSUME NEW S \in SUBSET Conns, NEW T \in SUBSET S
    PROVE  IsFiniteSet(S) /\ Cardinality(S) \in Nat /\ Cardinality(T) \in Nat
           /\ Cardinality(T) <= Cardinality(S)
<1>1. IsFiniteSet(Conns)
  BY FS_Interval, BoundsAssumption DEF Conns
<1>2. IsFiniteSet(S) /\ IsFiniteSet(T)
  BY <1>1, FS_Subset
<1> QED BY <1>2, FS_Subset, FS_CardinalityType

\* The counters stay in order when they are left alone and no return is newly owed.
LEMMA NothingNewOwed ==
    ASSUME TypeOK, CountsInOrder, UNCHANGED <<reconnectCount, disconnectCount>>,
           \A k \in Conns :
               /\ Alternates(queue'[k], status'[k])
               /\ Owes(queue'[k], status'[k]) => Owes(queue[k], status[k])
    PROVE  CountsInOrder'
<1>1. CallsAlternate'
  BY DEF CallsAlternate, Alternates
<1>2. Owed' \subseteq Owed /\ Owed \subseteq Conns
  <2>1. Owed' = { k \in Conns : Owes(queue'[k], status'[k]) }
    BY DEF Owed, Owes
  <2>2. Owed = { k \in Conns : Owes(queue[k], status[k]) }
    BY QueueByQueue
  <2> QED BY <2>1, <2>2
<1>3. Cardinality(Owed) \in Nat /\ Cardinality(Owed') \in Nat
      /\ Cardinality(Owed') <= Cardinality(Owed)
  BY <1>2, OwedCounts
<1> QED BY <1>1, <1>3 DEF CountsInOrder, TypeOK

\* Closing c.conn, for Close and for Connect.
LEMMA ClosingKeepsOrder ==
    ASSUME TypeOK, CallsAlternate, NEW qs \in ClosedQueues, NEW k \in Conns
    PROVE  /\ Alternates(qs[k], ClosedStatus[k])
           /\ Owes(qs[k], ClosedStatus[k]) => Owes(queue[k], status[k])
<1>1. Alternates(queue[k], status[k]) /\ queue[k] \in Seq(Handlers)
  BY QueueByQueue DEF TypeOK
<1>2. CASE conn \in Conns /\ k = conn
  <2>1. PICK calls \in OnClose(conn) : qs = [queue EXCEPT ![conn] = @ \o calls]
    BY <1>2 DEF ClosedQueues
  <2>2. ClosedStatus[k] = "closed" /\ qs[k] = queue[k] \o calls
    BY <1>2, <2>1 DEF ClosedStatus, TypeOK
  <2>3. calls \in {<<>>, <<"closed">>, <<"disconnected", "closed">>}
    BY <2>1 DEF OnClose
  <2> QED BY <1>1, <2>2, <2>3, ClosedAlternates
<1>3. CASE conn \in Conns /\ k # conn
  <2>1. PICK calls \in OnClose(conn) : qs = [queue EXCEPT ![conn] = @ \o calls]
    BY <1>3 DEF ClosedQueues
  <2>2. ClosedStatus[k] = status[k] /\ qs[k] = queue[k]
    BY <1>3, <2>1 DEF ClosedStatus, TypeOK
  <2> QED BY <1>1, <2>2
<1>4. CASE conn \notin Conns
  <2>1. ClosedStatus[k] = status[k] /\ qs[k] = queue[k]
    BY <1>4 DEF ClosedStatus, ClosedQueues
  <2> QED BY <1>1, <2>1
<1> QED BY <1>2, <1>3, <1>4

LEMMA CloseKeepsOrder == ASSUME TypeOK, CountsInOrder, Close PROVE CountsInOrder'
<1>1. /\ status' = ClosedStatus /\ queue' \in ClosedQueues
      /\ UNCHANGED <<reconnectCount, disconnectCount>>
  BY DEF Close
<1> QED BY <1>1, ClosingKeepsOrder, NothingNewOwed DEF CountsInOrder

\* The new connection has no calls to come.
LEMMA ConnectKeepsOrder == ASSUME ConnInv, CountsInOrder, Connect PROVE CountsInOrder'
<1>1. UNCHANGED <<reconnectCount, disconnectCount>>
  BY DEF Connect
<1>2. CASE UNCHANGED <<status, queue>>
  BY <1>1, <1>2, NothingNewOwed, QueueByQueue DEF CountsInOrder, ConnInv
<1>3. CASE status' = ClosedStatus /\ queue' \in ClosedQueues
  BY <1>1, <1>3, ClosingKeepsOrder, NothingNewOwed DEF CountsInOrder, ConnInv
<1>4. ASSUME queue' \in ClosedQueues, opened < MaxConns,
             NEW st \in {"connected", "initial"},
             status' = [ClosedStatus EXCEPT ![opened + 1] = st]
      PROVE  CountsInOrder'
  <2>1. /\ ClosedStatus \in [Conns -> Statuses]
        /\ \A k \in Conns : queue'[k] # <<>> => k <= opened
    BY <1>4, ClosingConn
  <2>2. queue'[opened + 1] = <<>> /\ opened + 1 \in Conns
    BY <1>4, <2>1, BoundsAssumption DEF ConnInv, TypeOK, Conns
  <2>3. ASSUME NEW k \in Conns
        PROVE  /\ Alternates(queue'[k], status'[k])
               /\ Owes(queue'[k], status'[k]) => Owes(queue[k], status[k])
    <3>1. CASE k = opened + 1
      <4>1. queue'[k] = <<>> /\ status'[k] = st
        BY <1>4, <2>1, <2>2, <3>1
      <4> QED BY <4>1 DEF Alternates, Owes
    <3>2. CASE k # opened + 1
      <4>1. status'[k] = ClosedStatus[k]
        BY <1>4, <2>1, <3>2
      <4> QED BY <1>4, <4>1, ClosingKeepsOrder DEF ConnInv, CountsInOrder
    <3> QED BY <3>1, <3>2
  <2> QED BY <1>1, <2>3, NothingNewOwed DEF ConnInv
<1> QED BY <1>2, <1>3, <1>4 DEF Connect

\* A counted loss is owed at most one return, a counted return is no longer owed.
LEMMA RunHandlerKeepsOrder ==
    ASSUME TypeOK, CountsInOrder, NEW k \in Conns, RunHandler(k)
    PROVE  CountsInOrder'
<1>1. queue[k] \in Seq(Handlers) /\ queue[k] # <<>> /\ Alternates(queue[k], status[k])
  BY QueueByQueue DEF RunHandler, TypeOK, CountsInOrder
<1>2. /\ queue'[k] = Tail(queue[k]) /\ status' = status
      /\ \A j \in Conns \ {k} : queue'[j] = queue[j]
  BY DEF RunHandler, TypeOK
<1>3. CallsAlternate'
  <2>1. \A j \in Conns : Alternates(queue'[j], status'[j])
    BY <1>1, <1>2, TailAlternates, QueueByQueue DEF CountsInOrder
  <2> QED BY <2>1 DEF CallsAlternate, Alternates
<1>4. Owed' = { j \in Conns : Owes(queue'[j], status'[j]) }
  BY DEF Owed, Owes
<1>5. k \in Owed' => Head(queue[k]) = "disconnected"
  BY <1>1, <1>2, <1>4, TailAlternates
<1>6. k \in Owed <=> Head(queue[k]) = "reconnected"
  BY <1>1, QueueByQueue DEF Owes
<1>7. Owed' \ {k} = Owed \ {k} /\ Owed \subseteq Conns /\ Owed' \subseteq Conns
  BY <1>2, <1>4, QueueByQueue
<1>8. /\ IsFiniteSet(Owed) /\ Cardinality(Owed) \in Nat
      /\ IsFiniteSet(Owed') /\ Cardinality(Owed') \in Nat
  BY <1>7, OwedCounts
<1>9. /\ Cardinality(Owed \ {k}) =
             IF k \in Owed THEN Cardinality(Owed) - 1 ELSE Cardinality(Owed)
      /\ Cardinality(Owed' \ {k}) =
             IF k \in Owed' THEN Cardinality(Owed') - 1 ELSE Cardinality(Owed')
  BY <1>8, FS_RemoveElement
<1>10. CASE Head(queue[k]) = "disconnected"
  <2>1. disconnectCount' = disconnectCount + 1 /\ reconnectCount' = reconnectCount
    BY <1>10 DEF RunHandler
  <2>2. Cardinality(Owed') <= Cardinality(Owed) + 1
    <3>1. Cardinality(Owed' \ {k}) = Cardinality(Owed)
      BY <1>6, <1>7, <1>9, <1>10
    <3>2. Cardinality(Owed') \in {Cardinality(Owed' \ {k}), Cardinality(Owed' \ {k}) + 1}
      BY <1>8, <1>9
    <3> QED BY <1>8, <3>1, <3>2
  <2> QED BY <1>3, <1>8, <2>1, <2>2 DEF CountsInOrder, TypeOK
<1>11. CASE Head(queue[k]) = "reconnected"
  <2>1. reconnectCount' = reconnectCount + 1 /\ disconnectCount' = disconnectCount
    BY <1>11 DEF RunHandler
  <2>2. Cardinality(Owed') = Cardinality(Owed) - 1
    BY <1>5, <1>6, <1>7, <1>8, <1>9, <1>11
  <2> QED BY <1>3, <1>8, <2>1, <2>2 DEF CountsInOrder, TypeOK
<1>12. CASE Head(queue[k]) = "closed"
  <2>1. UNCHANGED <<reconnectCount, disconnectCount>>
    BY <1>12 DEF RunHandler
  <2>2. Cardinality(Owed') = Cardinality(Owed)
    BY <1>5, <1>6, <1>7, <1>8, <1>9, <1>12
  <2> QED BY <1>3, <1>8, <2>1, <2>2 DEF CountsInOrder, TypeOK
<1> QED BY <1>10, <1>11, <1>12 DEF RunHandler

LEMMA NetworkKeepsOrder ==
    ASSUME TypeOK, CountsInOrder, NEW k \in Conns, ConnLost(k) \/ ConnRestored(k)
    PROVE  CountsInOrder'
<1>1. UNCHANGED <<reconnectCount, disconnectCount>>
  BY DEF ConnLost, ConnRestored, flags
<1>2. queue[k] \in Seq(Handlers) /\ \A j \in Conns : Alternates(queue[j], status[j])
  BY QueueByQueue DEF TypeOK, CountsInOrder
<1>3. \A j \in Conns \ {k} : queue'[j] = queue[j] /\ status'[j] = status[j]
  BY DEF ConnLost, ConnRestored, TypeOK
<1>4. /\ Alternates(queue'[k], status'[k])
      /\ Owes(queue'[k], status'[k]) => Owes(queue[k], status[k])
  <2>1. CASE ConnLost(k)
    <3>1. status'[k] = "reconnecting" /\ queue'[k] = Append(queue[k], "disconnected")
      BY <2>1 DEF ConnLost, TypeOK
    <3> QED BY <1>2, <3>1, LostAlternates
  <2>2. CASE ConnRestored(k) /\ status[k] = "reconnecting"
    <3>1. status'[k] = "connected" /\ queue'[k] = Append(queue[k], "reconnected")
      BY <2>2 DEF ConnRestored, TypeOK
    <3> QED BY <1>2, <2>2, <3>1, RestoredAlternates
  <2>3. CASE ConnRestored(k) /\ status[k] = "initial"
    <3>1. status'[k] = "connected" /\ queue'[k] = queue[k]
      BY <2>3 DEF ConnRestored, TypeOK
    <3> QED BY <1>2, <2>3, <3>1 DEF Alternates, Owes
  <2> QED BY <2>1, <2>2, <2>3 DEF ConnRestored
<1> QED BY <1>1, <1>2, <1>3, <1>4, NothingNewOwed

-----------------------------------------------------------------------------
(* The last of the calls to come, and what the flag is once they are made. *)

Fits(q, st) == q # <<>> => q[Len(q)] = LastCall(st)

LEMMA FitsByQueue == CallsFit <=> \A k \in Conns : Fits(queue[k], status[k])
BY DEF CallsFit, Fits

\* Closing c.conn, for Close and for Connect.
LEMMA ClosingFits ==
    ASSUME ConnInv, CallsFit, NEW qs \in ClosedQueues, NEW k \in Conns
    PROVE  Fits(qs[k], ClosedStatus[k])
<1>1. CASE conn \in Conns /\ k = conn
  <2>1. ClosedStatus[k] = "closed"
    BY <1>1 DEF ClosedStatus, ConnInv, TypeOK
  <2>2. CASE qs[conn] # <<>> /\ qs[conn][Len(qs[conn])] = "closed"
    BY <1>1, <2>1, <2>2 DEF Fits, LastCall
  <2>3. CASE qs[conn] = queue[conn] /\ ~Open(conn)
    <3>1. status[conn] = "none" => queue[conn] = <<>>
      BY <1>1 DEF ConnInv, ConnsInOrder
    <3>2. status[conn] \in {"none", "closed"}
      BY <1>1, <2>3 DEF ConnInv, TypeOK, Statuses, Open
    <3> QED BY <1>1, <2>1, <2>3, <3>1, <3>2 DEF CallsFit, Fits
  <2> QED BY <1>1, <2>2, <2>3, ClosingConn
<1>2. CASE ~(conn \in Conns /\ k = conn)
  <2>1. ClosedStatus[k] = status[k] /\ qs[k] = queue[k]
    <3>1. CASE conn \in Conns
      <4>1. PICK calls \in OnClose(conn) : qs = [queue EXCEPT ![conn] = @ \o calls]
        BY <3>1 DEF ClosedQueues
      <4> QED BY <1>2, <3>1, <4>1 DEF ClosedStatus, ConnInv, TypeOK
    <3>2. CASE conn \notin Conns
      BY <3>2 DEF ClosedStatus, ClosedQueues
    <3> QED BY <3>1, <3>2
  <2> QED BY <2>1 DEF CallsFit, Fits
<1> QED BY <1>1, <1>2

LEMMA CloseKeepsUpInv == ASSUME ConnInv, UpInv, Close PROVE UpInv'
<1>1. status' = ClosedStatus /\ queue' \in ClosedQueues /\ ~connected'
  BY DEF Close
<1>2. CallsFit'
  BY <1>1, ClosingFits DEF UpInv, CallsFit, Fits
<1>3. ClosedWhileClosing'
  BY <1>1, ClosingConn DEF ClosedWhileClosing, Open
<1> QED BY <1>1, <1>2, <1>3 DEF UpInv, UpIsTrue

\* The new connection is up or trying, and its queue is empty; a client with a bad
\* address never had the flag up.
LEMMA ConnectKeepsUpInv == ASSUME ConnInv, UpInv, Connect PROVE UpInv'
<1>1. ClosedWhileClosing'
  BY DEF Connect, ClosedWhileClosing
<1>2. CASE UNCHANGED <<conn, connected, status, queue>>
  BY <1>1, <1>2 DEF UpInv, CallsFit, UpIsTrue
<1>3. CASE ~urlOk /\ status' = ClosedStatus /\ queue' \in ClosedQueues
           /\ UNCHANGED connected
  <2>1. CallsFit'
    BY <1>3, ClosingFits DEF UpInv, CallsFit, Fits
  <2>2. ~connected
    BY <1>3, BoundsAssumption DEF ConnInv, ConnsInOrder, TypeOK
  <2> QED BY <1>1, <1>3, <2>1, <2>2 DEF UpInv, UpIsTrue
<1>4. ASSUME queue' \in ClosedQueues, opened < MaxConns, conn' = opened + 1,
             NEW st \in {"connected", "initial"},
             status' = [ClosedStatus EXCEPT ![opened + 1] = st]
      PROVE  UpInv'
  <2>1. /\ ClosedStatus \in [Conns -> Statuses]
        /\ \A k \in Conns : queue'[k] # <<>> => k <= opened
    BY <1>4, ClosingConn
  <2>2. queue'[opened + 1] = <<>> /\ opened + 1 \in Conns
    BY <1>4, <2>1, BoundsAssumption DEF ConnInv, TypeOK, Conns
  <2>3. status'[opened + 1] = st
    BY <1>4, <2>1, <2>2
  <2>4. ASSUME NEW k \in Conns PROVE Fits(queue'[k], status'[k])
    <3>1. CASE k = opened + 1
      BY <2>2, <3>1 DEF Fits
    <3>2. CASE k # opened + 1
      <4>1. status'[k] = ClosedStatus[k]
        BY <1>4, <2>1, <3>2
      <4> QED BY <1>4, <4>1, ClosingFits DEF UpInv
    <3> QED BY <3>1, <3>2
  <2>5. CallsFit'
    BY <2>4 DEF CallsFit, Fits
  <2> QED BY <1>1, <1>4, <2>2, <2>3, <2>5 DEF UpInv, UpIsTrue
<1> QED BY <1>2, <1>3, <1>4 DEF Connect

\* The end of a queue that is not over stays its end.
LEMMA TailKeepsLast ==
    ASSUME NEW q \in Seq(Handlers), q # <<>>
    PROVE  /\ Tail(q) = <<>> => Head(q) = q[Len(q)]
           /\ Tail(q) # <<>> => Tail(q)[Len(Tail(q))] = q[Len(q)]
<1>1. Len(q) \in Nat /\ Len(q) > 0 /\ Len(Tail(q)) = Len(q) - 1 /\ Head(q) = q[1]
  OBVIOUS
<1>2. \A i \in 1..Len(q) - 1 : Tail(q)[i] = q[i + 1]
  OBVIOUS
<1>3. Tail(q) = <<>> => Len(q) = 1
  <2>1. Tail(q) = <<>> => Len(Tail(q)) = 0
    BY EmptySeq
  <2> QED BY <1>1, <2>1
<1>4. Tail(q) # <<>> => Len(q) > 1
  BY <1>1
<1> QED BY <1>1, <1>2, <1>3, <1>4

\* The last call of a connection raises the flag only if the connection is up; and
\* then it is c.conn, because the replaced ones are closed.
LEMMA RunHandlerKeepsUpInv ==
    ASSUME ConnInv, UpInv, NEW k \in Conns, RunHandler(k)
    PROVE  UpInv'
<1>1. queue[k] \in Seq(Handlers) /\ queue[k] # <<>>
  BY DEF RunHandler, ConnInv, TypeOK
<1>2. /\ queue'[k] = Tail(queue[k]) /\ UNCHANGED <<status, conn, closing>>
      /\ \A j \in Conns \ {k} : queue'[j] = queue[j]
  BY DEF RunHandler, ConnInv, TypeOK
<1>3. CallsFit'
  <2> SUFFICES ASSUME NEW j \in Conns PROVE Fits(queue'[j], status[j])
    BY <1>2 DEF CallsFit, Fits
  <2>1. CASE j = k
    <3>1. queue[k][Len(queue[k])] = LastCall(status[k])
      BY <1>1 DEF UpInv, CallsFit
    <3> QED BY <1>1, <1>2, <2>1, <3>1, TailKeepsLast DEF Fits
  <2>2. CASE j # k
    BY <1>2, <2>2 DEF UpInv, CallsFit, Fits
  <2> QED BY <2>1, <2>2
<1>4. ClosedWhileClosing'
  BY <1>2 DEF UpInv, ClosedWhileClosing, Open
<1>5. UpIsTrue'
  <2> SUFFICES ASSUME connected', queue'[k] = <<>>
               PROVE  conn \in Conns /\ status[conn] \in {"initial", "connected"}
    BY <1>2 DEF UpIsTrue
  <2>1. Head(queue[k]) = "reconnected"
    BY DEF RunHandler
  <2>2. LastCall(status[k]) = "reconnected"
    BY <1>1, <1>2, <2>1, TailKeepsLast DEF UpInv, CallsFit
  <2>3. status[k] = "connected"
    BY <2>2 DEF LastCall
  <2> QED BY <2>3 DEF ConnInv, OneOpenConnection, Open
<1> QED BY <1>3, <1>4, <1>5 DEF UpInv

\* The network changes the status of an open connection, so c.conn, and adds the
\* call that fits; only the first success of a connection calls no handler.
LEMMA NetworkKeepsUpInv ==
    ASSUME ConnInv, UpInv, NEW k \in Conns, ConnLost(k) \/ ConnRestored(k)
    PROVE  UpInv'
<1>1. Open(k) /\ UNCHANGED <<closing, connected, conn>> /\ k = conn
  BY DEF ConnLost, ConnRestored, Open, flags, ConnInv, OneOpenConnection
<1>2. ~closing
  BY <1>1 DEF UpInv, ClosedWhileClosing
<1>3. \A j \in Conns \ {k} : queue'[j] = queue[j] /\ status'[j] = status[j]
  BY DEF ConnLost, ConnRestored, ConnInv, TypeOK
<1>4. queue[k] \in Seq(Handlers)
  BY DEF ConnInv, TypeOK
<1>5. ASSUME NEW st, NEW call \in Handlers, call = LastCall(st), status'[k] = st,
             queue'[k] = Append(queue[k], call)
      PROVE  UpInv'
  <2>1. queue'[k] # <<>> /\ queue'[k][Len(queue'[k])] = call
    <3>1. /\ Len(Append(queue[k], call)) = Len(queue[k]) + 1
          /\ Append(queue[k], call)[Len(queue[k]) + 1] = call
          /\ Append(queue[k], call) # <<>>
      BY <1>4, <1>5, AppendProperties
    <3> QED BY <1>5, <3>1
  <2> QED BY <1>1, <1>2, <1>3, <1>5, <2>1
          DEF UpInv, CallsFit, ClosedWhileClosing, UpIsTrue
<1>6. CASE ConnLost(k)
  <2>1. status'[k] = "reconnecting" /\ queue'[k] = Append(queue[k], "disconnected")
    BY <1>6 DEF ConnLost, ConnInv, TypeOK
  <2>2. "disconnected" \in Handlers /\ "disconnected" = LastCall("reconnecting")
    BY DEF Handlers, LastCall
  <2> QED BY <1>5, <2>1, <2>2
<1>7. CASE ConnRestored(k) /\ status[k] = "reconnecting"
  <2>1. status'[k] = "connected" /\ queue'[k] = Append(queue[k], "reconnected")
    BY <1>7 DEF ConnRestored, ConnInv, TypeOK
  <2>2. "reconnected" \in Handlers /\ "reconnected" = LastCall("connected")
    BY DEF Handlers, LastCall
  <2> QED BY <1>5, <2>1, <2>2
<1>8. CASE ConnRestored(k) /\ status[k] = "initial"
  <2>1. status'[k] = "connected" /\ queue' = queue
    BY <1>8 DEF ConnRestored, ConnInv, TypeOK
  <2>2. queue[k] = <<>>
    <3>1. LastCall("initial") \notin Handlers
      BY DEF LastCall, Handlers
    <3>2. queue[k] # <<>> => queue[k][Len(queue[k])] \in Handlers
      BY <1>4
    <3> QED BY <1>8, <3>1, <3>2 DEF UpInv, CallsFit
  <2> QED BY <1>1, <1>2, <1>3, <2>1, <2>2
          DEF UpInv, CallsFit, ClosedWhileClosing, UpIsTrue
<1> QED BY <1>6, <1>7, <1>8 DEF ConnRestored

LEMMA NextKeepsUpInv == ASSUME ConnInv, UpInv, [Next]_vars PROVE UpInv'
<1>1. CASE Connect
  BY <1>1, ConnectKeepsUpInv
<1>2. CASE Close
  BY <1>2, CloseKeepsUpInv
<1>3. ASSUME NEW k \in Conns, RunHandler(k) PROVE UpInv'
  BY <1>3, RunHandlerKeepsUpInv
<1>4. CASE Network
  BY <1>4, NetworkKeepsUpInv DEF Network
<1>5. CASE UNCHANGED <<status, queue, conn, connected, closing>>
  BY <1>5 DEF UpInv, CallsFit, ClosedWhileClosing, UpIsTrue, Open
<1>6. ASSUME NEW p \in Publishers, Publish(p)
      PROVE  UNCHANGED <<status, queue, conn, connected, closing>>
  BY <1>6 DEF Publish, PublishCheck, PublishPrepare, PublishLock, PublishOne, PublishDone,
              elsewhere, flags, network
<1>7. ASSUME NEW w \in Watchers, StatusAsk(w) \/ StatusReturn(w)
      PROVE  UNCHANGED <<status, queue, conn, connected, closing>>
  BY <1>7 DEF StatusAsk, StatusReturn, watching, elsewhere, flags, network
<1>8. CASE UNCHANGED vars
  BY <1>5, <1>8 DEF vars, flags, network
<1> QED BY <1>1, <1>2, <1>3, <1>4, <1>5, <1>6, <1>7, <1>8 DEF Next

-----------------------------------------------------------------------------
LEMMA InitEstablishesIInv == Init => IInv
<1> SUFFICES ASSUME Init PROVE IInv
  OBVIOUS
<1>1. CallsAlternate /\ Owed = {}
  BY DEF Init, CallsAlternate, Owed
<1>2. CountsInOrder
  BY <1>1, FS_EmptySet DEF Init, CountsInOrder
<1>3. UpInv
  BY DEF Init, UpInv, CallsFit, ClosedWhileClosing, UpIsTrue
<1> QED BY <1>2, <1>3, InitEstablishesConnInv DEF IInv

LEMMA NextKeepsIInv == IInv /\ [Next]_vars => IInv'
<1> SUFFICES ASSUME IInv, [Next]_vars PROVE CountsInOrder'
  BY NextKeepsConnInv, NextKeepsUpInv DEF IInv
<1>1. ConnInv /\ TypeOK /\ CountsInOrder
  BY DEF IInv, ConnInv
<1>2. CASE Connect
  BY <1>1, <1>2, ConnectKeepsOrder
<1>3. CASE Close
  BY <1>1, <1>3, CloseKeepsOrder
<1>4. ASSUME NEW k \in Conns, RunHandler(k) PROVE CountsInOrder'
  BY <1>1, <1>4, RunHandlerKeepsOrder
<1>5. CASE Network
  BY <1>1, <1>5, NetworkKeepsOrder DEF Network
<1>6. CASE UNCHANGED <<status, queue, reconnectCount, disconnectCount>>
  BY <1>1, <1>6, NothingNewOwed, QueueByQueue DEF CountsInOrder
<1>7. ASSUME NEW p \in Publishers, Publish(p)
      PROVE  UNCHANGED <<status, queue, reconnectCount, disconnectCount>>
  BY <1>7 DEF Publish, PublishCheck, PublishPrepare, PublishLock, PublishOne, PublishDone,
              elsewhere, flags, network
<1>8. ASSUME NEW w \in Watchers, StatusAsk(w) \/ StatusReturn(w)
      PROVE  UNCHANGED <<status, queue, reconnectCount, disconnectCount>>
  BY <1>8 DEF StatusAsk, StatusReturn, watching, elsewhere, flags, network
<1>9. CASE UNCHANGED vars
  BY <1>6, <1>9 DEF vars, flags, network
<1> QED BY <1>2, <1>3, <1>4, <1>5, <1>6, <1>7, <1>8, <1>9 DEF Next

\* The invariant holds in every reachable state.
THEOREM InductiveInvariant == SafeSpec => []IInv
<1> QED BY InitEstablishesIInv, NextKeepsIInv, PTL DEF SafeSpec

\* The flag is never up over a missing or nil connection, whichever handlers
\* of whichever connection run, so no method of a nil *nats.Conn is called.
THEOREM NilSafeHolds == SafeSpec => []NilSafe
<1>1. IInv => NilSafe
  BY BoundsAssumption DEF IInv, ConnInv, NilSafe, ConnsInOrder, TypeOK, Conns
<1> QED BY <1>1, InductiveInvariant, PTL

\* Connect never leaks a connection, and Close leaves none open.
THEOREM OneOpenConnectionHolds == SafeSpec => []OneOpenConnection
<1>1. IInv => OneOpenConnection
  BY DEF IInv, ConnInv
<1> QED BY <1>1, InductiveInvariant, PTL

\* One publication never spreads over two connections.
THEOREM SameConnectionHolds == SafeSpec => []SameConnection
<1>1. IInv => SameConnection
  BY DEF IInv, ConnInv
<1> QED BY <1>1, InductiveInvariant, PTL

\* Until a handler of a replaced connection runs, the flag catches up with the
\* connection: the order in which nats.go makes the calls is enough.
THEOREM FlagRightHolds == SafeSpec => []FlagRight
<1>1. IInv => FlagRight
  BY DEF IInv, ConnInv, FlagRight, FlagSettles, Settled
<1> QED BY <1>1, InductiveInvariant, PTL

\* However many connections take part and however late their handlers run, no
\* return is counted before the loss it repairs.
THEOREM ReconnectsFollowDisconnectsHolds == SafeSpec => []ReconnectsFollowDisconnects
<1>1. IInv => ReconnectsFollowDisconnects
  <2> SUFFICES ASSUME IInv PROVE reconnectCount <= disconnectCount
    BY DEF ReconnectsFollowDisconnects
  <2>1. Cardinality(Owed) \in Nat
    BY OwedCounts DEF Owed
  <2> QED BY <2>1 DEF IInv, ConnInv, TypeOK, CountsInOrder
<1> QED BY <1>1, InductiveInvariant, PTL

\* The flag errs on one side only: whichever handlers of whichever connections ran,
\* and in whatever order, a settled flag that is up is up over a live connection.
THEOREM UpIsTrueHolds == SafeSpec => []UpIsTrue
<1>1. IInv => UpIsTrue
  BY DEF IInv, UpInv
<1> QED BY <1>1, InductiveInvariant, PTL

\* Once no connection has calls to come, a closed client says it is not connected:
\* neither a late reconnect handler nor one of a replaced connection outlasts Close.
THEOREM CloseSettlesHolds == SafeSpec => []CloseSettles
<1>1. IInv => CloseSettles
  BY DEF IInv, UpInv, UpIsTrue, ClosedWhileClosing, Open, CloseSettles
<1> QED BY <1>1, InductiveInvariant, PTL

\* No message is handed to a connection between Close and the next Connect.
THEOREM NothingSentAfterCloseHolds == SafeSpec => NothingSentAfterClose
<1> DEFINE Kept == closing /\ closing' => \A p \in Publishers : via'[p] \subseteq via[p]
<1>1. IInv /\ [Next]_vars => [Kept]_vars
  <2> SUFFICES ASSUME IInv, Next, closing, NEW q \in Publishers
               PROVE  via'[q] \subseteq via[q]
    OBVIOUS
  <2>1. CASE UNCHANGED via
    BY <2>1
  <2>2. ASSUME NEW p \in Publishers, PublishLock(p) PROVE via'[q] \subseteq via[q]
    BY <2>2 DEF PublishLock, IInv, ConnInv, TypeOK
  <2>3. ASSUME NEW p \in Publishers, PublishOne(p) PROVE UNCHANGED via
    <3>1. conn \in Conns
      BY <2>3 DEF PublishOne, IInv, ConnInv, SentVia
    <3>2. ~Open(conn)
      BY <3>1 DEF IInv, UpInv, ClosedWhileClosing
    <3> QED BY <2>3, <3>2 DEF PublishOne
  <2>4. ASSUME NEW p \in Publishers, PublishCheck(p) \/ PublishPrepare(p) \/ PublishDone(p)
        PROVE  UNCHANGED via
    BY <2>4 DEF PublishCheck, PublishPrepare, PublishDone
  <2>5. ASSUME Connect \/ Close \/ Network \/ (\E k \in Conns : RunHandler(k))
        PROVE  UNCHANGED via
    BY <2>5 DEF Connect, Close, Network, ConnLost, ConnRestored, RunHandler, publishing
  <2>6. ASSUME NEW w \in Watchers, StatusAsk(w) \/ StatusReturn(w) PROVE UNCHANGED via
    BY <2>6 DEF StatusAsk, StatusReturn, watching
  <2> QED BY <2>1, <2>2, <2>3, <2>4, <2>5, <2>6 DEF Next, Publish
<1> QED BY <1>1, InductiveInvariant, PTL DEF SafeSpec, NothingSentAfterClose
=============================================================================

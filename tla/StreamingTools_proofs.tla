------------------------ MODULE StreamingTools_proofs ------------------------
(***************************************************************************)
(* Proofs about the streaming tools, for any number of concurrent callers, *)
(* any requests and any addresses.                                         *)
(***************************************************************************)
EXTENDS StreamingTools, TLAPS

LEMMA AddressTyped == InitialAddress \in Address
BY InitialAssumption DEF InitialAddress, Address

LEMMA InitEstablishesIInv == Init => IInv
<1> SUFFICES ASSUME Init PROVE IInv
  OBVIOUS
<1>1. config \in Config
  BY AddressTyped, InitialAssumption DEF Init, Config
<1>2. natsClient \in Clients /\ updates \in 0..MaxUpdates
  BY UpdatesAssumption DEF Init, Clients
<1>3. url \in [Clients -> Address] /\ streamID \in [Clients -> StreamIDs]
  BY AddressTyped, InitialAssumption DEF Init
<1>4. /\ pc \in [Callers -> PCs] /\ was \in [Callers -> BOOLEAN]
      /\ call \in [Callers -> Calls \cup {None}]
  BY DEF Init, PCs, UpdatePCs
<1>5. req \in [Callers -> Request]
  <2>1. NoRequest \in Request
    BY DEF NoRequest, Request
  <2> QED BY <2>1 DEF Init
<1>6. mine \in [Callers -> Clients] /\ target \in [Callers -> Clients]
  BY UpdatesAssumption DEF Init, Clients
<1>7. ToolsTypeOK
  BY <1>1, <1>2, <1>3, <1>4, <1>5, <1>6 DEF Init, ToolsTypeOK
<1>8. NoReport \in Report
  BY AddressTyped DEF NoReport, Report
<1>9. StatusTypeOK
  BY <1>8 DEF Init, StatusTypeOK
<1>10. \A c \in Callers : pc[c] = "idle"
  BY DEF Init
<1>11. Undisturbed
  <2>1. AsConfigured
    BY <1>2 DEF Init, AsConfigured
  <2>2. Alone /\ ConnectionsSoFar /\ SwitchSoFar
    BY <1>10 DEF Init, Alone, ConnectionsSoFar, SwitchSoFar, Updating, UpdatePCs, ServicePCs
  <2>3. ConfigSoFar
    BY <1>10, <2>1 DEF ConfigSoFar
  <2>4. ReportSoFar
    BY <1>10 DEF ReportSoFar, StatusPCs
  <2> QED BY <2>2, <2>3, <2>4 DEF Undisturbed
<1>12. CallsNamed /\ ConnectionComes
  BY <1>10 DEF Init, CallsNamed, ConnectionComes, NoneProceeds, ServicePCs
<1> QED BY <1>7, <1>9, <1>11, <1>12 DEF Init, IInv, TypeOK

\* Connecting a client keeps the set of open clients typed.
LEMMA ConnectTyped ==
    ASSUME ToolsTypeOK, NEW k \in Clients, Connects(k) \/ ConnectFails(k)
    PROVE  open' \subseteq Clients
BY DEF ToolsTypeOK, Connects, ConnectFails

-----------------------------------------------------------------------------
(* Types. *)

LEMMA GotoTyped ==
    ASSUME ToolsTypeOK, NEW c \in Callers, NEW where \in PCs, Goto(c, where)
    PROVE  pc' \in [Callers -> PCs]
BY DEF ToolsTypeOK, Goto

LEMMA EnterTyped ==
    ASSUME ToolsTypeOK, NEW c \in Callers, NEW method \in Calls,
           Enter(c, method) \/ Leave(c)
    PROVE  pc' \in [Callers -> PCs] /\ call' \in [Callers -> Calls \cup {None}]
<1>1. PICK where \in PCs : Goto(c, where)
  BY DEF Enter, Leave, PCs, ServicePCs
<1>2. call' \in [Callers -> Calls \cup {None}]
  BY DEF Enter, Leave, ToolsTypeOK
<1> QED BY <1>1, <1>2, GotoTyped

LEMMA ReadTyped ==
    ASSUME ToolsTypeOK, NEW c \in Callers, NEW here, NEW next \in PCs,
           ReadClient(c, here, next)
    PROVE  ToolsTypeOK'
<1>1. pc' \in [Callers -> PCs]
  BY GotoTyped DEF ReadClient
<1>2. target' \in [Callers -> Clients]
  BY DEF ReadClient, ToolsTypeOK
<1>3. UNCHANGED <<active, config, natsClient, url, streamID, open, updates, req, was, mine,
                  call, wanted, stopped>>
  BY DEF ReadClient, clients, request, history
<1> QED BY <1>1, <1>2, <1>3 DEF ToolsTypeOK

LEMMA ServiceToolsTyped ==
    ASSUME ToolsTypeOK, NEW c \in Callers, ServiceTools(c)
    PROVE  ToolsTypeOK'
<1>1. CASE ReadClient(c, "ask", "asking") \/ ReadClient(c, "dial", "dialling")
  BY <1>1, ReadTyped DEF PCs, ServicePCs
<1>2. CASE \/ StartStreaming(c) \/ StopStreaming(c) \/ StreamWorld(c)
           \/ ServiceAsk(c) \/ ServiceConnect(c) \/ ServiceProceed(c)
  <2>1. UNCHANGED <<config, natsClient, url, streamID, updates, req, was, mine, target>>
    BY <1>2 DEF StartStreaming, StopStreaming, StreamWorld, ServiceAsk, ServiceConnect,
                ServiceProceed, otherClients, clients, locals, request
  <2>2. open' \subseteq Clients
    <3>1. CASE ServiceConnect(c)
      BY <3>1, ConnectTyped DEF ServiceConnect, ToolsTypeOK
    <3>2. CASE ~ServiceConnect(c)
      BY <1>2, <3>2 DEF StartStreaming, StopStreaming, StreamWorld, ServiceAsk,
                        ServiceProceed, clients, ToolsTypeOK
    <3> QED BY <3>1, <3>2
  <2>3. active' \in BOOLEAN /\ wanted' \in BOOLEAN /\ stopped' \in BOOLEAN
    BY <1>2 DEF StartStreaming, StopStreaming, StreamWorld, ServiceAsk, ServiceConnect,
                ServiceProceed, history, ToolsTypeOK
  <2>4. pc' \in [Callers -> PCs] /\ call' \in [Callers -> Calls \cup {None}]
    <3>1. CASE \E method \in Calls : Enter(c, method) \/ Leave(c)
      BY <3>1, EnterTyped
    <3>2. CASE UNCHANGED call /\ \E where \in PCs : Goto(c, where)
      BY <3>2, GotoTyped DEF ToolsTypeOK
    <3>3. CASE UNCHANGED <<pc, call>>
      BY <3>3 DEF ToolsTypeOK
    <3> QED BY <1>2, <3>1, <3>2, <3>3
         DEF StartStreaming, StopStreaming, StreamWorld, ServiceAsk, ServiceConnect,
             ServiceProceed, locals, PCs, ServicePCs, Calls
  <2> QED BY <2>1, <2>2, <2>3, <2>4 DEF ToolsTypeOK
<1> QED BY <1>1, <1>2 DEF ServiceTools

LEMMA BeginTyped == ASSUME ToolsTypeOK, NEW c \in Callers, UpdateBegin(c) PROVE ToolsTypeOK'
<1>1. PICK r \in Requests : req' = [req EXCEPT ![c] = r]
  BY DEF UpdateBegin
<1>2. req' \in [Callers -> Request]
  BY <1>1, RequestsAssumption DEF ToolsTypeOK
<1>3. updates' = updates + 1 /\ updates < MaxUpdates /\ updates \in 0..MaxUpdates
  BY DEF UpdateBegin, ToolsTypeOK
<1>4. updates' \in 0..MaxUpdates /\ updates + 1 \in Clients
  BY <1>3, UpdatesAssumption DEF Clients
<1>5. mine' \in [Callers -> Clients] /\ was' \in [Callers -> BOOLEAN]
  BY <1>4 DEF UpdateBegin, ToolsTypeOK
<1>6. pc' \in [Callers -> PCs]
  BY GotoTyped DEF UpdateBegin, PCs, UpdatePCs
<1>7. UNCHANGED <<active, config, natsClient, url, streamID, open, call, target, wanted,
                  stopped>>
  BY DEF UpdateBegin, clients, history
<1> QED BY <1>2, <1>4, <1>5, <1>6, <1>7 DEF ToolsTypeOK

LEMMA ConfigTyped ==
    ASSUME ToolsTypeOK, NEW c \in Callers,
           UpdateAddress(c) \/ UpdateUrl(c) \/ UpdateStreamID(c)
    PROVE  ToolsTypeOK'
<1>1. req[c] \in Request /\ config \in Config
  BY DEF ToolsTypeOK
<1>2. config' \in Config
  <2>1. CASE UpdateAddress(c) /\ req[c].url # None
    <3>1. req[c].url \in Address
      BY <1>1, <2>1 DEF Request
    <3>2. config' = [config EXCEPT !.url = req[c].url]
      BY <2>1 DEF UpdateAddress
    <3> QED BY <1>1, <3>1, <3>2 DEF Config
  <2>2. CASE UpdateAddress(c) /\ req[c].url = None
    <3>1. config' = [config EXCEPT !.host = Given(req[c].host, @),
                                   !.port = Given(req[c].port, @)]
      BY <2>2 DEF UpdateAddress
    <3>2. /\ Given(req[c].host, config.host) \in Hosts
          /\ Given(req[c].port, config.port) \in Ports
      BY <1>1 DEF Given, Request, Config
    <3> QED BY <1>1, <3>1, <3>2 DEF Config
  <2>3. CASE UpdateUrl(c)
    BY <1>1, <2>3 DEF UpdateUrl, Config, Address
  <2>4. CASE UpdateStreamID(c)
    <3>1. config' = [config EXCEPT !.streamID = Given(req[c].streamID, @)]
      BY <2>4 DEF UpdateStreamID
    <3>2. Given(req[c].streamID, config.streamID) \in StreamIDs
      BY <1>1 DEF Given, Request, Config
    <3> QED BY <1>1, <3>1, <3>2 DEF Config
  <2> QED BY <2>1, <2>2, <2>3, <2>4
<1>3. pc' \in [Callers -> PCs]
  <2>1. PICK where \in PCs : Goto(c, where)
    BY DEF UpdateAddress, UpdateUrl, UpdateStreamID, PCs, UpdatePCs
  <2> QED BY <2>1, GotoTyped
<1>4. UNCHANGED <<active, natsClient, url, streamID, open, updates, req, was, mine,
                  call, target, wanted, stopped>>
  BY DEF UpdateAddress, UpdateUrl, UpdateStreamID, clients, request, history
<1> QED BY <1>2, <1>3, <1>4 DEF ToolsTypeOK

LEMMA ReplaceTyped ==
    ASSUME ToolsTypeOK, NEW c \in Callers,
           UpdateStop(c) \/ UpdateClose(c) \/ UpdateMake(c) \/ UpdateInstall(c)
    PROVE  ToolsTypeOK'
<1>1. pc' \in [Callers -> PCs]
  <2>1. PICK where \in PCs : Goto(c, where)
    BY DEF UpdateStop, UpdateClose, UpdateMake, UpdateInstall, PCs, UpdatePCs
  <2> QED BY <2>1, GotoTyped
<1>2. mine[c] \in Clients /\ config.url \in Address /\ config.streamID \in StreamIDs
  BY DEF ToolsTypeOK, Config
<1>3. active' \in BOOLEAN /\ natsClient' \in Clients /\ open' \subseteq Clients
  BY <1>2 DEF UpdateStop, UpdateClose, UpdateMake, UpdateInstall, ToolsTypeOK,
              clients, otherClients
<1>4. url' \in [Clients -> Address] /\ streamID' \in [Clients -> StreamIDs]
  BY <1>2 DEF UpdateStop, UpdateClose, UpdateMake, UpdateInstall, ToolsTypeOK,
              clients, otherClients
<1>5. UNCHANGED <<config, updates, req, was, mine, call, target, wanted, stopped>>
  BY DEF UpdateStop, UpdateClose, UpdateMake, UpdateInstall, request, history
<1> QED BY <1>1, <1>3, <1>4, <1>5 DEF ToolsTypeOK

LEMMA ResumeTyped ==
    ASSUME ToolsTypeOK, NEW c \in Callers, UpdateConnect(c) \/ UpdateStart(c)
    PROVE  ToolsTypeOK'
<1>1. pc' \in [Callers -> PCs] /\ call' \in [Callers -> Calls \cup {None}]
  <2>1. CASE UpdateConnect(c)
    <3>1. PICK where \in PCs : Goto(c, where)
      BY <2>1 DEF UpdateConnect, PCs, UpdatePCs
    <3> QED BY <2>1, <3>1, GotoTyped DEF UpdateConnect, ToolsTypeOK
  <2>2. CASE UpdateStart(c)
    BY <2>2, EnterTyped DEF UpdateStart, Calls
  <2> QED BY <2>1, <2>2
<1>2. open' \subseteq Clients
  BY ConnectTyped DEF UpdateConnect, UpdateStart, clients, ToolsTypeOK
<1>3. active' \in BOOLEAN /\ wanted' \in BOOLEAN
  BY DEF UpdateConnect, UpdateStart, history, ToolsTypeOK
<1>4. UNCHANGED <<config, natsClient, url, streamID, updates, req, was, mine, target,
                  stopped>>
  BY DEF UpdateConnect, UpdateStart, otherClients, clients, request, history
<1> QED BY <1>1, <1>2, <1>3, <1>4 DEF ToolsTypeOK

LEMMA UpdateTyped ==
    ASSUME ToolsTypeOK, NEW c \in Callers, UpdateConfig(c)
    PROVE  ToolsTypeOK'
<1>1. CASE ReadClient(c, "close", "closing") \/ ReadClient(c, "connect", "connecting")
  BY <1>1, ReadTyped DEF PCs, UpdatePCs
<1> QED BY <1>1, BeginTyped, ConfigTyped, ReplaceTyped, ResumeTyped DEF UpdateConfig

\* A step of Status leaves all alone but the place of its caller, its report, and
\* the client it has read.
LEMMA StatusTyped ==
    ASSUME ToolsTypeOK, NEW c \in Callers, Status(c)
    PROVE  ToolsTypeOK'
<1>1. CASE StatusReads(c)
  BY <1>1, ReadTyped DEF StatusReads, PCs, StatusPCs
<1>2. CASE \/ StatusBegin(c) \/ StatusConfig(c) \/ StatusConnected(c)
           \/ StatusDetail(c) \/ StatusReturn(c)
  <2>1. PICK where \in PCs : Goto(c, where)
    BY <1>2 DEF StatusBegin, StatusConfig, StatusConnected, StatusDetail, StatusReturn,
                PCs, StatusPCs
  <2>2. pc' \in [Callers -> PCs]
    BY <2>1, GotoTyped
  <2>3. UNCHANGED untouched
    BY <1>2, Zenon DEF StatusBegin, StatusConfig, StatusConnected, StatusDetail, StatusReturn
  <2>4. UNCHANGED <<active, config, natsClient, url, streamID, open, updates, req, was,
                    mine, call, target, wanted, stopped>>
    BY <2>3 DEF untouched, clients, request, history
  <2> QED BY <2>2, <2>4 DEF ToolsTypeOK
<1> QED BY <1>1, <1>2 DEF Status

LEMMA SeenTyped ==
    ASSUME ToolsTypeOK, StatusTypeOK, NEW c \in Callers, Status(c)
    PROVE  seen' \in [Callers -> Report]
<1>1. seen[c] \in Report /\ active \in BOOLEAN /\ config.url \in Address
          /\ url[target[c]] \in Address
  BY DEF ToolsTypeOK, StatusTypeOK, Config
<1>2. CASE StatusReads(c)
  BY <1>2 DEF StatusReads, StatusTypeOK
<1>3. CASE ~StatusReads(c)
  <2> SUFFICES \E r \in Report : seen' = [seen EXCEPT ![c] = r]
    BY DEF StatusTypeOK
  <2>1. CASE StatusBegin(c)
    BY <1>1, <2>1 DEF StatusBegin, Report, StatusTypeOK
  <2>2. CASE StatusConfig(c)
    BY <1>1, <2>2 DEF StatusConfig, Report, StatusTypeOK
  <2>3. CASE StatusConnected(c)
    BY <1>1, <2>3 DEF StatusConnected, Report, StatusTypeOK
  <2>4. CASE StatusDetail(c)
    BY <1>1, <2>4 DEF StatusDetail, Report, StatusTypeOK
  <2>5. CASE StatusReturn(c)
    <3>1. NoReport \in Report
      BY AddressTyped DEF NoReport, Report
    <3> QED BY <2>5, <3>1 DEF StatusReturn
  <2> QED BY <1>3, <2>1, <2>2, <2>3, <2>4, <2>5 DEF Status
<1> QED BY <1>2, <1>3

-----------------------------------------------------------------------------
(* A step moves one caller. *)

OthersStay(c) ==
    \A d \in Callers \ {c} : pc'[d] = pc[d] /\ call'[d] = call[d] /\ target'[d] = target[d]

LEMMA GotoMovesOne ==
    ASSUME ToolsTypeOK, NEW c \in Callers,
           \/ UNCHANGED <<pc, call>>
           \/ \E where \in PCs : Goto(c, where) /\ UNCHANGED call
           \/ \E method \in Calls : Enter(c, method)
           \/ Leave(c)
    PROVE  \A d \in Callers \ {c} : pc'[d] = pc[d] /\ call'[d] = call[d]
BY DEF ToolsTypeOK, Goto, Enter, Leave

LEMMA ReadMovesOne ==
    ASSUME ToolsTypeOK, NEW c \in Callers, NEW here, NEW next, ReadClient(c, here, next)
    PROVE  OthersStay(c) /\ pc'[c] = next /\ target'[c] = natsClient
BY DEF ToolsTypeOK, ReadClient, Goto, OthersStay

LEMMA ServiceMovesOne ==
    ASSUME ToolsTypeOK, NEW c \in Callers, ServiceTools(c)
    PROVE  OthersStay(c)
<1>1. CASE ReadClient(c, "ask", "asking") \/ ReadClient(c, "dial", "dialling")
  BY <1>1, ReadMovesOne
<1>2. CASE \/ StartStreaming(c) \/ StopStreaming(c) \/ StreamWorld(c)
           \/ ServiceAsk(c) \/ ServiceConnect(c) \/ ServiceProceed(c)
  <2>1. UNCHANGED target
    BY <1>2 DEF StartStreaming, StopStreaming, StreamWorld, ServiceAsk, ServiceConnect,
                ServiceProceed, locals
  <2>2. \/ UNCHANGED <<pc, call>>
        \/ \E where \in PCs : Goto(c, where) /\ UNCHANGED call
        \/ \E method \in Calls : Enter(c, method)
        \/ Leave(c)
    BY <1>2 DEF StartStreaming, StopStreaming, StreamWorld, ServiceAsk, ServiceConnect,
                ServiceProceed, locals, PCs, ServicePCs, Calls
  <2> QED BY <2>1, <2>2, GotoMovesOne DEF OthersStay
<1> QED BY <1>1, <1>2 DEF ServiceTools

LEMMA UpdateMovesOne ==
    ASSUME ToolsTypeOK, NEW c \in Callers, UpdateConfig(c)
    PROVE  OthersStay(c)
<1>1. CASE ReadClient(c, "close", "closing") \/ ReadClient(c, "connect", "connecting")
  BY <1>1, ReadMovesOne
<1>2. CASE \/ UpdateBegin(c) \/ UpdateAddress(c) \/ UpdateUrl(c) \/ UpdateStreamID(c)
           \/ UpdateStop(c) \/ UpdateClose(c) \/ UpdateMake(c) \/ UpdateInstall(c)
           \/ UpdateConnect(c)
  <2>1. UNCHANGED <<call, target>>
    BY <1>2 DEF UpdateBegin, UpdateAddress, UpdateUrl, UpdateStreamID, UpdateStop,
                UpdateClose, UpdateMake, UpdateInstall, UpdateConnect
  <2>2. \E where \in PCs : Goto(c, where)
    BY <1>2 DEF UpdateBegin, UpdateAddress, UpdateUrl, UpdateStreamID, UpdateStop,
                UpdateClose, UpdateMake, UpdateInstall, UpdateConnect, PCs, UpdatePCs
  <2> QED BY <2>1, <2>2, GotoMovesOne DEF OthersStay
<1>3. CASE UpdateStart(c)
  <2>1. UNCHANGED target /\ (Enter(c, "resume") \/ Leave(c))
    BY <1>3 DEF UpdateStart
  <2> QED BY <2>1, GotoMovesOne DEF OthersStay, Calls
<1> QED BY <1>1, <1>2, <1>3 DEF UpdateConfig

\* A step of Status changes nothing that the others are about.
LEMMA StatusMoves ==
    ASSUME ToolsTypeOK, NEW c \in Callers, Status(c)
    PROVE  /\ UNCHANGED <<active, config, natsClient, url, streamID, open, req, was, mine,
                          call, wanted>>
           /\ OthersStay(c)
           /\ {pc[c], pc'[c]} \subseteq StatusPCs \cup {"idle"}
<1>1. CASE StatusReads(c)
  <2>1. UNCHANGED <<active, config, natsClient, url, streamID, open, req, was, mine, call,
                    wanted>>
    BY <1>1 DEF StatusReads, ReadClient, clients, request, history
  <2>2. {pc[c], pc'[c]} \subseteq StatusPCs
    BY <1>1, ReadMovesOne DEF StatusReads, ReadClient, StatusPCs
  <2>3. OthersStay(c)
    BY <1>1, ReadMovesOne DEF StatusReads
  <2> QED BY <2>1, <2>2, <2>3
<1>2. CASE \/ StatusBegin(c) \/ StatusConfig(c) \/ StatusConnected(c)
           \/ StatusDetail(c) \/ StatusReturn(c)
  <2>1. PICK where \in StatusPCs \cup {"idle"} : Goto(c, where)
    BY <1>2 DEF StatusBegin, StatusConfig, StatusConnected, StatusDetail, StatusReturn,
                StatusPCs
  <2>2. UNCHANGED untouched
    BY <1>2, Zenon DEF StatusBegin, StatusConfig, StatusConnected, StatusDetail, StatusReturn
  <2>3. pc[c] \in StatusPCs \cup {"idle"}
    BY <1>2 DEF StatusBegin, StatusConfig, StatusConnected, StatusDetail, StatusReturn,
                StatusPCs
  <2>4. UNCHANGED <<active, config, natsClient, url, streamID, open, req, was, mine, call,
                    target, wanted>>
    BY <2>2 DEF untouched, clients, request, history
  <2>5. pc'[c] = where /\ OthersStay(c)
    BY <2>1, <2>4 DEF Goto, ToolsTypeOK, OthersStay
  <2> QED BY <2>1, <2>3, <2>4, <2>5
<1> QED BY <1>1, <1>2 DEF Status

\* Who is in a method of the service got there by entering it.
LEMMA ServiceNamesCalls ==
    ASSUME ToolsTypeOK, CallsNamed, NEW c \in Callers, ServiceTools(c)
    PROVE  CallsNamed'
<1>1. OthersStay(c)
  BY ServiceMovesOne
<1>2. pc'[c] \in ServicePCs => call'[c] \in Calls
  <2>1. CASE StartStreaming(c) \/ StreamWorld(c)
    BY <2>1 DEF StartStreaming, StreamWorld, Enter, ToolsTypeOK, Calls, ServicePCs
  <2>2. CASE StopStreaming(c) \/ ServiceProceed(c)
    BY <2>2 DEF StopStreaming, ServiceProceed, Leave, Goto, ToolsTypeOK, ServicePCs, locals
  <2>3. CASE ReadClient(c, "ask", "asking") \/ ReadClient(c, "dial", "dialling")
    BY <2>3 DEF ReadClient, CallsNamed, ServicePCs
  <2>4. CASE ServiceAsk(c) \/ ServiceConnect(c)
    BY <2>4 DEF ServiceAsk, ServiceConnect, Leave, Goto, ToolsTypeOK, CallsNamed, ServicePCs
  <2> QED BY <2>1, <2>2, <2>3, <2>4 DEF ServiceTools
<1> QED BY <1>1, <1>2 DEF OthersStay, CallsNamed

LEMMA UpdateNamesCalls ==
    ASSUME ToolsTypeOK, CallsNamed, NEW c \in Callers, UpdateConfig(c)
    PROVE  CallsNamed'
<1>1. OthersStay(c)
  BY UpdateMovesOne
<1>2. pc'[c] \in ServicePCs => call'[c] \in Calls
  <2>1. CASE UpdateStart(c)
    BY <2>1 DEF UpdateStart, Enter, Leave, Goto, ToolsTypeOK, Calls, ServicePCs
  <2>2. CASE ReadClient(c, "close", "closing") \/ ReadClient(c, "connect", "connecting")
    BY <2>2, ReadMovesOne DEF ServicePCs
  <2>3. CASE ~UpdateStart(c)
    BY <2>2, <2>3 DEF UpdateConfig, UpdateBegin, UpdateAddress, UpdateUrl, UpdateStreamID,
       UpdateStop, UpdateClose, UpdateMake, UpdateInstall, UpdateConnect, Goto, ToolsTypeOK,
       ServicePCs
  <2> QED BY <2>1, <2>3
<1> QED BY <1>1, <1>2 DEF OthersStay, CallsNamed

LEMMA StatusNamesCalls ==
    ASSUME ToolsTypeOK, CallsNamed, NEW c \in Callers, Status(c)
    PROVE  CallsNamed'
BY StatusMoves DEF OthersStay, CallsNamed, ServicePCs, StatusPCs

-----------------------------------------------------------------------------
(* The connection comes. *)

\* A step of a caller that is not on its way to connect the installed client, and
\* does not close its connection.
LEMMA ComingStays ==
    ASSUME ConnectedOrComing, NEW c \in Callers, OthersStay(c), ~Comes(c),
           UNCHANGED <<natsClient, url>>,
           natsClient \in open => natsClient \in open' \/ url[natsClient] \in Unparsable
    PROVE  ConnectedOrComing'
BY DEF ConnectedOrComing, OthersStay, Comes

LEMMA NoneProceedsStays ==
    ASSUME NoneProceeds, NEW c \in Callers, OthersStay(c), UNCHANGED natsClient, ~active',
           pc'[c] # "proceed", pc'[c] \in {"asking", "dialling"} => target'[c] = natsClient
    PROVE  NoneProceeds'
BY DEF NoneProceeds, OthersStay

\* A start, a stop or a publication that has not yet got to its connection.
LEMMA ServiceBeginsConnection ==
    ASSUME ToolsTypeOK, ConnectionComes, NEW c \in Callers,
           \/ StartStreaming(c) \/ StopStreaming(c) \/ StreamWorld(c)
           \/ ReadClient(c, "ask", "asking") \/ ReadClient(c, "dial", "dialling")
    PROVE  ConnectionComes'
<1>1. OthersStay(c)
  BY ServiceMovesOne DEF ServiceTools
<1>2. UNCHANGED <<natsClient, url, open>> /\ (active' => active)
  BY DEF StartStreaming, StopStreaming, StreamWorld, ReadClient, clients
<1>3. ~Comes(c) /\ pc[c] # "proceed"
  BY DEF StartStreaming, StopStreaming, StreamWorld, ReadClient, Comes
<1>4. pc'[c] # "proceed" /\ (pc'[c] \in {"asking", "dialling"} => target'[c] = natsClient)
  <2>1. CASE ReadClient(c, "ask", "asking") \/ ReadClient(c, "dial", "dialling")
    BY <2>1, ReadMovesOne
  <2>2. CASE StartStreaming(c) \/ StopStreaming(c) \/ StreamWorld(c)
    BY <2>2 DEF StartStreaming, StopStreaming, StreamWorld, Enter, Goto, ToolsTypeOK, locals
  <2> QED BY <2>1, <2>2
<1>5. CASE ConnectedOrComing
  BY <1>1, <1>2, <1>3, <1>5, ComingStays DEF ConnectionComes
<1>6. CASE NoneProceeds
  <2>1. ~active'
    BY <1>2, <1>6 DEF NoneProceeds
  <2> QED BY <1>1, <1>2, <1>4, <1>6, <2>1, NoneProceedsStays DEF ConnectionComes
<1> QED BY <1>5, <1>6 DEF ConnectionComes

\* A call that goes on without connecting has found the installed client connected,
\* or one that was replaced since.
LEMMA AskKeepsConnection ==
    ASSUME ToolsTypeOK, ConnectionComes, NEW c \in Callers, ServiceAsk(c)
    PROVE  ConnectionComes'
<1>1. OthersStay(c)
  BY ServiceMovesOne DEF ServiceTools
<1>2. UNCHANGED <<active, natsClient, url, open, target>> /\ pc[c] = "asking"
  BY DEF ServiceAsk, clients
<1>3. (pc'[c] = "proceed" /\ target[c] \in open) \/ pc'[c] = "dial"
  BY DEF ServiceAsk, IsConnected, Goto, ToolsTypeOK
<1>4. CASE ConnectedOrComing
  BY <1>1, <1>2, <1>4, ComingStays DEF ConnectionComes, Comes
<1>5. CASE NoneProceeds /\ ~ConnectedOrComing
  <2>1. target[c] = natsClient /\ natsClient \notin open /\ ~active
    BY <1>2, <1>5 DEF NoneProceeds, ConnectedOrComing
  <2>2. pc'[c] = "dial"
    BY <1>3, <2>1
  <2> QED BY <1>1, <1>2, <1>5, <2>1, <2>2, NoneProceedsStays DEF ConnectionComes
<1> QED BY <1>4, <1>5 DEF ConnectionComes

\* The client that is connected is the installed one, or one that was replaced since.
LEMMA DialKeepsConnection ==
    ASSUME ToolsTypeOK, ConnectionComes, NEW c \in Callers, ServiceConnect(c)
    PROVE  ConnectionComes'
<1>1. OthersStay(c)
  BY ServiceMovesOne DEF ServiceTools
<1>2. UNCHANGED <<active, natsClient, url>> /\ pc[c] = "dialling"
  BY DEF ServiceConnect, otherClients
<1>3. Connects(target[c]) \/ ConnectFails(target[c])
  BY DEF ServiceConnect
<1>4. CASE ConnectedOrComing
  BY <1>1, <1>2, <1>3, <1>4, ComingStays DEF ConnectionComes, Comes, Connects, ConnectFails
<1>5. CASE NoneProceeds
  <2>1. target[c] = natsClient
    BY <1>2, <1>5 DEF NoneProceeds
  <2> QED BY <1>2, <1>3, <2>1
       DEF ConnectionComes, Connects, ConnectFails, ConnectedOrComing
<1> QED BY <1>4, <1>5 DEF ConnectionComes

LEMMA ProceedKeepsConnection ==
    ASSUME ToolsTypeOK, ConnectionComes, NEW c \in Callers, ServiceProceed(c)
    PROVE  ConnectionComes'
<1>1. OthersStay(c)
  BY ServiceMovesOne DEF ServiceTools
<1>2. UNCHANGED <<natsClient, url, open>> /\ pc[c] = "proceed"
  BY DEF ServiceProceed, clients
<1>3. ConnectedOrComing
  BY <1>2 DEF ConnectionComes, NoneProceeds
<1> QED BY <1>1, <1>2, <1>3, ComingStays DEF ConnectionComes, Comes

\* The steps of an update that touch no client and start nothing.
LEMMA ConfigKeepsConnection ==
    ASSUME ToolsTypeOK, ConnectionComes, NEW c \in Callers,
           UpdateBegin(c) \/ UpdateAddress(c) \/ UpdateUrl(c) \/ UpdateStreamID(c)
               \/ UpdateStop(c) \/ UpdateStart(c)
    PROVE  ConnectionComes'
<1>1. OthersStay(c)
  BY UpdateMovesOne DEF UpdateConfig
<1>2. UNCHANGED <<natsClient, url, open>>
  BY DEF UpdateBegin, UpdateAddress, UpdateUrl, UpdateStreamID, UpdateStop, UpdateStart,
         clients
<1>3. active' => active
  <2>1. CASE UpdateStop(c)
    BY <2>1, Zenon DEF UpdateStop
  <2>2. CASE ~UpdateStop(c)
    BY <2>2, Zenon DEF UpdateBegin, UpdateAddress, UpdateUrl, UpdateStreamID, UpdateStart
  <2> QED BY <2>1, <2>2
<1>4. ~Comes(c)
  BY DEF UpdateBegin, UpdateAddress, UpdateUrl, UpdateStreamID, UpdateStop, UpdateStart, Comes
<1>5. pc'[c] \notin {"asking", "dialling", "proceed"}
  <2>1. CASE UpdateStart(c)
    BY <2>1 DEF UpdateStart, Enter, Leave, Goto, ToolsTypeOK
  <2>2. CASE ~UpdateStart(c)
    BY <2>2 DEF UpdateBegin, UpdateAddress, UpdateUrl, UpdateStreamID, UpdateStop, Goto,
                ToolsTypeOK
  <2> QED BY <2>1, <2>2
<1>6. CASE ConnectedOrComing
  BY <1>1, <1>2, <1>4, <1>6, ComingStays DEF ConnectionComes
<1>7. CASE NoneProceeds
  <2>1. ~active'
    BY <1>3, <1>7 DEF NoneProceeds
  <2> QED BY <1>1, <1>2, <1>5, <1>7, <2>1, NoneProceedsStays DEF ConnectionComes
<1> QED BY <1>6, <1>7 DEF ConnectionComes

\* From the moment it is about to close a client, an update is on its way to connect
\* the one installed by then.
LEMMA ReplaceKeepsConnection ==
    ASSUME ToolsTypeOK, NEW c \in Callers,
           \/ ReadClient(c, "close", "closing") \/ UpdateClose(c) \/ UpdateMake(c)
           \/ UpdateInstall(c) \/ ReadClient(c, "connect", "connecting")
    PROVE  ConnectionComes'
<1>1. CASE UpdateClose(c) \/ UpdateMake(c) \/ UpdateInstall(c)
  <2>1. pc'[c] \in {"make", "install", "connect"}
    BY <1>1 DEF UpdateClose, UpdateMake, UpdateInstall, Goto, ToolsTypeOK
  <2> QED BY <2>1 DEF ConnectionComes, ConnectedOrComing, Comes
<1>2. CASE ReadClient(c, "close", "closing")
  BY <1>2, ReadMovesOne DEF ConnectionComes, ConnectedOrComing, Comes
<1>3. CASE ReadClient(c, "connect", "connecting")
  <2>1. pc'[c] = "connecting" /\ target'[c] = natsClient'
    BY <1>3, ReadMovesOne DEF ReadClient, clients
  <2> QED BY <2>1 DEF ConnectionComes, ConnectedOrComing, Comes
<1> QED BY <1>1, <1>2, <1>3

\* It connects that client, or one that another update has replaced, which is then on
\* its own way.
LEMMA ConnectKeepsConnection ==
    ASSUME ToolsTypeOK, ConnectionComes, NEW c \in Callers, UpdateConnect(c)
    PROVE  ConnectionComes'
<1>1. OthersStay(c)
  BY UpdateMovesOne DEF UpdateConfig
<1>2. UNCHANGED <<active, natsClient, url>> /\ pc[c] = "connecting"
  BY DEF UpdateConnect, otherClients
<1>3. Connects(target[c]) \/ ConnectFails(target[c])
  BY DEF UpdateConnect
<1>4. CASE target[c] = natsClient
  BY <1>2, <1>3, <1>4 DEF Connects, ConnectFails, ConnectionComes, ConnectedOrComing
<1>5. CASE target[c] # natsClient /\ ConnectedOrComing
  BY <1>1, <1>2, <1>3, <1>5, ComingStays DEF ConnectionComes, Comes, Connects, ConnectFails
<1>6. CASE NoneProceeds
  <2>1. pc'[c] \in {"start", "idle"}
    BY DEF UpdateConnect, Goto, ToolsTypeOK
  <2>2. ~active'
    BY <1>2, <1>6 DEF NoneProceeds
  <2> QED BY <1>1, <1>2, <1>6, <2>1, <2>2, NoneProceedsStays DEF ConnectionComes
<1> QED BY <1>4, <1>5, <1>6 DEF ConnectionComes

LEMMA StatusKeepsConnection ==
    ASSUME ToolsTypeOK, ConnectionComes, NEW c \in Callers, Status(c)
    PROVE  ConnectionComes'
<1>1. /\ UNCHANGED <<active, natsClient, url, open>> /\ OthersStay(c)
      /\ {pc[c], pc'[c]} \subseteq StatusPCs \cup {"idle"}
  BY StatusMoves
<1>2. CASE ConnectedOrComing
  BY <1>1, <1>2, ComingStays DEF ConnectionComes, Comes, StatusPCs
<1>3. CASE NoneProceeds
  <2>1. ~active'
    BY <1>1, <1>3 DEF NoneProceeds
  <2> QED BY <1>1, <1>3, <2>1, NoneProceedsStays DEF ConnectionComes, StatusPCs
<1> QED BY <1>2, <1>3 DEF ConnectionComes

LEMMA WriteKeepsTools ==
    ASSUME ToolsTypeOK, CallsNamed, ConnectionComes, NEW c \in Callers, Write(c)
    PROVE  ToolsTypeOK' /\ CallsNamed' /\ ConnectionComes'
<1>1. CASE ServiceTools(c)
  <2>1. ToolsTypeOK' /\ CallsNamed'
    BY <1>1, ServiceToolsTyped, ServiceNamesCalls
  <2>2. ConnectionComes'
    BY <1>1, ServiceBeginsConnection, AskKeepsConnection, DialKeepsConnection,
       ProceedKeepsConnection DEF ServiceTools
  <2> QED BY <2>1, <2>2
<1>2. CASE UpdateConfig(c)
  <2>1. ToolsTypeOK' /\ CallsNamed'
    BY <1>2, UpdateTyped, UpdateNamesCalls
  <2>2. ConnectionComes'
    BY <1>2, ConfigKeepsConnection, ReplaceKeepsConnection, ConnectKeepsConnection
       DEF UpdateConfig
  <2> QED BY <2>1, <2>2
<1> QED BY <1>1, <1>2 DEF Write

-----------------------------------------------------------------------------
(* Updates that nothing comes across. *)

Settings == ConnectionsSoFar /\ ConfigSoFar /\ SwitchSoFar

OthersRest(c) == \A d \in Callers \ {c} : ~Updating(d)

OthersIdle(c) == \A d \in Callers \ {c} : ~Busy(d)

LEMMA UpdatingIsBusy == \A c \in Callers : Updating(c) => Busy(c)
BY DEF Updating, Busy

LEMMA RestStays ==
    ASSUME NEW c \in Callers, OthersStay(c), OthersRest(c)
    PROVE  OthersRest(c)'
BY DEF OthersStay, OthersRest, Updating

\* What an update finds is left alone by the others while it goes on.
LEMMA AloneStays ==
    ASSUME Alone, NEW c \in Callers, OthersStay(c), OthersRest(c),
           Updating(c)' => Updating(c) \/ OthersIdle(c)
    PROVE  Alone'
<1>1. OthersRest(c)'
  BY RestStays
<1>2. Updating(c)' => OthersIdle(c)
  BY DEF Alone, OthersIdle
<1>3. OthersIdle(c) => OthersIdle(c)'
  BY DEF OthersIdle, OthersStay, Busy
<1> QED BY <1>1, <1>2, <1>3 DEF Alone, OthersRest, OthersIdle

LEMMA QuietIs ==
    ASSUME NEW c \in Callers, OthersRest(c)
    PROVE  Quiet <=> ~Updating(c)
BY DEF OthersRest, Quiet

\* A step inside a method of the service: no update is in one of its own steps.
LEMMA ServiceKeepsConnections ==
    ASSUME ToolsTypeOK, Settings, NEW c \in Callers, OthersRest(c), ServiceTools(c)
    PROVE  ConnectionsSoFar' /\ ConfigSoFar'
<1>1. OthersStay(c)
  BY ServiceMovesOne
<1>2. pc[c] \in ServicePCs \cup {"idle"} /\ pc'[c] \in ServicePCs \cup {"idle"}
  <2>1. CASE ReadClient(c, "ask", "asking") \/ ReadClient(c, "dial", "dialling")
    BY <2>1, ReadMovesOne DEF ReadClient, ServicePCs
  <2>2. CASE \/ StartStreaming(c) \/ StopStreaming(c) \/ StreamWorld(c)
             \/ ServiceAsk(c) \/ ServiceConnect(c) \/ ServiceProceed(c)
    BY <2>2 DEF StartStreaming, StopStreaming, StreamWorld, ServiceAsk, ServiceConnect,
           ServiceProceed, Enter, Leave, Goto, ToolsTypeOK, ServicePCs, locals
  <2> QED BY <2>1, <2>2 DEF ServiceTools
<1>3. \A d \in Callers : pc[d] \notin UpdatePCs /\ pc'[d] \notin UpdatePCs
  BY <1>1, <1>2 DEF OthersStay, OthersRest, Updating, UpdatePCs, ServicePCs
<1>4. UNCHANGED <<config, natsClient, url, streamID>>
  BY DEF ServiceTools, StartStreaming, StopStreaming, StreamWorld, ServiceAsk,
         ServiceConnect, ServiceProceed, ReadClient, otherClients, clients
<1>5. pc'[c] \in {"asking", "dialling"} => target'[c] = natsClient
  <2>1. CASE ReadClient(c, "ask", "asking") \/ ReadClient(c, "dial", "dialling")
    BY <2>1, ReadMovesOne
  <2>2. CASE \/ StartStreaming(c) \/ StopStreaming(c) \/ StreamWorld(c)
             \/ ServiceAsk(c) \/ ServiceConnect(c) \/ ServiceProceed(c)
    BY <2>2 DEF StartStreaming, StopStreaming, StreamWorld, ServiceAsk, ServiceConnect,
           ServiceProceed, Enter, Leave, Goto, ToolsTypeOK, locals
  <2> QED BY <2>1, <2>2 DEF ServiceTools
<1>6. open' \subseteq {natsClient} /\ \A k \in open' : url[k] \notin Unparsable
  <2>1. CASE ServiceConnect(c)
    <3>1. target[c] = natsClient
      BY <2>1 DEF ServiceConnect, Settings, ConnectionsSoFar
    <3> QED BY <2>1, <3>1 DEF ServiceConnect, Connects, ConnectFails, Settings,
                              ConnectionsSoFar
  <2>2. CASE ~ServiceConnect(c)
    <3>1. open' = open
      BY <2>2 DEF ServiceTools, StartStreaming, StopStreaming, StreamWorld, ServiceAsk,
                  ServiceProceed, ReadClient, clients
    <3> QED BY <3>1 DEF Settings, ConnectionsSoFar
  <2> QED BY <2>1, <2>2
<1>7. ConnectionsSoFar'
  BY <1>1, <1>2, <1>3, <1>4, <1>5, <1>6
     DEF OthersStay, Settings, ConnectionsSoFar, UpdatePCs, ServicePCs
<1>8. ConfigSoFar'
  <2>1. AsConfigured
    BY <1>3 DEF Settings, ConfigSoFar
  <2>2. AsConfigured'
    BY <1>4, <2>1 DEF AsConfigured
  <2> QED BY <1>3, <2>2 DEF ConfigSoFar, UpdatePCs
<1> QED BY <1>7, <1>8

LEMMA ServiceKeepsSwitch ==
    ASSUME ToolsTypeOK, CallsNamed, Settings, NEW c \in Callers, OthersRest(c),
           ServiceTools(c)
    PROVE  SwitchSoFar' /\ (Updating(c)' => Updating(c))
<1> DEFINE Resuming(d) == Updating(d) /\ pc[d] \in ServicePCs \cup {"start"}
<1>1. OthersStay(c) /\ OthersRest(c)'
  BY ServiceMovesOne, RestStays
<1>2. active \in BOOLEAN /\ wanted \in BOOLEAN
  BY DEF ToolsTypeOK
<1>3. SUFFICES /\ pc'[c] \in ServicePCs \cup {"idle"} /\ (Updating(c)' => Updating(c))
               /\ Updating(c)' => ~active' /\ wanted'
               /\ ~Updating(c)' => active' = wanted'
  <2>1. Quiet' <=> ~Updating(c)'
    BY <1>1 DEF OthersRest, Quiet
  <2>2. \A d \in Callers : pc'[d] \notin UpdatePCs
    BY <1>1, <1>3 DEF OthersRest, Updating, UpdatePCs, ServicePCs
  <2> QED BY <1>1, <1>3, <2>1, <2>2 DEF SwitchSoFar, OthersRest, UpdatePCs
<1>4. CASE StartStreaming(c) \/ StopStreaming(c) \/ StreamWorld(c)
  <2>1. active = wanted
    <3>1. pc[c] = "idle"
      BY <1>4 DEF StartStreaming, StopStreaming, StreamWorld
    <3>2. ~Updating(c)
      BY <3>1 DEF Updating, UpdatePCs, ServicePCs
    <3> QED BY <3>2, QuietIs DEF Settings, SwitchSoFar
  <2>2. \/ pc'[c] = "idle"
        \/ pc'[c] = "ask" /\ call'[c] # "resume"
    BY <1>4 DEF StartStreaming, StopStreaming, StreamWorld, Enter, Goto, ToolsTypeOK, locals
  <2>3. pc'[c] \in ServicePCs \cup {"idle"} /\ ~Updating(c)'
    BY <2>2 DEF Updating, UpdatePCs, ServicePCs
  <2>4. active' = wanted'
    <3>1. CASE StartStreaming(c)
      BY <1>2, <2>1, <3>1 DEF StartStreaming, clients
    <3>2. CASE StopStreaming(c)
      BY <3>2 DEF StopStreaming
    <3>3. CASE StreamWorld(c)
      BY <2>1, <3>3 DEF StreamWorld, history
    <3> QED BY <1>4, <3>1, <3>2, <3>3
  <2> QED BY <2>3, <2>4
<1>5. CASE \/ ReadClient(c, "ask", "asking") \/ ReadClient(c, "dial", "dialling")
           \/ ServiceAsk(c) \/ ServiceConnect(c) \/ ServiceProceed(c)
  <2>1. pc[c] \in ServicePCs
    BY <1>5 DEF ReadClient, ServiceAsk, ServiceConnect, ServiceProceed, ServicePCs
  <2>2. Updating(c) <=> call[c] = "resume"
    BY <2>1 DEF Updating, UpdatePCs, ServicePCs
  <2>3. /\ call[c] = "resume" => ~active /\ wanted
        /\ call[c] # "resume" => active = wanted
    <3>1. CASE call[c] = "resume"
      BY <2>1, <2>2, <3>1 DEF Settings, SwitchSoFar
    <3>2. CASE call[c] # "resume"
      BY <2>2, <3>2, QuietIs DEF Settings, SwitchSoFar
    <3> QED BY <3>1, <3>2
  <2>4. CASE UNCHANGED <<call, active, wanted>> /\ pc'[c] \in ServicePCs
    <3>1. Updating(c)' <=> call[c] = "resume"
      BY <2>4 DEF Updating, UpdatePCs, ServicePCs
    <3> QED BY <2>2, <2>3, <2>4, <3>1
  <2>5. CASE /\ Leave(c) /\ UNCHANGED active /\ wanted' = (wanted /\ call[c] # "resume")
    <3>1. pc'[c] = "idle"
      BY <2>5 DEF Leave, Goto, ToolsTypeOK
    <3>2. ~Updating(c)'
      BY <3>1 DEF Updating, UpdatePCs, ServicePCs
    <3>3. active' = wanted'
      BY <1>2, <2>3, <2>5
    <3> QED BY <3>1, <3>2, <3>3
  <2>6. CASE ServiceProceed(c)
    <3>1. pc'[c] = "idle"
      BY <2>6 DEF ServiceProceed, Leave, Goto, ToolsTypeOK
    <3>2. ~Updating(c)'
      BY <3>1 DEF Updating, UpdatePCs, ServicePCs
    <3>3. call[c] \in Calls
      BY <2>1 DEF CallsNamed
    <3>4. /\ active' = (active \/ call[c] # "stream")
          /\ wanted' = (wanted \/ call[c] = "start")
      BY <2>6 DEF ServiceProceed
    <3>5. active' = wanted'
      BY <1>2, <2>3, <3>3, <3>4 DEF Calls
    <3> QED BY <3>1, <3>2, <3>5
  <2>7. CASE ReadClient(c, "ask", "asking") \/ ReadClient(c, "dial", "dialling")
    <3>1. UNCHANGED <<call, active, wanted>>
      BY <2>7 DEF ReadClient, history
    <3>2. pc'[c] \in ServicePCs
      BY <2>7, ReadMovesOne DEF ServicePCs
    <3> QED BY <2>4, <3>1, <3>2
  <2>8. CASE ServiceAsk(c)
    <3>1. UNCHANGED <<call, active, wanted>>
      BY <2>8 DEF ServiceAsk, history
    <3>2. pc'[c] \in ServicePCs
      BY <2>8 DEF ServiceAsk, Goto, ToolsTypeOK, ServicePCs
    <3> QED BY <2>4, <3>1, <3>2
  <2>9. CASE ServiceConnect(c)
    <3>1. CASE Goto(c, "proceed") /\ UNCHANGED <<call, active, wanted>>
      BY <2>4, <3>1 DEF Goto, ToolsTypeOK, ServicePCs
    <3> QED BY <2>5, <2>9, <3>1 DEF ServiceConnect
  <2> QED BY <1>5, <2>6, <2>7, <2>8, <2>9
<1> QED BY <1>4, <1>5 DEF ServiceTools

LEMMA ServiceKeepsSettings ==
    ASSUME ToolsTypeOK, CallsNamed, Settings, Alone, NEW c \in Callers, OthersRest(c),
           ServiceTools(c)
    PROVE  Settings' /\ Alone'
BY ServiceKeepsConnections, ServiceKeepsSwitch, ServiceMovesOne, AloneStays DEF Settings

\* A step of an update that stays one, or ends: where it goes is all that the others
\* see of it.
LEMMA UpdateMoves ==
    ASSUME ToolsTypeOK, Alone, NEW c \in Callers, OthersRest(c), UpdateConfig(c)
    PROVE  /\ OthersIdle(c) /\ OthersStay(c) /\ Alone'
           /\ \A d \in Callers \ {c} :
                  /\ pc'[d] = pc[d] /\ pc'[d] \notin UpdatePCs \cup ServicePCs
                  /\ ~Updating(d)'
           /\ Quiet' <=> ~Updating(c)'
<1>1. OthersStay(c)
  BY UpdateMovesOne
<1>2. OthersIdle(c)
  <2>1. CASE UpdateBegin(c)
    BY <2>1 DEF UpdateBegin, Free, OthersRest, OthersIdle, Busy, Updating
  <2>2. CASE ~UpdateBegin(c)
    <3>1. pc[c] \in UpdatePCs
      BY <2>2 DEF UpdateConfig, UpdateAddress, UpdateUrl, UpdateStreamID, UpdateStop,
                  UpdateClose, UpdateMake, UpdateInstall, UpdateConnect, UpdateStart,
                  ReadClient, UpdatePCs
    <3> QED BY <3>1 DEF Alone, Updating, OthersIdle
  <2> QED BY <2>1, <2>2
<1>3. Alone'
  BY <1>1, <1>2, AloneStays
<1>4. \A d \in Callers \ {c} :
          /\ pc'[d] = pc[d] /\ pc'[d] \notin UpdatePCs \cup ServicePCs
          /\ ~Updating(d)'
  BY <1>1, <1>2 DEF OthersStay, OthersIdle, Busy, Updating
<1>5. Quiet' <=> ~Updating(c)'
  BY <1>4 DEF Quiet
<1> QED BY <1>1, <1>2, <1>3, <1>4, <1>5

LEMMA BeginKeepsSettings ==
    ASSUME ToolsTypeOK, Settings, Alone, NEW c \in Callers, OthersRest(c), UpdateBegin(c)
    PROVE  Settings'
<1>1. pc[c] = "idle" /\ pc'[c] = "address"
  BY DEF UpdateBegin, Goto, ToolsTypeOK
<1>2. /\ Quiet' <=> ~Updating(c)'
      /\ \A d \in Callers \ {c} : pc'[d] = pc[d] /\ pc'[d] \notin UpdatePCs \cup ServicePCs
  BY UpdateMoves DEF UpdateConfig
<1>3. Updating(c)' /\ ~Updating(c)
  BY <1>1 DEF Updating, UpdatePCs, ServicePCs
<1>4. UNCHANGED <<active, config, natsClient, url, streamID, open, wanted>>
  BY DEF UpdateBegin, clients, history
<1>5. was'[c] = active
  BY DEF UpdateBegin, ToolsTypeOK
<1>6. AsConfigured /\ active = wanted
  <2>1. Quiet
    BY <1>3, QuietIs
  <2>2. \A d \in Callers : pc[d] \notin UpdatePCs
    BY <2>1 DEF Quiet, Updating
  <2> QED BY <2>1, <2>2 DEF Settings, ConfigSoFar, SwitchSoFar
<1>7. ConnectionsSoFar'
  BY <1>1, <1>2, <1>4 DEF Settings, ConnectionsSoFar, UpdatePCs, ServicePCs
<1>8. ConfigSoFar'
  BY <1>1, <1>2, <1>4, <1>6 DEF ConfigSoFar, AsConfigured, UpdatePCs
<1>9. SwitchSoFar'
  BY <1>1, <1>2, <1>3, <1>4, <1>5, <1>6 DEF SwitchSoFar, UpdatePCs, ServicePCs
<1> QED BY <1>7, <1>8, <1>9 DEF Settings

\* The writes to the configuration: the client falls behind only when another one
\* will be made.
LEMMA ConfigKeepsSettings ==
    ASSUME ToolsTypeOK, Settings, Alone, NEW c \in Callers, OthersRest(c),
           UpdateAddress(c) \/ UpdateUrl(c) \/ UpdateStreamID(c)
    PROVE  Settings'
<1>1. PICK where \in {"url", "streamID", "stop", "idle"} : Goto(c, where)
  BY DEF UpdateAddress, UpdateUrl, UpdateStreamID
<1>2. /\ pc'[c] = where /\ (Quiet' <=> ~Updating(c)')
      /\ \A d \in Callers \ {c} : pc'[d] = pc[d] /\ pc'[d] \notin UpdatePCs \cup ServicePCs
  <2>1. pc'[c] = where
    BY <1>1 DEF Goto, ToolsTypeOK
  <2> QED BY <2>1, UpdateMoves DEF UpdateConfig
<1>3. UNCHANGED <<active, natsClient, url, streamID, open, req, was, mine, wanted>>
  BY DEF UpdateAddress, UpdateUrl, UpdateStreamID, clients, request, history
<1>4. pc[c] \in {"address", "url", "streamID"}
  BY DEF UpdateAddress, UpdateUrl, UpdateStreamID
<1>5. was[c] = active /\ active = wanted
  BY <1>4 DEF Settings, SwitchSoFar
<1>6. ConnectionsSoFar'
  BY <1>2, <1>3 DEF Settings, ConnectionsSoFar, UpdatePCs, ServicePCs
<1>7. SwitchSoFar'
  BY <1>2, <1>3, <1>5 DEF SwitchSoFar, UpdatePCs, ServicePCs
<1>8. ConfigSoFar'
  <2>1. where = "url" => NeedNewClient(req[c])
    BY <1>2 DEF UpdateAddress, UpdateUrl, UpdateStreamID, Goto, ToolsTypeOK
  <2>2. where = "streamID" => NeedNewClient(req[c]) \/ AsConfigured'
    <3>1. CASE UpdateAddress(c) /\ ~NeedNewClient(req[c])
      <4>1. \A d \in Callers : pc[d] \notin UpdatePCs \ {"address"}
        BY <1>2, <3>1 DEF UpdateAddress
      <4>2. AsConfigured
        BY <4>1 DEF Settings, ConfigSoFar, UpdatePCs
      <4>3. config' = [config EXCEPT !.host = @, !.port = @]
        BY <3>1 DEF UpdateAddress, NeedNewClient, Given
      <4>4. config'.url = config.url /\ config'.streamID = config.streamID
        BY <4>3 DEF ToolsTypeOK, Config
      <4> QED BY <1>3, <4>2, <4>4 DEF AsConfigured
    <3>2. CASE UpdateUrl(c)
      BY <3>2 DEF UpdateUrl, Settings, ConfigSoFar
    <3>3. CASE UpdateStreamID(c)
      BY <1>2, <3>3 DEF UpdateStreamID, Goto, ToolsTypeOK
    <3> QED BY <3>1, <3>2, <3>3
  <2>3. where = "idle" => AsConfigured'
    <3> SUFFICES ASSUME where = "idle" PROVE AsConfigured'
      OBVIOUS
    <3>1. /\ UpdateStreamID(c) /\ ~NeedNewClient(req[c])
          /\ req[c].streamID = None
      BY <1>2 DEF UpdateAddress, UpdateUrl, UpdateStreamID, Goto, ToolsTypeOK
    <3>2. AsConfigured
      BY <3>1 DEF UpdateStreamID, Settings, ConfigSoFar
    <3>3. config' = [config EXCEPT !.streamID = @]
      BY <3>1 DEF UpdateStreamID, Given
    <3>4. config'.url = config.url /\ config'.streamID = config.streamID
      BY <3>3 DEF ToolsTypeOK, Config
    <3> QED BY <1>3, <3>2, <3>4 DEF AsConfigured
  <2> QED BY <1>2, <1>3, <2>1, <2>2, <2>3 DEF ConfigSoFar, UpdatePCs
<1> QED BY <1>6, <1>7, <1>8 DEF Settings

\* The client that is to be closed, or connected, is the installed one.
LEMMA ReadKeepsSettings ==
    ASSUME ToolsTypeOK, Settings, Alone, NEW c \in Callers, OthersRest(c),
           ReadClient(c, "close", "closing") \/ ReadClient(c, "connect", "connecting")
    PROVE  Settings'
<1>1. /\ Quiet' <=> ~Updating(c)'
      /\ \A d \in Callers \ {c} : pc'[d] = pc[d] /\ pc'[d] \notin UpdatePCs \cup ServicePCs
  BY UpdateMoves DEF UpdateConfig
<1>2. UNCHANGED <<active, config, natsClient, url, streamID, open, req, was, mine, wanted>>
  BY DEF ReadClient, clients, request, history
<1>3. /\ target'[c] = natsClient
      /\ \/ pc[c] = "close" /\ pc'[c] = "closing"
         \/ pc[c] = "connect" /\ pc'[c] = "connecting"
  BY ReadMovesOne DEF ReadClient
<1>4. Updating(c)'
  BY <1>3 DEF Updating, UpdatePCs
<1>5. ConnectionsSoFar'
  BY <1>1, <1>2, <1>3 DEF Settings, ConnectionsSoFar, UpdatePCs, ServicePCs
<1>6. ConfigSoFar'
  <2>1. pc[c] = "connect" => AsConfigured
    <3> SUFFICES ASSUME pc[c] = "connect" PROVE AsConfigured
      OBVIOUS
    <3>1. \A d \in Callers : pc[d] \notin UpdatePCs \ {"connect"}
      BY <1>1
    <3> QED BY <3>1 DEF Settings, ConfigSoFar, UpdatePCs
  <2> QED BY <1>1, <1>2, <1>3, <2>1 DEF ConfigSoFar, AsConfigured, UpdatePCs
<1>7. SwitchSoFar'
  <2>1. ~active /\ was[c] = wanted
    BY <1>3 DEF Settings, SwitchSoFar
  <2> QED BY <1>1, <1>2, <1>3, <1>4, <2>1 DEF SwitchSoFar, UpdatePCs, ServicePCs
<1> QED BY <1>5, <1>6, <1>7 DEF Settings

\* The replacement of the client.
LEMMA ReplaceKeepsSettings ==
    ASSUME ToolsTypeOK, Settings, Alone, NEW c \in Callers, OthersRest(c),
           UpdateStop(c) \/ UpdateClose(c) \/ UpdateMake(c) \/ UpdateInstall(c)
    PROVE  Settings'
<1>1. PICK where \in {"close", "make", "install", "connect"} : Goto(c, where)
  BY DEF UpdateStop, UpdateClose, UpdateMake, UpdateInstall
<1>2. /\ pc'[c] = where /\ (Quiet' <=> ~Updating(c)')
      /\ \A d \in Callers \ {c} : pc'[d] = pc[d] /\ pc'[d] \notin UpdatePCs \cup ServicePCs
  <2>1. pc'[c] = where
    BY <1>1 DEF Goto, ToolsTypeOK
  <2> QED BY <2>1, UpdateMoves DEF UpdateConfig
<1>3. UNCHANGED <<config, req, was, mine, wanted>> /\ Updating(c)'
  BY <1>2 DEF UpdateStop, UpdateClose, UpdateMake, UpdateInstall, request, history,
              Updating, UpdatePCs
<1>4. ConnectionsSoFar'
  <2>1. where \in {"make", "install"} => open' = {}
    BY <1>2 DEF UpdateStop, UpdateClose, UpdateMake, UpdateInstall, Goto, ToolsTypeOK,
                Settings, ConnectionsSoFar
  <2>2. open' \subseteq {natsClient'} /\ \A k \in open' : url'[k] \notin Unparsable
    <3>1. CASE UpdateStop(c) \/ UpdateClose(c)
      BY <3>1 DEF UpdateStop, UpdateClose, clients, otherClients, Settings, ConnectionsSoFar
    <3>2. CASE UpdateMake(c) \/ UpdateInstall(c)
      BY <3>2 DEF UpdateMake, UpdateInstall, Settings, ConnectionsSoFar
    <3> QED BY <3>1, <3>2
  <2> QED BY <1>2, <2>1, <2>2 DEF ConnectionsSoFar, UpdatePCs, ServicePCs
<1>5. ConfigSoFar'
  <2>1. where = "install" =>
            url'[mine[c]] = config.url /\ streamID'[mine[c]] = config.streamID
    BY <1>2 DEF UpdateStop, UpdateClose, UpdateMake, UpdateInstall, Goto, ToolsTypeOK
  <2>2. where = "connect" => AsConfigured'
    <3> SUFFICES ASSUME where = "connect" PROVE AsConfigured'
      OBVIOUS
    <3>1. UpdateInstall(c)
      BY <1>2 DEF UpdateStop, UpdateClose, UpdateMake, UpdateInstall, Goto, ToolsTypeOK
    <3>2. url[mine[c]] = config.url /\ streamID[mine[c]] = config.streamID
      BY <3>1 DEF UpdateInstall, Settings, ConfigSoFar
    <3> QED BY <3>1, <3>2 DEF UpdateInstall, AsConfigured
  <2> QED BY <1>2, <1>3, <2>1, <2>2 DEF ConfigSoFar, UpdatePCs
<1>6. SwitchSoFar'
  <2>1. ~active' /\ was[c] = wanted
    <3>1. CASE UpdateStop(c)
      BY <3>1 DEF UpdateStop, Settings, SwitchSoFar
    <3>2. CASE UpdateClose(c) \/ UpdateMake(c) \/ UpdateInstall(c)
      BY <3>2 DEF UpdateClose, UpdateMake, UpdateInstall, Settings, SwitchSoFar
    <3> QED BY <3>1, <3>2
  <2> QED BY <1>2, <1>3, <2>1 DEF SwitchSoFar, UpdatePCs, ServicePCs
<1> QED BY <1>4, <1>5, <1>6 DEF Settings

\* The end of an update: what was interrupted is about to be resumed, or said to be
\* off.
LEMMA ResumeKeepsSettings ==
    ASSUME ToolsTypeOK, Settings, Alone, NEW c \in Callers, OthersRest(c),
           UpdateConnect(c) \/ UpdateStart(c)
    PROVE  Settings'
<1>1. /\ Quiet' <=> ~Updating(c)'
      /\ \A d \in Callers \ {c} : pc'[d] = pc[d] /\ pc'[d] \notin UpdatePCs \cup ServicePCs
  BY UpdateMoves DEF UpdateConfig
<1>2. \/ pc'[c] = "start" /\ Updating(c)'
      \/ pc'[c] = "ask" /\ call'[c] = "resume" /\ Updating(c)'
      \/ pc'[c] = "idle" /\ ~Updating(c)'
  BY DEF UpdateConnect, UpdateStart, Enter, Leave, Goto, ToolsTypeOK, Updating, UpdatePCs,
         ServicePCs
<1>3. UNCHANGED <<active, config, natsClient, url, streamID, req, was, mine>>
  BY DEF UpdateConnect, UpdateStart, otherClients, clients, request
<1>4. pc[c] \in {"connecting", "start"} /\ \A d \in Callers \ {c} : pc[d] \notin UpdatePCs
  BY <1>1 DEF UpdateConnect, UpdateStart
<1>5. ConnectionsSoFar'
  <2>1. open' \subseteq {natsClient} /\ \A k \in open' : url[k] \notin Unparsable
    <3>1. CASE UpdateConnect(c)
      <4>1. target[c] = natsClient
        BY <3>1 DEF UpdateConnect, Settings, ConnectionsSoFar
      <4> QED BY <3>1, <4>1 DEF UpdateConnect, Connects, ConnectFails, Settings,
                                ConnectionsSoFar
    <3>2. CASE UpdateStart(c)
      BY <3>2 DEF UpdateStart, clients, Settings, ConnectionsSoFar
    <3> QED BY <3>1, <3>2
  <2> QED BY <1>1, <1>2, <1>3, <2>1 DEF ConnectionsSoFar, UpdatePCs, ServicePCs
<1>6. ConfigSoFar'
  <2>1. AsConfigured
    BY <1>4 DEF Settings, ConfigSoFar, UpdatePCs
  <2> QED BY <1>1, <1>2, <1>3, <2>1 DEF ConfigSoFar, AsConfigured, UpdatePCs
<1>7. SwitchSoFar'
  <2>1. /\ Updating(c)' => ~active' /\ wanted'
        /\ ~Updating(c)' => active' = wanted'
    <3>1. CASE UpdateConnect(c)
      <4>1. ~active /\ was[c] = wanted
        BY <3>1 DEF UpdateConnect, Settings, SwitchSoFar
      <4>2. CASE pc'[c] = "start"
        BY <1>2, <1>3, <3>1, <4>1, <4>2 DEF UpdateConnect, Goto, ToolsTypeOK
      <4>3. CASE pc'[c] = "idle"
        BY <1>2, <1>3, <3>1, <4>1, <4>3 DEF UpdateConnect, Goto, ToolsTypeOK
      <4> QED BY <3>1, <4>2, <4>3 DEF UpdateConnect, Goto, ToolsTypeOK
    <3>2. CASE UpdateStart(c)
      <4>1. ~active /\ wanted
        BY <3>2 DEF UpdateStart, Settings, SwitchSoFar, Updating, UpdatePCs
      <4>2. UNCHANGED wanted /\ Enter(c, "resume")
        BY <3>2, <4>1 DEF UpdateStart, history
      <4>3. pc'[c] = "ask"
        BY <4>2 DEF Enter, Goto, ToolsTypeOK
      <4> QED BY <1>2, <1>3, <4>1, <4>2, <4>3
    <3> QED BY <3>1, <3>2
  <2> QED BY <1>1, <1>2, <2>1 DEF SwitchSoFar, UpdatePCs, ServicePCs
<1> QED BY <1>5, <1>6, <1>7 DEF Settings

LEMMA WriteKeepsSettings ==
    ASSUME ToolsTypeOK, CallsNamed, Settings, Alone, NEW c \in Callers, OthersRest(c),
           Write(c)
    PROVE  Settings' /\ Alone'
<1>1. CASE ServiceTools(c)
  BY <1>1, ServiceKeepsSettings
<1>2. CASE UpdateConfig(c)
  <2>1. Alone'
    BY <1>2, UpdateMoves
  <2>2. Settings'
    BY <1>2, BeginKeepsSettings, ConfigKeepsSettings, ReadKeepsSettings,
       ReplaceKeepsSettings, ResumeKeepsSettings DEF UpdateConfig
  <2> QED BY <2>1, <2>2
<1> QED BY <1>1, <1>2 DEF Write

LEMMA StatusKeepsSettings ==
    ASSUME ToolsTypeOK, Settings, Alone, NEW c \in Callers, Status(c)
    PROVE  Settings' /\ Alone' /\ (Quiet' <=> Quiet)
<1>1. /\ UNCHANGED <<active, config, natsClient, url, streamID, open, req, was, mine, call,
                    wanted>>
      /\ OthersStay(c)
      /\ {pc[c], pc'[c]} \subseteq StatusPCs \cup {"idle"}
  BY StatusMoves
<1>2. \A d \in Callers :
          pc[d] \in UpdatePCs \cup ServicePCs \/ pc'[d] \in UpdatePCs \cup ServicePCs =>
              pc'[d] = pc[d] /\ target'[d] = target[d]
  BY <1>1 DEF OthersStay, UpdatePCs, ServicePCs, StatusPCs
<1>3. \A d \in Callers : (Updating(d)' <=> Updating(d)) /\ (Busy(d)' <=> Busy(d))
  BY <1>1, <1>2 DEF Updating, Busy
<1>4. Quiet' <=> Quiet
  BY <1>3 DEF Quiet
<1>5. ConnectionsSoFar'
  BY <1>1, <1>2 DEF Settings, ConnectionsSoFar, UpdatePCs, ServicePCs
<1>6. ConfigSoFar'
  BY <1>1, <1>2 DEF Settings, ConfigSoFar, AsConfigured, UpdatePCs
<1>7. SwitchSoFar'
  BY <1>1, <1>2, <1>3, <1>4 DEF Settings, SwitchSoFar, UpdatePCs, ServicePCs
<1>8. Alone'
  BY <1>3 DEF Alone
<1> QED BY <1>4, <1>5, <1>6, <1>7, <1>8 DEF Settings

-----------------------------------------------------------------------------
(* Reports that no update came across. *)

\* Who is asking and was not and is not across an update finds everybody quiet.
LEMMA UnmixedIsQuiet ==
    ASSUME ReportSoFar, NEW d \in Callers \ mixed',
           mixed' = { c \in Callers :
                        pc'[c] \in StatusPCs
                            /\ (c \in mixed \/ \E e \in Callers : Updating(e)') },
           pc'[d] \in StatusPCs
    PROVE  d \notin mixed /\ Quiet' /\ (pc[d] \in StatusPCs => Quiet)
BY DEF ReportSoFar, Quiet

\* A start may fail to connect, or succeed: the client that had a connection has one.
LEMMA ServiceKeepsReads ==
    ASSUME ToolsTypeOK, ConnectionsSoFar, NEW c \in Callers, ServiceTools(c)
    PROVE  /\ UNCHANGED <<config, natsClient, url>>
           /\ natsClient \in open => natsClient \in open'
           /\ pc'[c] \notin StatusPCs
<1>1. UNCHANGED <<config, natsClient, url>>
  BY DEF ServiceTools, StartStreaming, StopStreaming, StreamWorld, ServiceAsk,
         ServiceConnect, ServiceProceed, ReadClient, otherClients, clients
<1>2. natsClient \in open => natsClient \in open'
  <2>1. CASE ServiceConnect(c)
    BY <2>1 DEF ServiceConnect, Connects, ConnectFails, ConnectionsSoFar
  <2>2. CASE ~ServiceConnect(c)
    BY <2>2 DEF ServiceTools, StartStreaming, StopStreaming, StreamWorld, ServiceAsk,
                ServiceProceed, ReadClient, clients
  <2> QED BY <2>1, <2>2
<1>3. pc'[c] \notin StatusPCs
  <2>1. CASE ReadClient(c, "ask", "asking") \/ ReadClient(c, "dial", "dialling")
    BY <2>1, ReadMovesOne DEF StatusPCs
  <2>2. CASE \/ StartStreaming(c) \/ StopStreaming(c) \/ StreamWorld(c)
             \/ ServiceAsk(c) \/ ServiceConnect(c) \/ ServiceProceed(c)
    BY <2>2 DEF StartStreaming, StopStreaming, StreamWorld, ServiceAsk, ServiceConnect,
           ServiceProceed, Enter, Leave, Goto, ToolsTypeOK, StatusPCs, locals
  <2> QED BY <2>1, <2>2 DEF ServiceTools
<1> QED BY <1>1, <1>2, <1>3

\* Only the beginning of an update finds everybody quiet, and it ends that.
LEMMA UpdateEndsQuiet ==
    ASSUME ToolsTypeOK, NEW c \in Callers, UpdateConfig(c), Quiet
    PROVE  ~Quiet'
<1>1. pc[c] \notin UpdatePCs
  BY DEF Quiet, Updating
<1>2. UpdateBegin(c)
  BY <1>1 DEF UpdateConfig, UpdateAddress, UpdateUrl, UpdateStreamID, UpdateStop,
              UpdateClose, UpdateMake, UpdateInstall, UpdateConnect, UpdateStart,
              ReadClient, UpdatePCs
<1>3. pc'[c] = "address"
  BY <1>2 DEF UpdateBegin, Goto, ToolsTypeOK
<1> QED BY <1>3 DEF Quiet, Updating, UpdatePCs

LEMMA UpdateIsNoReport ==
    ASSUME ToolsTypeOK, NEW c \in Callers, UpdateConfig(c)
    PROVE  pc'[c] \notin StatusPCs
<1>1. CASE ReadClient(c, "close", "closing") \/ ReadClient(c, "connect", "connecting")
  BY <1>1, ReadMovesOne DEF StatusPCs
<1>2. CASE UpdateStart(c)
  BY <1>2 DEF UpdateStart, Enter, Leave, Goto, ToolsTypeOK, StatusPCs
<1>3. CASE ~UpdateStart(c)
  BY <1>1, <1>3 DEF UpdateConfig, UpdateBegin, UpdateAddress, UpdateUrl, UpdateStreamID,
     UpdateStop, UpdateClose, UpdateMake, UpdateInstall, UpdateConnect, Goto, ToolsTypeOK,
     StatusPCs
<1> QED BY <1>2, <1>3

LEMMA NextKeepsReport ==
    ASSUME ToolsTypeOK, StatusTypeOK, Undisturbed, Next, ~overlapped'
    PROVE  ReportSoFar'
<1> DEFINE Fits(d) ==
        /\ pc[d] \in StatusPCs \ {"askConfig"} => seen[d].url = config.url
        /\ pc[d] \in {"askingConnected", "askingDetail"} => target[d] = natsClient
        /\ pc[d] \in {"askDetail", "askingDetail", "report"} /\ seen[d].connected =>
               natsClient \in open
        /\ pc[d] = "report" => seen[d].clientUrl = url[natsClient]
<1> SUFFICES ASSUME NEW d \in Callers \ mixed', pc'[d] \in StatusPCs
             PROVE  Quiet' /\ Fits(d)'
  BY DEF ReportSoFar, StatusPCs
<1>1. d \notin mixed /\ Quiet' /\ (pc[d] \in StatusPCs => Quiet)
  BY UnmixedIsQuiet DEF Next, Undisturbed
<1>2. Fits(d)
  BY <1>1 DEF Undisturbed, ReportSoFar
<1>3. PICK c \in Callers : Write(c) \/ Read(c)
  BY DEF Next
<1>4. CASE Write(c)
  <2>1. CASE ServiceTools(c)
    <3>1. /\ UNCHANGED <<config, natsClient, url>>
          /\ natsClient \in open => natsClient \in open'
          /\ d # c
      BY <2>1, ServiceKeepsReads DEF Undisturbed
    <3>2. pc'[d] = pc[d] /\ target'[d] = target[d] /\ seen' = seen
      BY <1>4, <2>1, <3>1, ServiceMovesOne DEF OthersStay, Write
    <3> QED BY <1>1, <1>2, <3>1, <3>2
  <2>2. CASE UpdateConfig(c)
    <3>1. d # c /\ pc'[d] = pc[d]
      BY <2>2, UpdateIsNoReport, UpdateMovesOne DEF OthersStay
    <3> QED BY <1>1, <2>2, <3>1, UpdateEndsQuiet
  <2> QED BY <1>4, <2>1, <2>2 DEF Write
<1>5. CASE Read(c)
  <2>1. Status(c) /\ UNCHANGED <<config, natsClient, url, open>>
    BY <1>5, StatusMoves DEF Read
  <2>2. CASE d # c
    <3>1. pc'[d] = pc[d] /\ target'[d] = target[d]
      BY <2>1, <2>2, StatusMoves DEF OthersStay
    <3>2. seen'[d] = seen[d]
      BY <2>1, <2>2 DEF Status, StatusBegin, StatusConfig, StatusReads, StatusConnected,
             StatusDetail, StatusReturn, StatusTypeOK
    <3> QED BY <1>1, <1>2, <2>1, <3>1, <3>2
  <2>3. CASE d = c
    <3>1. CASE StatusBegin(c)
      <4>1. pc'[d] = "askConfig"
        BY <2>3, <3>1 DEF StatusBegin, Goto, ToolsTypeOK
      <4> QED BY <1>1, <4>1 DEF StatusPCs
    <3>2. CASE StatusConfig(c)
      <4>1. pc'[d] = "askConnected" /\ seen'[d].url = config.url
        BY <2>3, <3>2 DEF StatusConfig, Goto, ToolsTypeOK, StatusTypeOK, Report
      <4> QED BY <1>1, <2>1, <4>1
    <3>3. CASE StatusConnected(c)
      <4>1. /\ pc[d] = "askingConnected" /\ pc'[d] = "askDetail"
            /\ seen'[d].url = seen[d].url
            /\ seen'[d].connected => target[d] \in open
        BY <2>3, <3>3 DEF StatusConnected, IsConnected, Goto, ToolsTypeOK, StatusTypeOK, Report
      <4> QED BY <1>1, <1>2, <2>1, <4>1 DEF StatusPCs
    <3>4. CASE StatusDetail(c)
      <4>1. /\ pc[d] = "askingDetail" /\ pc'[d] = "report"
            /\ seen'[d].url = seen[d].url /\ seen'[d].connected = seen[d].connected
            /\ seen'[d].clientUrl = url[target[d]]
        BY <2>3, <3>4 DEF StatusDetail, Goto, ToolsTypeOK, StatusTypeOK, Report
      <4> QED BY <1>1, <1>2, <2>1, <4>1 DEF StatusPCs
    <3>5. CASE StatusReturn(c)
      <4>1. pc'[d] = "idle"
        BY <2>3, <3>5 DEF StatusReturn, Goto, ToolsTypeOK
      <4> QED BY <4>1 DEF StatusPCs
    <3>6. CASE StatusReads(c)
      <4>1. /\ \/ pc[d] = "askConnected" /\ pc'[d] = "askingConnected"
               \/ pc[d] = "askDetail" /\ pc'[d] = "askingDetail"
            /\ target'[d] = natsClient /\ seen' = seen
        BY <2>3, <3>6, ReadMovesOne DEF StatusReads, ReadClient
      <4> QED BY <1>1, <1>2, <2>1, <4>1 DEF StatusPCs
    <3> QED BY <2>1, <3>1, <3>2, <3>3, <3>4, <3>5, <3>6 DEF Status
  <2> QED BY <2>2, <2>3
<1> QED BY <1>3, <1>4, <1>5

-----------------------------------------------------------------------------
LEMMA NextKeepsUndisturbed ==
    ASSUME ToolsTypeOK, StatusTypeOK, CallsNamed, ~overlapped => Undisturbed, Next,
           ~overlapped'
    PROVE  Undisturbed'
<1>1. PICK c \in Callers : Write(c) \/ Read(c)
  BY DEF Next
<1>2. ~overlapped /\ (Write(c) => OthersRest(c))
  <2>1. CASE Write(c)
    <3>1. overlapped' = (overlapped \/ \E d \in Callers \ {c} : Updating(d))
      BY <2>1 DEF Write
    <3> QED BY <3>1, Zenon DEF OthersRest
  <2>2. CASE ~Write(c)
    BY <1>1, <2>2 DEF Read
  <2> QED BY <2>1, <2>2
<1>3. Undisturbed
  BY <1>2
<1>4. Settings' /\ Alone'
  <2>1. CASE Write(c)
    BY <1>2, <1>3, <2>1, WriteKeepsSettings DEF Undisturbed, Settings
  <2>2. CASE Read(c)
    BY <1>3, <2>2, StatusKeepsSettings DEF Undisturbed, Settings, Read
  <2> QED BY <1>1, <2>1, <2>2
<1>5. ReportSoFar'
  BY <1>3, NextKeepsReport
<1> QED BY <1>4, <1>5 DEF Undisturbed, Settings

LEMMA NextKeepsIInv == IInv /\ [Next]_vars => IInv'
<1> SUFFICES ASSUME IInv, [Next]_vars PROVE IInv'
  OBVIOUS
<1> USE DEF IInv, TypeOK
<1>1. CASE Next
  <2>1. PICK c \in Callers : Write(c) \/ Read(c)
    BY <1>1 DEF Next
  <2>2. mixed' \subseteq Callers
    BY <1>1 DEF Next
  <2>3. overlapped' \in BOOLEAN
    BY <2>1 DEF Write, Read
  <2>4. ~overlapped' => Undisturbed'
    BY <1>1, NextKeepsUndisturbed
  <2>5. ToolsTypeOK' /\ CallsNamed' /\ ConnectionComes' /\ seen' \in [Callers -> Report]
    <3>1. CASE Write(c)
      BY <3>1, WriteKeepsTools DEF Write, StatusTypeOK
    <3>2. CASE Read(c)
      BY <3>2, StatusTyped, SeenTyped, StatusNamesCalls, StatusKeepsConnection DEF Read
    <3> QED BY <2>1, <3>1, <3>2
  <2> QED BY <2>2, <2>3, <2>4, <2>5 DEF StatusTypeOK
<1>2. CASE UNCHANGED vars
  <2>1. UNCHANGED <<active, config, natsClient, url, streamID, open, updates, pc, req,
                    was, mine, call, target, wanted, stopped, seen, mixed, overlapped>>
    BY <1>2 DEF vars, clients, request, locals, history
  <2>2. ToolsTypeOK' /\ StatusTypeOK'
    BY <2>1 DEF ToolsTypeOK, StatusTypeOK
  <2>3. CallsNamed' /\ ConnectionComes'
    BY <2>1 DEF CallsNamed, ConnectionComes, ConnectedOrComing, Comes, NoneProceeds
  <2>4. Undisturbed => Undisturbed'
    BY <2>1 DEF Undisturbed, Alone, ConnectionsSoFar, ConfigSoFar, SwitchSoFar,
                ReportSoFar, Quiet, Updating, Busy, AsConfigured
  <2>5. overlapped \in BOOLEAN /\ UNCHANGED overlapped
    BY <2>1
  <2> QED BY <2>2, <2>3, <2>4, <2>5
<1> QED BY <1>1, <1>2

\* The invariant holds in every reachable state.
THEOREM InductiveInvariant == Spec => []IInv
<1> QED BY InitEstablishesIInv, NextKeepsIInv, PTL DEF Spec

\* However the steps of any number of starts, stops and updates come between each
\* other, whenever no update is in progress an active service streams to a client
\* that is connected, unless its address is bad.
THEOREM ActiveIsConnectedHolds == Spec => []ActiveIsConnected
<1>1. IInv => ActiveIsConnected
  BY DEF IInv, ConnectionComes, ConnectedOrComing, Comes, NoneProceeds, ActiveIsConnected,
         Quiet, Updating, UpdatePCs
<1> QED BY <1>1, InductiveInvariant, PTL

\* Calls that overlap no update leave the service streaming just when the last
\* answer said so.
THEOREM SwitchAsAskedHolds == Spec => []SwitchAsAsked
<1>1. IInv => SwitchAsAsked
  BY DEF IInv, Undisturbed, SwitchSoFar, SwitchAsAsked
<1> QED BY <1>1, InductiveInvariant, PTL

\* They leave no connection behind but that of the installed client.
THEOREM NoStrayConnectionHolds == Spec => []NoStrayConnection
<1>1. IInv => NoStrayConnection
  BY DEF IInv, Undisturbed, ConnectionsSoFar, NoStrayConnection
<1> QED BY <1>1, InductiveInvariant, PTL

LEMMA QuietIsConfigured == ASSUME Undisturbed, Quiet PROVE AsConfigured
BY DEF Undisturbed, ConfigSoFar, Quiet, Updating, UpdatePCs

\* They leave the configured client installed.
THEOREM ClientAsConfiguredHolds == Spec => []ClientAsConfigured
<1>1. IInv => ClientAsConfigured
  BY QuietIsConfigured DEF IInv, ClientAsConfigured, AsConfigured
<1> QED BY <1>1, InductiveInvariant, PTL

\* A report of Status that no update came across describes one client, the one of
\* the address it shows.
THEOREM ReportFitsHolds == Spec => []ReportFits
<1>1. IInv => ReportFits
  <2> SUFFICES ASSUME IInv, ~overlapped, NEW c \in Callers \ mixed, pc[c] = "report"
               PROVE  /\ seen[c].clientUrl = seen[c].url
                      /\ seen[c].connected => \E k \in open : url[k] = seen[c].url
    BY DEF ReportFits
  <2>1. Quiet /\ Undisturbed
    BY DEF IInv, Undisturbed, ReportSoFar, StatusPCs
  <2>2. url[natsClient] = config.url
    BY <2>1, QuietIsConfigured DEF AsConfigured
  <2> QED BY <2>1, <2>2 DEF Undisturbed, ReportSoFar, StatusPCs
<1> QED BY <1>1, InductiveInvariant, PTL
=============================================================================

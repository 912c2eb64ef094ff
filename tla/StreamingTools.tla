--------------------------- MODULE StreamingTools ---------------------------
(***************************************************************************)
(* streaming/tools.go: the tools that turn streaming on and off and change *)
(* its configuration, called concurrently by the HTTP server.              *)
(*                                                                         *)
(* StartStreaming, StopStreaming and StreamWorld call one method of the    *)
(* service, which holds the service's lock s.mu.  That lock guards the     *)
(* switch, and not the client: UpdateConfig replaces it without the lock,  *)
(* so starting to stream is a sequence of steps, and so is UpdateConfig,   *)
(* which asks whether the service streams, writes the configuration,       *)
(* stops, closes the old client, makes and installs a new one, connects it *)
(* and starts again.  Status takes the lock for its first read only.  The  *)
(* steps of all calls come between each other, but for those that wait for *)
(* s.mu.  A call s.natsClient.M() is two steps: the field is read, and M   *)
(* is called on what was read, which takes the client's own lock.          *)
(*                                                                         *)
(* The service is the switch of StreamSwitch, a client is its address, its *)
(* stream ID and whether it holds a connection; both have modules of their *)
(* own, as the stream interval has (StreamingService).                     *)
(***************************************************************************)
EXTENDS Integers

CONSTANTS
    Callers,         \* concurrent requests
    Hosts, Ports, StreamIDs,
    None,            \* an argument that was not given
    Unparsable,      \* addresses the client library rejects
    Requests,        \* the arguments of UpdateConfig
    InitialHost, InitialPort, InitialStreamID,
    MaxUpdates       \* bound: calls of UpdateConfig

Address == [host : Hosts, port : Ports]

Request == [url : Address \cup {None}, host : Hosts \cup {None},
            port : Ports \cup {None}, streamID : StreamIDs \cup {None}]

ASSUME RequestsAssumption == Requests \subseteq Request
ASSUME InitialAssumption ==
    InitialHost \in Hosts /\ InitialPort \in Ports /\ InitialStreamID \in StreamIDs
ASSUME UpdatesAssumption == MaxUpdates \in Nat
ASSUME NoneAssumption == None \notin Hosts \cup Ports \cup StreamIDs

\* Client 0 is made with the service, client n by the n-th call of UpdateConfig.
Clients == 0..MaxUpdates

VARIABLES
    active,      \* service.streamingActive
    natsClient,  \* service.natsClient
    config,      \* service.config: host, port, url and streamID
    url,         \* the address of each client
    streamID,    \* its stream ID
    open,        \* the clients that hold a connection
    updates,     \* calls of UpdateConfig so far
    pc,          \* of each caller: where its call of UpdateConfig is
    req,         \* its arguments
    was,         \* wasStreaming
    mine,        \* the client it makes
    call,        \* of each caller: the method of the service it is in, with s.mu held
    target,      \* the client it has read from s.natsClient last
    wanted,      \* history: the last answer about streaming was that it is on
    stopped,     \* history: the last request to start or stop was to stop
    seen,        \* what each call of Status has read so far
    mixed,       \* history: the calls of Status that an update came across
    overlapped   \* history: a tool was called while an update was in progress

clients == <<natsClient, url, streamID, open>>
request == <<updates, req, was, mine>>
locals == <<request, pc, call, target>>
history == <<wanted, stopped>>
vars == <<active, config, clients, locals, history, seen, mixed, overlapped>>

UpdatePCs == {"address", "url", "streamID", "stop", "close", "closing", "make",
              "install", "connect", "connecting", "start"}
ServicePCs == {"ask", "asking", "dial", "dialling", "proceed"}
StatusPCs == {"askConfig", "askConnected", "askingConnected", "askDetail", "askingDetail",
              "report"}
PCs == {"idle"} \cup UpdatePCs \cup ServicePCs \cup StatusPCs

\* StartStreaming, the same for UpdateConfig, and StreamSingleWorld.
Calls == {"start", "resume", "stream"}

Config == [host : Hosts, port : Ports, url : Address, streamID : StreamIDs]

NoRequest == [url |-> None, host |-> None, port |-> None, streamID |-> None]

\* The parts of a report that come from different reads.
Report == [streaming : BOOLEAN, url : Address, connected : BOOLEAN, clientUrl : Address]

ToolsTypeOK ==
    /\ active \in BOOLEAN
    /\ natsClient \in Clients
    /\ config \in Config
    /\ url \in [Clients -> Address]
    /\ streamID \in [Clients -> StreamIDs]
    /\ open \subseteq Clients
    /\ updates \in 0..MaxUpdates
    /\ pc \in [Callers -> PCs]
    /\ req \in [Callers -> Request]
    /\ was \in [Callers -> BOOLEAN]
    /\ mine \in [Callers -> Clients]
    /\ call \in [Callers -> Calls \cup {None}]
    /\ target \in [Callers -> Clients]
    /\ wanted \in BOOLEAN
    /\ stopped \in BOOLEAN

StatusTypeOK == seen \in [Callers -> Report] /\ mixed \subseteq Callers

TypeOK == ToolsTypeOK /\ StatusTypeOK /\ overlapped \in BOOLEAN

InitialAddress == [host |-> InitialHost, port |-> InitialPort]

NoReport == [streaming |-> FALSE, url |-> InitialAddress,
             connected |-> FALSE, clientUrl |-> InitialAddress]

\* NewStreamingService makes the address from host and port.
Init ==
    /\ active = FALSE
    /\ natsClient = 0
    /\ config = [host |-> InitialHost, port |-> InitialPort,
                 url |-> InitialAddress, streamID |-> InitialStreamID]
    /\ url = [k \in Clients |-> InitialAddress]
    /\ streamID = [k \in Clients |-> InitialStreamID]
    /\ open = {}
    /\ updates = 0
    /\ pc = [c \in Callers |-> "idle"]
    /\ req = [c \in Callers |-> NoRequest]
    /\ was = [c \in Callers |-> FALSE]
    /\ mine = [c \in Callers |-> 0]
    /\ call = [c \in Callers |-> None]
    /\ target = [c \in Callers |-> 0]
    /\ wanted = FALSE
    /\ stopped = FALSE
    /\ seen = [c \in Callers |-> NoReport]
    /\ mixed = {}
    /\ overlapped = FALSE

otherClients == <<natsClient, url, streamID>>

Goto(c, where) == pc' = [pc EXCEPT ![c] = where]

\* s.natsClient is read, before one of its methods is called.
ReadClient(c, here, next) ==
    /\ pc[c] = here
    /\ target' = [target EXCEPT ![c] = natsClient]
    /\ Goto(c, next)
    /\ UNCHANGED <<active, config, clients, request, call, history>>

\* Connect() of client k: RetryOnFailedConnect makes it succeed for every address
\* that can be parsed.  A connection that is up is kept, another one replaced.
Connects(k) == url[k] \notin Unparsable /\ open' = open \cup {k}
ConnectFails(k) == url[k] \in Unparsable /\ open' = open \ {k}

\* IsConnected() of client k: a connection may be down.
IsConnected(k, up) == up => k \in open

-----------------------------------------------------------------------------
(* The tools that are one call of the service, which takes s.mu. *)

Free == \A c \in Callers : pc[c] \notin ServicePCs

Enter(c, method) == Goto(c, "ask") /\ call' = [call EXCEPT ![c] = method]
Leave(c) == Goto(c, "idle") /\ call' = [call EXCEPT ![c] = None]

\* A service that streams has nothing to start.
StartStreaming(c) ==
    /\ pc[c] = "idle" /\ Free
    /\ \/ active /\ wanted' = TRUE /\ UNCHANGED <<pc, call>>
       \/ ~active /\ Enter(c, "start") /\ UNCHANGED wanted
    /\ stopped' = FALSE
    /\ UNCHANGED <<active, config, clients, request, target>>

StopStreaming(c) ==
    /\ pc[c] = "idle" /\ Free
    /\ active' = FALSE
    /\ wanted' = FALSE
    /\ stopped' = TRUE
    /\ UNCHANGED <<config, clients, locals>>

StreamWorld(c) ==
    /\ pc[c] = "idle" /\ Free
    /\ Enter(c, "stream")
    /\ UNCHANGED <<active, config, clients, request, target, history>>

\* Whatever the client says, it is not connected anew.
ServiceAskNothing(c) ==
    /\ pc[c] = "asking"
    /\ Goto(c, "proceed")
    /\ UNCHANGED <<active, config, clients, request, call, target, history>>

\* The client that was read first is asked whether it is connected.
ServiceAsk(c) ==
    /\ pc[c] = "asking"
    /\ \E up \in BOOLEAN :
        /\ IsConnected(target[c], up)
        /\ Goto(c, IF up THEN "proceed" ELSE "dial")
    /\ UNCHANGED <<active, config, clients, request, call, target, history>>

\* The one that was read next is connected.  Where that fails the answer says so;
\* that of an update means that the streaming it interrupted is off.
ServiceConnect(c) ==
    /\ pc[c] = "dialling"
    /\ \/ Connects(target[c]) /\ Goto(c, "proceed") /\ UNCHANGED <<call, wanted>>
       \/ ConnectFails(target[c]) /\ Leave(c) /\ wanted' = (wanted /\ call[c] # "resume")
    /\ UNCHANGED <<active, config, otherClients, request, target, stopped>>

\* A start turns the switch on; StreamSingleWorld makes and publishes its moment.
ServiceProceed(c) ==
    /\ pc[c] = "proceed"
    /\ active' = (active \/ call[c] # "stream")
    /\ wanted' = (wanted \/ call[c] = "start")
    /\ Leave(c)
    /\ UNCHANGED <<config, clients, request, target, stopped>>

ServiceTools(c) ==
    \/ StartStreaming(c) \/ StopStreaming(c) \/ StreamWorld(c)
    \/ ReadClient(c, "ask", "asking") \/ ServiceAsk(c)
    \/ ReadClient(c, "dial", "dialling") \/ ServiceConnect(c) \/ ServiceProceed(c)

-----------------------------------------------------------------------------
(* UpdateConfig. *)

\* A new address, given whole or in parts.
NeedNewClient(r) == r.url # None \/ r.host # None \/ r.port # None

Given(argument, old) == IF argument = None THEN old ELSE argument

\* IsStreaming waits for s.mu.
UpdateBegin(c) ==
    /\ pc[c] = "idle" /\ Free
    /\ updates < MaxUpdates
    /\ updates' = updates + 1
    /\ mine' = [mine EXCEPT ![c] = updates + 1]
    /\ \E r \in Requests : req' = [req EXCEPT ![c] = r]
    /\ was' = [was EXCEPT ![c] = active]
    /\ Goto(c, "address")
    /\ UNCHANGED <<active, config, clients, call, target, history>>

\* The whole address, which leaves host and port alone, or host and port.
UpdateAddress(c) ==
    /\ pc[c] = "address"
    /\ \/ /\ req[c].url # None
          /\ config' = [config EXCEPT !.url = req[c].url]
          /\ Goto(c, "streamID")
       \/ /\ req[c].url = None
          /\ config' = [config EXCEPT !.host = Given(req[c].host, @),
                                      !.port = Given(req[c].port, @)]
          /\ Goto(c, IF NeedNewClient(req[c]) THEN "url" ELSE "streamID")
    /\ UNCHANGED <<active, clients, request, call, target, history>>

\* The address again from the host and port of the configuration.
UpdateUrl(c) ==
    /\ pc[c] = "url"
    /\ config' = [config EXCEPT !.url = [host |-> config.host, port |-> config.port]]
    /\ Goto(c, "streamID")
    /\ UNCHANGED <<active, clients, request, call, target, history>>

\* A new stream ID alone does not make a new client.
UpdateStreamIDOnly(c) ==
    /\ pc[c] = "streamID"
    /\ config' = [config EXCEPT !.streamID = Given(req[c].streamID, @)]
    /\ Goto(c, IF NeedNewClient(req[c]) THEN "stop" ELSE "idle")
    /\ UNCHANGED <<active, clients, request, call, target, history>>

UpdateStreamID(c) ==
    /\ pc[c] = "streamID"
    /\ config' = [config EXCEPT !.streamID = Given(req[c].streamID, @)]
    /\ Goto(c, IF NeedNewClient(req[c]) \/ req[c].streamID # None THEN "stop" ELSE "idle")
    /\ UNCHANGED <<active, clients, request, call, target, history>>

\* Only what was streaming is stopped, and for that s.mu is taken.
UpdateStop(c) ==
    /\ pc[c] = "stop"
    /\ was[c] => Free
    /\ active' = (active /\ ~was[c])
    /\ Goto(c, "close")
    /\ UNCHANGED <<config, clients, request, call, target, history>>

\* The old client is left to its connection.
UpdateCloseNothing(c) ==
    /\ pc[c] = "closing"
    /\ Goto(c, "make")
    /\ UNCHANGED <<active, config, clients, request, call, target, history>>

\* The client that was read is closed.
UpdateClose(c) ==
    /\ pc[c] = "closing"
    /\ open' = open \ {target[c]}
    /\ Goto(c, "make")
    /\ UNCHANGED <<active, config, otherClients, request, call, target, history>>

\* NewNATSClientWithStreamID reads the configuration.
UpdateMake(c) ==
    /\ pc[c] = "make"
    /\ url' = [url EXCEPT ![mine[c]] = config.url]
    /\ streamID' = [streamID EXCEPT ![mine[c]] = config.streamID]
    /\ Goto(c, "install")
    /\ UNCHANGED <<active, config, natsClient, open, request, call, target, history>>

UpdateInstall(c) ==
    /\ pc[c] = "install"
    /\ natsClient' = mine[c]
    /\ Goto(c, "connect")
    /\ UNCHANGED <<active, config, url, streamID, open, request, call, target, history>>

\* Only streaming that was stopped needs the connection: the next start makes it.
UpdateConnectIfStreaming(c) ==
    /\ pc[c] = "connecting"
    /\ \/ ~was[c] /\ Goto(c, "idle") /\ UNCHANGED <<open, wanted>>
       \/ was[c] /\ Connects(target[c]) /\ Goto(c, "start") /\ UNCHANGED wanted
       \/ was[c] /\ ConnectFails(target[c]) /\ Goto(c, "idle") /\ wanted' = FALSE
    /\ UNCHANGED <<active, config, otherClients, request, call, target, stopped>>

\* The client that was read is connected, which need not be the one this call made;
\* on an error the call ends, and streaming that was stopped stays so.
UpdateConnect(c) ==
    /\ pc[c] = "connecting"
    /\ \/ /\ Connects(target[c])
          /\ Goto(c, IF was[c] THEN "start" ELSE "idle")
          /\ UNCHANGED wanted
       \/ /\ ConnectFails(target[c])
          /\ Goto(c, "idle")
          /\ wanted' = (wanted /\ ~was[c])
    /\ UNCHANGED <<active, config, otherClients, request, call, target, stopped>>

\* The call returns without starting again.
UpdateForgetStart(c) ==
    /\ pc[c] = "start"
    /\ Goto(c, "idle")
    /\ UNCHANGED <<active, config, clients, request, call, target, history>>

\* StartStreaming again: it takes s.mu, and goes the way of every start.
UpdateStart(c) ==
    /\ pc[c] = "start" /\ Free
    /\ IF active THEN Leave(c) ELSE Enter(c, "resume")
    /\ UNCHANGED <<active, config, clients, request, target, history>>

UpdateConfig(c) ==
    \/ UpdateBegin(c) \/ UpdateAddress(c) \/ UpdateUrl(c) \/ UpdateStreamID(c)
    \/ UpdateStop(c) \/ ReadClient(c, "close", "closing") \/ UpdateClose(c)
    \/ UpdateMake(c) \/ UpdateInstall(c)
    \/ ReadClient(c, "connect", "connecting") \/ UpdateConnect(c) \/ UpdateStart(c)

-----------------------------------------------------------------------------
(* Status. *)

untouched == <<active, config, clients, request, call, target, history>>

\* IsStreaming waits for s.mu.
StatusBegin(c) ==
    /\ pc[c] = "idle" /\ Free
    /\ seen' = [seen EXCEPT ![c].streaming = active]
    /\ Goto(c, "askConfig")
    /\ UNCHANGED untouched

\* The address is put together from host and port.
StatusConfigFromParts(c) ==
    /\ pc[c] = "askConfig"
    /\ seen' = [seen EXCEPT ![c].url = [host |-> config.host, port |-> config.port]]
    /\ Goto(c, "askConnected")
    /\ UNCHANGED untouched

StatusConfig(c) ==
    /\ pc[c] = "askConfig"
    /\ seen' = [seen EXCEPT ![c].url = config.url]
    /\ Goto(c, "askConnected")
    /\ UNCHANGED untouched

StatusConnected(c) ==
    /\ pc[c] = "askingConnected"
    /\ \E up \in BOOLEAN :
        /\ IsConnected(target[c], up)
        /\ seen' = [seen EXCEPT ![c].connected = up]
    /\ Goto(c, "askDetail")
    /\ UNCHANGED untouched

\* GetConnectionStatus of the client that was read by then.
StatusDetail(c) ==
    /\ pc[c] = "askingDetail"
    /\ seen' = [seen EXCEPT ![c].clientUrl = url[target[c]]]
    /\ Goto(c, "report")
    /\ UNCHANGED untouched

StatusReturn(c) ==
    /\ pc[c] = "report"
    /\ seen' = [seen EXCEPT ![c] = NoReport]
    /\ Goto(c, "idle")
    /\ UNCHANGED untouched

StatusReads(c) ==
    /\ \/ ReadClient(c, "askConnected", "askingConnected")
       \/ ReadClient(c, "askDetail", "askingDetail")
    /\ UNCHANGED seen

Status(c) ==
    \/ StatusBegin(c) \/ StatusConfig(c) \/ StatusReads(c) \/ StatusConnected(c)
    \/ StatusDetail(c) \/ StatusReturn(c)

-----------------------------------------------------------------------------
Updating(c) == pc[c] \in UpdatePCs \/ (pc[c] \in ServicePCs /\ call[c] = "resume")

\* An update cannot begin while a start is in progress, since it waits for s.mu: so
\* what comes across an update takes a step while it is in progress.
Write(c) ==
    /\ ServiceTools(c) \/ UpdateConfig(c)
    /\ overlapped' = (overlapped \/ \E d \in Callers \ {c} : Updating(d))
    /\ UNCHANGED seen

Read(c) == Status(c) /\ UNCHANGED overlapped

Next ==
    /\ \E c \in Callers : Write(c) \/ Read(c)
    /\ mixed' = { c \in Callers :
                    pc'[c] \in StatusPCs /\ (c \in mixed \/ \E d \in Callers : Updating(d)') }

Spec == Init /\ [][Next]_vars

-----------------------------------------------------------------------------
(* Properties *)

\* No update is in progress; a start may be.
Quiet == \A c \in Callers : ~Updating(c)

\* As long as no call ever came across an update in progress, the service streams,
\* between updates, just when the last answer said so: an update resumes what it
\* interrupted, a failed one says it did not.
SwitchAsAsked == Quiet /\ ~overlapped => active = wanted

\* Likewise only the installed client holds a connection.
NoStrayConnection == Quiet /\ ~overlapped => open \subseteq {natsClient}

\* Likewise the installed client has the configured address and stream ID.
ClientAsConfigured ==
    Quiet /\ ~overlapped =>
        url[natsClient] = config.url /\ streamID[natsClient] = config.streamID

\* However the steps of starts, stops and updates come between each other, whenever
\* no update is in progress and the service streams, it streams to a client that
\* is connected, if its address allows that at all: also where the client was
\* closed and replaced after a start had found it connected (service.go:116-127
\* next to tools.go:324-332, which does not take s.mu).
ActiveIsConnected ==
    Quiet /\ active => natsClient \in open \/ url[natsClient] \in Unparsable

\* Likewise a report of Status that no update came across fits together, though
\* streaming was started and stopped while it was put together: the address it
\* shows is that of the client it describes, and what it calls connected is a
\* connection to that address.
ReportFits ==
    ~overlapped => \A c \in Callers \ mixed :
        pc[c] = "report" =>
            /\ seen[c].clientUrl = seen[c].url
            /\ seen[c].connected => \E k \in open : url[k] = seen[c].url

\* STREAMING.md:60, "Stops streaming world moments.": once all updates have
\* returned, a stop that was the last word on streaming has stopped it.  The code
\* does not keep this: an update that began before the stop starts again.
StopSticks == Quiet /\ stopped => ~active

-----------------------------------------------------------------------------
(* The inductive invariant behind the properties. *)

\* Some update is on its way to connect the client that is installed by then.
Comes(c) ==
    \/ pc[c] \in {"closing", "make", "install", "connect"}
    \/ pc[c] = "connecting" /\ target[c] = natsClient

\* What every reader of s.natsClient may count on once any client was connected.
ConnectedOrComing ==
    \/ natsClient \in open
    \/ url[natsClient] \in Unparsable
    \/ \E c \in Callers : Comes(c)

\* Nobody streams or has been told that there is a connection, and who is about to
\* ask for one or make one has read the client that is still installed.
NoneProceeds ==
    /\ ~active
    /\ \A c \in Callers :
        /\ pc[c] # "proceed"
        /\ pc[c] \in {"asking", "dialling"} => target[c] = natsClient

ConnectionComes == ConnectedOrComing \/ NoneProceeds

\* The method of the service that a call is in.
CallsNamed == \A c \in Callers : pc[c] \in ServicePCs => call[c] \in Calls

\* Without overlap an update is alone with calls of Status, and where it is says
\* what it has changed so far.
Busy(c) == pc[c] \in UpdatePCs \cup ServicePCs

Alone == \A c, d \in Callers : Updating(c) /\ Busy(d) => c = d

\* Only between the closing of the old client and the connection of the new one
\* does the installed client have none.
ConnectionsSoFar ==
    /\ open \subseteq {natsClient}
    /\ \A k \in open : url[k] \notin Unparsable
    /\ \A c \in Callers :
        /\ pc[c] \in {"make", "install"} => open = {}
        /\ pc[c] \in {"asking", "dialling", "closing", "connecting"} =>
               target[c] = natsClient

AsConfigured == url[natsClient] = config.url /\ streamID[natsClient] = config.streamID

\* The configuration is ahead of the client from the first write to it until the
\* new client is installed.
ConfigSoFar ==
    /\ (\A c \in Callers :
            pc[c] \notin UpdatePCs \ {"address", "connect", "connecting", "start"})
           => AsConfigured
    /\ \A c \in Callers :
        /\ pc[c] = "url" => NeedNewClient(req[c])
        /\ pc[c] = "streamID" => NeedNewClient(req[c]) \/ AsConfigured
        /\ pc[c] = "install" =>
               url[mine[c]] = config.url /\ streamID[mine[c]] = config.streamID

\* An update that found the service streaming has it stopped from its stop to its
\* start.
SwitchSoFar ==
    /\ Quiet => active = wanted
    /\ \A c \in Callers :
        /\ pc[c] \in {"address", "url", "streamID", "stop"} =>
               was[c] = active /\ active = wanted
        /\ pc[c] \in {"close", "closing", "make", "install", "connect", "connecting"} =>
               ~active /\ was[c] = wanted
        /\ Updating(c) /\ pc[c] \in ServicePCs \cup {"start"} => ~active /\ wanted

\* A report in the making that no update came across is about the clients and the
\* configuration as they are.
ReportSoFar ==
    \A c \in Callers \ mixed :
        /\ pc[c] \in StatusPCs => Quiet
        /\ pc[c] \in StatusPCs \ {"askConfig"} => seen[c].url = config.url
        /\ pc[c] \in {"askingConnected", "askingDetail"} => target[c] = natsClient
        /\ pc[c] \in {"askDetail", "askingDetail", "report"} /\ seen[c].connected =>
               natsClient \in open
        /\ pc[c] = "report" => seen[c].clientUrl = url[natsClient]

Undisturbed == Alone /\ ConnectionsSoFar /\ ConfigSoFar /\ SwitchSoFar /\ ReportSoFar

IInv == TypeOK /\ CallsNamed /\ ConnectionComes /\ (~overlapped => Undisturbed)
=============================================================================

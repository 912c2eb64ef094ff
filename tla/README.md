# A verification development of vibespace-mcp-go

The server keeps *worlds* and their *vibes* in memory and streams *moments* of
the worlds to a NATS server, on request or once per interval. The modules here
model the parts of it in which order, concurrency, failure or arithmetic decide
whether it is right; TLC checks them on small instances and TLAPS proves the
main results for every value of the constants.

To check a module: `tlc -config X.cfg M` for the pairs listed under *Runs*; to
check proofs: `tlapm M_proofs.tla`.

## The system

| Part (source) | State | Operations | Talks to |
|---|---|---|---|
| Repository (`repository/repository.go`) | the maps of vibes and worlds, under one read-write lock | get, list, add, update and delete for both; assign and look up a world's vibe | called by the generator and by embedders |
| Moment generator (`streaming/moment_generator.go`) | none | `GenerateMoment`, `GenerateAllMoments`: several repository reads in a row | repository |
| Streaming service (`streaming/service.go`) | `streamingActive`, `stopChan`, the client, the configuration; one goroutine per start | `Start`, `Stop`, `StartStreaming`, `StopStreaming`, `StreamSingleWorld`, `PublishVibeUpdate`; the loop `streamMoments` | generator, client |
| NATS client (`streaming/nats_client.go`) | the connection, its own `connected` flag, counters, the limiter, under `c.mu` | `Connect`, `Close`, `PublishWorldMoment`, `PublishVibeUpdate`, status; handlers called by nats.go | nats.go (external), limiter |
| Rate limiter (same file) | tokens and the time of the last refill | `TryAcquire` | the clock |
| Access control (`streaming/access_control.go`) | none | `CanAccessWorld`, `GetAccessibleContent` | called for every allowed user of a moment |
| Streaming tools (`streaming/tools.go`) | none of their own; they write the service's configuration and replace its client, without a lock | start, stop, status, stream one world, update the configuration | service, client, generator |
| Conversions (`models/models.go`, `models/moment_extensions.go`, `streaming/ternary_utils.go`) | none | decimal, text and packed forms of balanced ternary; base64 and hex payloads | moments, the client (which packs), subscribers (who unpack) |
| Method names (`rpcmethods/`) | a constant registry | rewrite the name of a request, add suggestions to "method not found", make requests | called by the HTTP handler; calls mcp-go (external) |
| Entry point (`cmd/server/main.go`) | none | sample data, registration of the five streaming tools, HTTP | everything |
| Example subscriber (`examples/nats_subscriber.go`) | its subscriptions | receives and prints | the NATS server |

`net/http` serves every request in a goroutine of its own, so tool calls overlap.
In `cmd/server` nothing writes the repository after start-up, because only the
streaming tools are registered; its writers are the users of the packages, for
whom the repository takes its lock.

What is hard here, and where it bites, is listed line by line in `PROJECT.json`
("hazards"). In short: the streaming goroutine reads a field the methods replace;
handlers of a closed connection write the flag of its successor; `UpdateConfig` is
a sequence of steps that other calls come between, a start is one, too, since the
client may be replaced while it holds the lock; a moment is put together from two
reads; a publication can stop in the middle of its messages; the limiter rounds;
the conversions of numbers leave the range of their type; a status request waits
for the network under the lock of every publication, or is put together from five
reads; method names are rewritten before they are looked up.

What makes each part correct:

* repository: a world never names a vibe that is gone;
* generator: every world that stays gets one moment, and the moment of a world
  left alone agrees with itself;
* service: it behaves like a switch (streaming starts with it, never dies while
  it is on, ends after it is turned off for good) and never closes a channel
  twice;
* client: no call reaches a nil connection, none is leaked, one publication
  goes to one connection, the flag ends up telling the truth;
* limiter: never more grants than burst and rate, and never less than half the rate;
* publication: nobody sees more than the settings allow, the subscribers of
  everybody entitled are reached, those of others are not, and a moment keeps its
  creator;
* conversions: what a subscriber unpacks and reads is what was attached;
* tools: what they answer is how they leave the service, what they report fits
  together, and a service that streams streams to a connected client;
* method names: all spellings of a name mean one method, a suggested name is
  understood, and nothing is carried out that was not asked for.

## Modules

| Module | Models | State and actions |
|---|---|---|
| `StreamSwitch` | what a caller may expect of the service | `active`, `running`; turn on, turn off, last exit |
| `TokenBucket` | what may be relied on of the limiter's grants | an exact bucket that time fills and an acquisition empties by one |
| `Delivery` | what a publisher may expect of a publication | an audience fixed at the start, who was reached; begin, reach, finish, fail |
| `StreamingService` | the service and its goroutines | one action per method (each holds `s.mu`), four steps per turn of a goroutine: evaluate the select, tick or stop, publish; the interval in wrapping arithmetic |
| `NATSClient` | the client | `Connect`, `Close` and each handler call are one action; a publication checks, prepares, locks and sends in steps; a status request is two actions, with the lock held in between while the server answers or does not; a connection is a status and the handler calls nats.go has still to make |
| `RateLimiter` | the token bucket, to the millisecond | `TryAcquire`, the clock, and history variables: an observed window, and exact buckets of the whole rate and of half of it |
| `Repository` | the two maps | one action per write; an error is the stuttering step |
| `MomentGenerator` | the generator, on top of `Repository` | a call read by read, with any repository write in between |
| `AccessControl` | the two functions | a moment's content is the set of parts that context levels tell apart |
| `Publishing` | a moment's way to its subscribers, on top of `AccessControl` | four ways in and the request that is refused, preparation, messages, sending one by one, an error anywhere; what the example subscriber receives of it (`Subscribed`, `Received`); `asked` remembers the settings of the world or the request |
| `BalancedTernary` | ternary data from being attached to being read | `FromDecimal` and `ToDecimal` turn by turn, in arithmetic that wraps; texts and trits; packing and unpacking as operators; history variables for the exact worth of the digits |
| `StreamingTools` | the tools, called concurrently | a start, alone or at the end of an update, and the streaming of one world read the client, ask it, read it again, connect it and proceed, with `s.mu` held (`ServicePCs`, `Free`); `UpdateConfig` is twelve actions, which take `s.mu` only to begin, to stop and to start, and `Status` seven; reading `s.natsClient` (`ReadClient`) and calling the client that was read are two steps |
| `MethodNames` | the wrapper around mcp-go | a name is a sequence of words and separators; a client sends, is answered and follows suggestions; the HTTP handler's refusals; what the server accepts is a constant |

`MC*` modules give constants their values. `*_proofs` modules hold the theorems.
`MomentGenerator` EXTENDS `Repository` and `Publishing` EXTENDS `AccessControl`
because they call them. Three modules are shown to implement an abstract one:
`StreamingService` is related to `StreamSwitch` by the mapping
`active <- streamingActive`, `running <- some goroutine is alive`;
`RateLimiter` to `TokenBucket` by its history variable `level`, which the exact
bucket would hold and the tokens never exceed; `Publishing` to `Delivery` by
`audience <- those whom CanAccessWorld admits`, `reached <- those whose subscriber
received a message`.
`StreamingTools` uses the service as the switch it was shown to be, and a client
as an address, a stream ID and whether it holds a connection; the inner
workings of both are in their own modules. Definitions whose names say what a
bug would be (`StartStreamingAgain`, `DeleteUsedVibe`, `HiddenWithoutBinary`...)
are variants of the action or operator that follows them; no specification
uses them, and each shows that a property notices the bug.

External code is modelled as the source uses it: nats.go (a connection is lost
and restored at any time, handler calls of one connection are made one by one
in order and as late as it likes, publishing while reconnecting buffers or
fails; a round trip ends after ten seconds at the latest), the monotonic clock, and
mcp-go, which knows some names and answers "method not found" to the others. World and
user IDs are single tokens of a subject. Fields that are read and written without a
common lock (`s.config`, `s.natsClient`) are read and written whole, one string or
interface at a time: what a torn read would do is not modelled.

## Runs

| Run | Configuration | What it shows | Bounds |
|---|---|---|---|
| `service_safety` | `MCStreamingService`, `StreamingService_safety.cfg` | no double close; none ends before its own channel is closed; a ticker panics only for a request that wraps | three starts, so that a straggler can watch its own channel, the next and the one after; durations of 8 bits |
| `service_switch` | `StreamingService_live.cfg` | the service implements `StreamSwitch`, liveness included; an active service keeps ticking | three starts, two moments per tick, AutoStart |
| `service_signalled` | `StreamingService_signalled.cfg` | **violated**: a goroutine whose channel was closed need not end | two starts |
| `client_handlers` | `MCNATSClient`, `NATSClient_handlers.cfg` | no nil call, no leak, one connection per publication, counters in order, the flag settles and is right when it is up, `Close` is final, no handler waits for ever | two publishers, one status request at a time, two connections (one replaced), two losses |
| `client_status` | `NATSClient_status.cfg` | **violated**: a connection that is up is reported as down for good | one publisher, two connections, one loss |
| `limiter_bounds` | `RateLimiter`, `RateLimiter_bounds.cfg` | the grants are those of an exact bucket; the window bound; never less than half the rate. A grant is one publication, of one message or several | burst 4, 2 per 3 ms, 16 ms: five refills and every phase of an interval |
| `moment_calls` | `MCRepository`, `MomentGenerator_calls.cfg` | referential integrity under any sequence of writes; the moment of a calm world is a snapshot of the repository at the second read; no steady world is missed or served twice | two worlds, three vibe IDs, the empty one among them |
| `publishing_audience` | `Publishing`, `Publishing_audience.cfg` | who receives what, in every way in and for every point of failure, as a `Delivery`; settings as closed as they were asked for | three users: the system, a creator and another, so an allowed user can be any of them, and the empty ID of a malformed list; every sharing setting, with a level nobody defined, and every content |
| `ternary_conversions` | `BalancedTernary`, `BalancedTernary_conversions.cfg` | every number arrives but the three that overflow, which never do; every trit and every text too (the texts in `IInv`) | integers of 8 bits, where as with 64 the range ends at an odd power of two, so that the same three numbers fail; up to five trits or characters, more than a byte holds |
| `tools_calls` | `MCStreamingTools`, `StreamingTools_calls.cfg` | without overlap the answers are true, no connection strays, the client is the configured one and reports fit together; with any overlap, a client that is closed and replaced between the check of a start and its end included, an active service has a connected client once no update is in progress | two callers, alike and so a symmetry set, two updates (so they can overlap, or follow one another, or one overlap a start), five kinds of request, an address that fails |
| `tools_stop` | `StreamingTools_stop.cfg` | **violated**: a stop is undone by an update that began before it | the same |
| `method_session` | `MCMethodNames`, `MethodNames_session.cfg` | spellings agree, suggestions settle, no method is carried out but the one named, with dots or slashes, with or without one prefix | every name of up to three words out of eighteen, those of the tests, some that contain them by chance and some that are fragments of them, with dots or slashes, and five names that are no words |

Deadlock is checked except where the system stops by nature: a process that
panicked (`service_safety`), the end of modelled time (the limiter) and the end
of a call (`Publishing`) or of the reading (`BalancedTernary`).

*Fairness.* Only liveness needs it. Goroutines that can run do, tickers fire, and
a `select` with both channels ready chooses at random, so a closed channel cannot
lose for ever: weak fairness of the steps and strong fairness of `LoopStop`.
nats.go makes the handler calls it has queued; they wait for a mutex that
publishers take again and again, which `sync.Mutex` hands over in order after a
millisecond of waiting: strong fairness of `RunHandler`, weak fairness of a
publisher that holds the lock, and of a status request that holds it, because a
round trip to the server has a time limit in nats.go. Callers and the network owe
nothing.

## Proofs

Every theorem is for all values of the constants, under the named assumptions
of the modules (bounds are naturals, requests are requests, the sample data is
consistent, the user "system" is a user, ...). Each follows from an inductive
invariant `IInv`, which the runs check as well:

* `StreamingService_proofs`: exactly the channels of finished rounds are closed,
  goroutine n watches channel n or a later one, and only a goroutine whose channel
  is closed is done. The invariant is needed because neither "no double close" nor
  "an active service has a goroutine" says anything about channels. Results: no
  double close, panics only after wrapping, an active service has a goroutine,
  none ends early, each step is a step or a stutter of `StreamSwitch`. Two more
  say how far a stop reaches in spite of the race: at most one goroutine has not
  been told to stop, and in a stopped service every select waits for a closed
  channel; `SignalledLoopStops` fails only because the service may be started
  again before the goroutine gets to its select.
* `NATSClient_proofs`: connections are numbered in order and only the newest is
  open; the flag will be right once the queued calls of the newest are made; the
  lock is held exactly by who is sending or asking for the status; the calls
  queued for a connection alternate between losses and returns, so that the
  returns still owed are covered by losses already counted, and the last of them
  fits the status of the connection, so that nobody but the connection that is up
  can raise the flag last. Results: nil safety, no leak, one connection per
  publication, the settled flag, the order of the counters. `UpIsTrue` bounds the
  defect that `StatusTruth` shows: a settled flag may be down over a connection
  that is up, but never up over one that is not. It gives the safety half of
  `CloseIsFinal`, and with it goes that nothing is sent from `Close` to the next
  `Connect`.
* `RateLimiter_proofs`: conservation of tokens, over the life and inside a window,
  and against the exact bucket, which has, unless it is full, all the code's
  tokens and what has flowed since the last refill; so whatever `TryAcquire`
  grants `TokenBucket` grants too (grants, not messages); a refill that counts k
  intervals comes less than 2k intervals after the one before, because the part it
  drops is less than one and k is at least one. The arithmetic of `\div` is in
  lemmas of its own. Results: the refinement, two upper bounds, and half the rate
  as a lower one.
* `MomentGenerator_proofs`: integrity of the references, the whereabouts of every
  steady world, what was read of a still one. Results: integrity, completeness,
  and that the moment of a calm world is coherent and, as an action property, a
  snapshot when it is made.
* `Publishing_proofs`: what was sent and what is pending are together exactly
  the messages of the moment, and its settings are as closed as those asked for
  (`AsClosed`): the defaults differ from them only where nobody but the creator has
  access. Results: audience, attribution, settings, that a call without error has
  reached just those whom `CanAccessWorld` lets see the moment, and each step is a
  step or a stutter of `Delivery`. About the filter itself: tightening settings
  shows nobody anything new, and filtering twice is filtering once.
* `BalancedTernary_proofs`: the digits found and what is left of the number make
  up the number, and every turn of `ToDecimal` agrees with the exact sum modulo
  the range of the type, so that a sum that leaves the range and comes back is
  right in the end. Lemmas of their own: wrapping and congruence, and that a byte
  gives back its four parts. `Half % 3 = 2`, the assumption, is true of every odd
  power of two, 2^63 among them. Results: a number arrives if and only if it is
  none of the three, trits and texts arrive. For the "only if" the invariant says
  that `FromDecimal` finds at most one digit of a number it loses (`TooLarge`).
* `StreamingTools_proofs`: as long as the installed client lacks its connection and
  the service streams, or some start has passed its check, an update is on its way
  to connect (`ConnectedOrComing`, `NoneProceeds`). The second half is needed
  because a start holds `s.mu` and an update acts without it: it may close and
  replace the client after the start was told that it is connected. What saves the
  code is that every update that replaces a client connects the one it finds
  afterwards, streaming or not. And as long as no call has come across an update,
  the place where the one update in progress stands says what it has changed of
  the switch, the configuration and the connections (`Undisturbed`). Results: an
  active service has a connected client after any overlap of any number of calls;
  without overlap, the four properties of answers, connections, configuration
  and reports.
* `MethodNames_proofs`: what the phases of a request know of it. The work is in
  lemmas about names: a standard name is left as it is and suggests only itself,
  and dots, slashes and a prefix are rewritten alike. Results: the three
  properties; what they leave of the server, which is methods without a slash and
  without the words (`ReachesOnlyPlain`); and that one pass of rewriting is enough
  unless a second prefix is left. `AnsweredAsAsked` and `ReachesOnlyPlain` rest on
  `AcceptedAssumption`: the server does not know the two names the wrapper
  rewrites to, as is the case for mcp-go. With a server that knew them, a request
  for `readback.resources` would be carried out as a resource read.

Checked by TLC only: liveness (`ActiveKeepsTicking`, `CloseIsFinal`,
`HandlersRun`, the fairness half of `ImplementsSwitch`), because temporal
reasoning with ENABLED is beyond the prover. Every safety property of the
passing runs is a theorem. `OneOpenConnection`, `SameConnection`, `UpIsTrue`,
`CalmMomentsAgree`, `Attributed` and `TextArrives` are theorems too
and conjuncts of an `IInv`, which is how the runs check them. The rest are
theorems that follow from what the runs check: `ActiveHasLoop`, `OnlyNewestUntold`
and `StopReachesAll` from the rounds in the service's `IInv`, `CloseSettles` and
`NothingSentAfterClose` from `UpInv`, `LifetimeBound` from `TokenBucket`,
`EveryoneServed` from `MessagesAccounted`, `ReachesOnlyPlain` from `Rewritten` and
`Answered`.

## Where the code differs from what is said of it

Shown by runs, with the counterexample:

1. `service.go:189`: the loop re-reads `s.stopChan` at every turn; a goroutine
   that publishes while its channel is closed and replaced goes on for ever.
2. `nats_client.go:171-176`: the closed handler of a replaced connection clears
   the flag of the new one; nothing raises it again until a reconnection.
3. `tools.go:283-347`: `UpdateConfig` restarts what `StopStreaming` stopped.

Seen while modelling, without a run of their own:

* a refill forgets the part of an interval that had passed (`nats_client.go:62`),
  so that a client that stays below the sustained rate of STREAMING.md:319 comes
  to be refused; `HalfRateKept` says that it cannot lose more than half;
* the limiter counts publications, while STREAMING.md:318-319 speaks of a "burst
  capacity of 100 messages" and of "10 messages per second", and
  `nats_client.go:90-91` likewise: one grant (`nats_client.go:285`) lets a moment
  out to the subject of its world and to that of each allowed user, one message
  each (`nats_client.go:335-340`). `ImplementsBucket`, `WindowBound` and
  `LifetimeBound` bound grants, and nothing bounds the messages;
* STREAMING.md:301-302 shows a connection status with `"reconnectCount": 2` and
  `"disconnectCount": 1`; by `ReconnectsFollowDisconnects` there is no such status,
  because nats.go calls the handlers of a connection in order, so that a return is
  counted only after the loss it repairs;
* every name with the words of a standard name in it is rewritten to that name,
  MCP's own `resources/read` and `tools/call` included, and all slashes become
  dots; mcp-go knows neither, so that over HTTP no tool can be called, though
  ARCHITECTURE_IMPROVEMENTS.md:57 says "Common method name variants work
  automatically". The refusal then suggests the very name it was rewritten to;
* the rewriting is not idempotent: `mcp.mcp.x` loses one prefix each time, and
  `NormalizedOnce` says that this is the only case;
* STREAMING.md:77 calls `streaming_status` as a method, but `cmd/server`
  registers it as a tool only;
* `Status` calls a round trip of 25 ms good and one of 1.5 ms only fair, because
  it looks at the first digit (`tools.go:133-142`, which says "1-9ms" of the
  former); with overlapping calls it mixes states of the service: `ReportFits`
  excludes them. It reads the connection twice, so its two answers may differ;
* a context level other than the three takes nothing away
  (`access_control.go:53`), and a "sharing" argument that is no object counts as
  none (`main.go:145`);
* an allowed user that is no string becomes "" (`main.go:156`), who gets a
  subject to which nobody can subscribe;
* the subscriber's branch for messages to a user (`nats_subscriber.go:68`) is
  never taken, because the `*` of its subscription matches one token;
* an allowed user of a public moment gets it twice, filtered and whole;
* `StreamWorld` with settings of its own publishes without connecting the client
  first, unlike `StreamSingleWorld`;
* the default of `service.go:175-182`, "By default, system-generated moments are
  public with partial context", is never applied, because `GenerateMoment` has
  already filled in private settings (`moment_generator.go:48-53`);
* `FromDecimal` loses three numbers (`models.go:185,201`): the smallest, which
  becomes no digits at all, and the two of magnitude 2^63-3, which become one
  digit: by `NumberArrives` all others arrive (`Convertible`), and these never do;
* the example of README.md:351 unpacks `bytes.length * 4` trits: when the last
  byte is not full, what it holds beyond the data reads as -1, so `NumberArrives`
  is about a subscriber who knows the number of trits;
* a new interval never reaches the running ticker (`service.go:152`), though
  STREAMING.md:464 says it can be modified at runtime;
* `GenerateMoment` can mix the ID of one vibe with the contents of another
  (`moment_generator.go:24,31`), though STREAMING.md:7 speaks of a snapshot:
  `CalmMomentsAreSnapshots` is only about worlds that did not change meanwhile;
* the subject of a public world carries the unfiltered moment whatever its
  level (`nats_client.go:244`), though STREAMING.md:269 says what non-creators
  see is filtered: `OnlyAccessible` is about the subjects of users;
* `PublishVibeUpdate` does not look at a vibe's settings, though STREAMING.md:25
  says its subject is "only for public vibes";
* a port given after a whole URL goes back to the host from before it
  (`tools.go:303`), and an update that overlaps another call may leave a
  connection nobody closes (`tools.go:324-327`): `NoStrayConnection` and
  `ClientAsConfigured` hold only without overlap;
* a vibe may have the ID "", which then cannot be deleted while any world has no
  vibe, and `GetWorldVibe` does not return it.

## Not modelled

* Timestamps, the activity figure and the viewers of a moment, logging, and the
  wording of answers: no step depends on them.
* Encoding as JSON, and the decoding of tool arguments in `cmd/server`
  (`main.go:60-227`): every request that decoding can produce is an input of
  `StreamingTools`, `StreamingService` (intervals) or `Publishing` (settings), the
  results of malformed arguments included.
* Binary payloads: base64 and hex are those of Go's library, and the code only
  chooses between them.
* What the subscriber prints; mcp-go and nats.go beyond what is said above; the
  test doubles, which are no part of the program.

Three hazards in `PROJECT.json` have no property, because the code has no behaviour
that could keep or break one: the interval of a running ticker (`service.go:152`),
the settings of a vibe that nobody reads (`nats_client.go:399`), and the names that
contain the words by chance (`server_wrapper.go:81`), of which mcp-go knows none.
They are described above.

## Plan

Written, in this order, because the goroutine and the connection carry the
hardest behaviour and everything else is read through them: `StreamSwitch`,
`StreamingService`, `NATSClient`, `RateLimiter`, `Repository`,
`MomentGenerator`, `AccessControl`, `Publishing`, `StreamingTools`,
`BalancedTernary`, `MethodNames`, and then the abstract `TokenBucket` and
`Delivery`. What could follow:

1. the interval in `StreamingTools` as well, with the stale ticker of
   `service.go:152` against STREAMING.md:464;
2. the calls of `PublishVibeUpdate` and `Stop` next to an update;
3. the arguments of the tools before they are decoded;
4. an abstract client, with `UpIsTrue` and `NothingSentAfterClose` as its promises,
   and the tools shown to use it as they do;
5. what is left of `SwitchAsAsked` and `NoStrayConnection` when calls do overlap:
   so far only `ActiveIsConnected` holds of every overlap.

----------------------------- MODULE Publishing -----------------------------
(***************************************************************************)
(* How a moment gets from a world to the subscribers: the ways in (the     *)
(* ticker of streamMoments, StreamSingleWorld, the tool StreamWorld with   *)
(* its own sharing settings, a direct call of PublishWorldMoment), the     *)
(* preparation and the messages of NATSClient.PublishWorldMoment, and the  *)
(* sending of them one by one in the random order of a Go map, and who     *)
(* receives them (examples/nats_subscriber.go).                            *)
(*                                                                         *)
(* Calls share nothing but the connection, which each holds (c.mu) while   *)
(* it sends, so a behaviour is one call, from "ready" to "returned".  The  *)
(* connection and the rate limiter have modules of their own; here a call  *)
(* may be refused and any single publication may fail.                     *)
(***************************************************************************)
EXTENDS AccessControl

CONSTANT System   \* the user ID "system"

ASSUME SystemAssumption == System \in Users /\ NoUser \notin Users

VARIABLES
    pc,        \* where the call is
    flow,      \* history: its way in
    owner,     \* history: the creator of its world
    asked,     \* history: the settings of its world, or of the request
    moment,    \* the moment as it was prepared
    pending,   \* the messages of subjectData still to send
    sent,      \* history: the messages that were sent
    outcome    \* what the call returned

vars == <<pc, flow, owner, asked, moment, pending, sent, outcome>>

\* A message: a user's own subject, the subject of the world, or the subject of
\* the world's vibe, with what it carries.
UserMessage(user, m) == [kind |-> "user", user |-> user, content |-> m.content]
WorldMessage(m) == [kind |-> "world", user |-> NoUser, content |-> m.content]
VibeMessage == [kind |-> "vibe", user |-> NoUser, content |-> {"vibeSensors"}]

Flows == {"none", "tick", "single", "custom", "direct", "vibe"}

Private == [IsPublic |-> FALSE, AllowedUsers |-> {}, ContextLevel |-> "partial"]
Public == [Private EXCEPT !.IsPublic = TRUE]

TypeOK ==
    /\ pc \in {"ready", "sending", "returned"}
    /\ flow \in Flows
    /\ owner \in Users \cup {NoUser}
    /\ asked \in Sharing
    /\ moment \in Moment
    /\ outcome \in {"none", "ok", "refused", "failed"}

Init ==
    /\ pc = "ready"
    /\ flow = "none"
    /\ owner = NoUser
    /\ asked = Private
    /\ moment = [CreatorID |-> NoUser, Sharing |-> Private, content |-> {}]
    /\ pending = {}
    /\ sent = {}
    /\ outcome = "none"

-----------------------------------------------------------------------------
(* Preparation. *)

CreatorOr(m, user) ==
    [m EXCEPT !.CreatorID = IF @ = NoUser THEN user ELSE @]

\* Balanced ternary data is added again in packed form when there is no other
\* binary data.
Packed(m) ==
    IF "ternary" \in m.content /\ {"opaqueBinary", "otherBinary"} \cap m.content = {}
    THEN [m EXCEPT !.content = @ \cup {"otherBinary"}]
    ELSE m

Prepared(m, user) == Packed(CreatorOr(m, user))

\* createMomentSubjects: the subjects and what is published on each.
Messages(m) ==
    (IF m.Sharing.IsPublic THEN {WorldMessage(m)} ELSE {})
    \cup { UserMessage(m.CreatorID, m) }
    \cup UNION { { UserMessage(u, x) : x \in GetAccessibleContent(u, m) } :
                    u \in m.Sharing.AllowedUsers \ {m.CreatorID} }

\* PublishWorldMoment(m, user): refused for want of a connection, of a token or
\* of a world ID, or on to the sending.
PublishWorldMoment(m, user) ==
    /\ moment' = Prepared(m, user)
    /\ sent' = {}
    /\ \/ pc' = "returned" /\ outcome' = "refused" /\ pending' = {}
       \/ pc' = "sending" /\ outcome' = "none" /\ pending' = Messages(moment')

-----------------------------------------------------------------------------
(* The ways in. *)

\* The world's settings as they are, those that say nothing included.
InheritedAlways(sharing) == sharing

\* GenerateMoment: settings that name or invite somebody are inherited, all
\* others replaced by the private ones.
Inherited(sharing) ==
    IF sharing.AllowedUsers # {} \/ sharing.IsPublic THEN sharing ELSE Private

Generated(creator, sharing, content) ==
    [CreatorID |-> creator, Sharing |-> Inherited(sharing), content |-> content]

\* No settings at all: private, nobody named and no context level.
NoSettings(sharing) ==
    ~sharing.IsPublic /\ sharing.AllowedUsers = {} /\ sharing.ContextLevel = ""

WithDefault(m, default) ==
    IF NoSettings(m.Sharing) THEN [m EXCEPT !.Sharing = default] ELSE m

\* Without the fallback to "system".
TickPublishAnonymous(m) ==
    /\ flow' = "tick"
    /\ PublishWorldMoment(WithDefault(m, Public), m.CreatorID)

\* streamMoments, for one of the generated moments.
TickPublish(m) ==
    /\ flow' = "tick"
    /\ PublishWorldMoment(WithDefault(m, Public),
                          IF m.CreatorID = NoUser THEN System ELSE m.CreatorID)

\* The requester always becomes the creator.
StreamSingleWorldClaimed(m, user) ==
    /\ flow' = "single"
    /\ PublishWorldMoment(WithDefault([m EXCEPT !.CreatorID = user], Private), user)

StreamSingleWorld(m, user) ==
    /\ flow' = "single"
    /\ PublishWorldMoment(WithDefault(CreatorOr(m, user), Private), user)

\* StreamWorld with settings of its own: the user becomes the creator.
StreamWorldShared(m, user, sharing) ==
    /\ flow' = "custom"
    /\ asked' = sharing
    /\ PublishWorldMoment(
           [m EXCEPT !.CreatorID = user,
                     !.Sharing = [sharing EXCEPT !.ContextLevel =
                                     IF @ = "" THEN "partial" ELSE @]],
           user)

\* A request that names no user, or a user who is no string, is refused.
StreamWorldUnnamed ==
    /\ pc = "ready"
    /\ pc' = "returned"
    /\ outcome' = "refused"
    /\ UNCHANGED <<flow, owner, asked, moment, pending, sent>>

\* A world's moment is made and published; the request of a tool names a user.
StreamWorld ==
    /\ pc = "ready"
    /\ \E creator \in Users \cup {NoUser}, sharing \in Sharing,
          content \in SUBSET {"vibeSensors"} :
        /\ owner' = creator
        /\ LET m == Generated(creator, sharing, content)
           IN  \/ /\ asked' = sharing
                  /\ TickPublish(m) \/ \E user \in Users : StreamSingleWorld(m, user)
               \/ \E user \in Users, own \in Sharing : StreamWorldShared(m, user, own)

\* The exported PublishWorldMoment, with any moment and any user.
PublishDirectly ==
    /\ pc = "ready"
    /\ \E m \in Moment, user \in Users \cup {NoUser} :
        /\ flow' = "direct"
        /\ owner' = m.CreatorID
        /\ asked' = m.Sharing
        /\ PublishWorldMoment(m, user)

\* PublishVibeUpdate: one message, whatever the sharing of the vibe.
PublishVibeUpdate ==
    /\ pc = "ready"
    /\ flow' = "vibe"
    /\ \/ outcome' = "ok" /\ sent' = {VibeMessage}
       \/ outcome' \in {"refused", "failed"} /\ sent' = {}
    /\ pc' = "returned"
    /\ UNCHANGED <<owner, asked, moment, pending>>

-----------------------------------------------------------------------------
(* Sending. *)

Send ==
    /\ pc = "sending"
    /\ \E message \in pending :
        /\ sent' = sent \cup {message}
        /\ pending' = pending \ {message}
    /\ UNCHANGED <<pc, flow, owner, asked, moment, outcome>>

\* An error of conn.Publish ends the call; what was sent stays sent.
SendFails ==
    /\ pc = "sending"
    /\ pending # {}
    /\ pc' = "returned"
    /\ outcome' = "failed"
    /\ pending' = {}
    /\ UNCHANGED <<flow, owner, asked, moment, sent>>

Sent ==
    /\ pc = "sending"
    /\ pending = {}
    /\ pc' = "returned"
    /\ outcome' = "ok"
    /\ UNCHANGED <<flow, owner, asked, moment, pending, sent>>

Next ==
    \/ StreamWorld \/ StreamWorldUnnamed \/ PublishDirectly \/ PublishVibeUpdate
    \/ Send \/ SendFails \/ Sent

Spec == Init /\ [][Next]_vars

-----------------------------------------------------------------------------
(* The example subscriber, run for a user or, with NoUser, for nobody. *)

\* world.moment.* and world.vibe.*, where "*" stands for one token and so for a
\* world but not for a world and its user, and world.moment.*.user.<user>.
Subscribed(user, msg) ==
    \/ msg.kind \in {"world", "vibe"}
    \/ msg.kind = "user" /\ user # NoUser /\ msg.user = user

Received(user) == { msg \in sent : Subscribed(user, msg) }

-----------------------------------------------------------------------------
(* Properties *)

\* Whatever the way in and wherever sending stops, a message on a user's own
\* subject went to the creator or to a user named in the settings, and shows
\* that user no more than the level of the settings: nothing at "none", neither
\* custom data nor opaque binaries at "partial".  Packing ternary data into
\* binary data must not reopen what the level closes.
OnlyAccessible ==
    \A msg \in sent :
        msg.kind = "user" /\ msg.user # moment.CreatorID =>
            /\ msg.user \in moment.Sharing.AllowedUsers
            /\ moment.Sharing.ContextLevel = "none" => msg.content = {}
            /\ moment.Sharing.ContextLevel = "partial" =>
                   {"customData", "opaqueBinary"} \cap msg.content = {}

\* A call that returns without an error has served everybody and nobody else: the
\* subscriber of a user receives something of the moment just when
\* CanAccessWorld lets that user see it, the creator's the whole moment, and one
\* that runs for nobody just when the moment is public.
EveryoneServed ==
    outcome = "ok" /\ flow # "vibe" =>
        /\ \A u \in Users : Received(u) # {} <=> CanAccessWorld(u, moment)
        /\ UserMessage(moment.CreatorID, moment) \in sent
        /\ Received(NoUser) # {} <=> moment.Sharing.IsPublic

\* Through every stage that may replace the settings (GenerateMoment, the defaults
\* of streamMoments and of StreamSingleWorld, the level of StreamWorld) a moment
\* stays as closed as its world, or the request, asked: the same users may see it,
\* and none of them sees more.
SharedAsAsked ==
    LET faithful == [moment EXCEPT !.Sharing = asked]
    IN  \A u \in Users :
            /\ CanAccessWorld(u, moment) <=> CanAccessWorld(u, faithful)
            /\ \A x \in GetAccessibleContent(u, moment),
                  y \in GetAccessibleContent(u, faithful) : x.content \subseteq y.content

\* Publishing implements Delivery: who receives something is settled when the
\* messages are made, and whatever the order of sending and wherever it stops,
\* nobody else receives anything.
Audience == { u \in Users : CanAccessWorld(u, moment) }
            \cup (IF moment.Sharing.IsPublic THEN {NoUser} ELSE {})

Begun == flow \notin {"none", "vibe"}

Delivered == INSTANCE Delivery WITH
    Readers <- Users \cup {NoUser},
    stage <- CASE ~Begun -> "idle"
               [] Begun /\ pc = "sending" -> "sending"
               [] Begun /\ pc # "sending" -> IF outcome = "ok" THEN "done" ELSE "failed",
    audience <- IF Begun /\ outcome # "refused" THEN Audience ELSE {},
    reached <- IF Begun THEN { u \in Users \cup {NoUser} : Received(u) # {} } ELSE {}

ImplementsDelivery == Delivered!Spec

\* Streaming a world never loses its creator and never publishes a moment
\* without one (STREAMING.md:263); only a request with settings of its own puts
\* the requester in the creator's place.
Attributed ==
    /\ flow \in {"tick", "single", "custom"} => moment.CreatorID # NoUser
    /\ flow \in {"tick", "single"} /\ owner # NoUser => moment.CreatorID = owner

-----------------------------------------------------------------------------
(* The inductive invariant behind them. *)

\* What was sent and what is to be sent are the messages of the moment, all of
\* them unless the sending failed.
MessagesAccounted ==
    IF flow = "vibe" THEN \A msg \in sent : msg.kind = "vibe"
    ELSE /\ sent \cup pending \subseteq Messages(moment)
         /\ pc = "sending" \/ outcome = "ok" => sent \cup pending = Messages(moment)
         /\ outcome = "ok" => pending = {}

SendingAMoment ==
    /\ pc = "ready" => flow = "none"
    /\ pc = "sending" => Begun /\ outcome = "none"
    /\ pc # "sending" => pending = {}

\* Settings s let the same users see a moment as settings a, and hide no less from
\* them.
AsClosed(s, a) ==
    /\ s.IsPublic = a.IsPublic
    /\ s.AllowedUsers = a.AllowedUsers
    /\ a.IsPublic \/ a.AllowedUsers # {} =>
           Hidden(a.ContextLevel) \subseteq Hidden(s.ContextLevel)

SettingsKept == AsClosed(moment.Sharing, asked)

IInv == TypeOK /\ MessagesAccounted /\ SendingAMoment /\ SettingsKept /\ Attributed
=============================================================================

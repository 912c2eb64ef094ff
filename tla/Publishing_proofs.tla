-------------------------- MODULE Publishing_proofs --------------------------
(***************************************************************************)
(* Proofs about who receives what, for every set of users.                 *)
(***************************************************************************)
EXTENDS Publishing, TLAPS

-----------------------------------------------------------------------------
(* The filter. *)

LEMMA HiddenParts ==
    /\ Hidden("none") = Parts
    /\ Hidden("partial") = {"customData", "opaqueBinary"}
BY DEF Hidden

\* What a level takes away leaves the content of a moment.
LEMMA FilteredContents ==
    ASSUME NEW c \in Contents, NEW h
    PROVE  c \ h \in Contents
BY DEF Contents

\* A user with access gets a moment with the same settings, and one without the
\* parts that are hidden unless it is the creator.
LEMMA AccessibleContent ==
    ASSUME NEW m, NEW u, NEW x \in GetAccessibleContent(u, m), u # m.CreatorID
    PROVE  x = [m EXCEPT !.content = @ \ Hidden(m.Sharing.ContextLevel)]
BY DEF GetAccessibleContent

LEMMA AllowedAccess ==
    ASSUME NEW m, NEW u \in m.Sharing.AllowedUsers
    PROVE  \E x : x \in GetAccessibleContent(u, m)
<1>1. CanAccessWorld(u, m)
  BY DEF CanAccessWorld
<1> QED BY <1>1 DEF GetAccessibleContent

\* Somebody has access just when there is something to get.
LEMMA AccessGivesContent ==
    ASSUME NEW m, NEW u
    PROVE  GetAccessibleContent(u, m) # {} <=> CanAccessWorld(u, m)
BY DEF GetAccessibleContent

\* Settings that are as closed show nobody more.
LEMMA AsClosedShowsNoMore ==
    ASSUME NEW m \in Moment, NEW a \in Sharing, AsClosed(m.Sharing, a), NEW u
    PROVE  LET n == [m EXCEPT !.Sharing = a]
           IN  /\ CanAccessWorld(u, m) <=> CanAccessWorld(u, n)
               /\ \A x \in GetAccessibleContent(u, m), y \in GetAccessibleContent(u, n) :
                      x.content \subseteq y.content
<1> DEFINE n == [m EXCEPT !.Sharing = a]
<1>1. n.Sharing = a /\ n.CreatorID = m.CreatorID /\ n.content = m.content
  BY DEF Moment
<1>2. n \in Moment
  BY DEF Moment
<1> HIDE DEF n
<1>3. CanAccessWorld(u, m) <=> CanAccessWorld(u, n)
  BY <1>1 DEF CanAccessWorld, AsClosed
<1>4. ASSUME NEW x \in GetAccessibleContent(u, m), NEW y \in GetAccessibleContent(u, n)
      PROVE  x.content \subseteq y.content
  <2>1. CASE u = m.CreatorID
    BY <1>1, <2>1 DEF GetAccessibleContent
  <2>2. CASE u # m.CreatorID
    <3>1. CanAccessWorld(u, m)
      BY DEF GetAccessibleContent
    <3>2. a.IsPublic \/ a.AllowedUsers # {}
      BY <2>2, <3>1 DEF CanAccessWorld, AsClosed
    <3>3. Hidden(a.ContextLevel) \subseteq Hidden(m.Sharing.ContextLevel)
      BY <3>2 DEF AsClosed
    <3>4. /\ x = [m EXCEPT !.content = @ \ Hidden(m.Sharing.ContextLevel)]
          /\ y = [n EXCEPT !.content = @ \ Hidden(a.ContextLevel)]
      BY <1>1, <2>2, AccessibleContent
    <3>5. /\ x.content = m.content \ Hidden(m.Sharing.ContextLevel)
          /\ y.content = m.content \ Hidden(a.ContextLevel)
      BY <1>1, <1>2, <3>4 DEF Moment
    <3> QED BY <3>3, <3>5
  <2> QED BY <2>1, <2>2
<1> QED BY <1>3, <1>4 DEF n

\* Settings that are tighter in all three respects (not public unless the old ones
\* were, nobody new allowed, a level that hides no less) show nobody anything new,
\* whatever user asks and whatever the moment holds.
THEOREM TighterShowsLess ==
    ASSUME NEW m \in Moment, NEW a \in Sharing, NEW u,
           a.IsPublic => m.Sharing.IsPublic,
           a.AllowedUsers \subseteq m.Sharing.AllowedUsers,
           Hidden(m.Sharing.ContextLevel) \subseteq Hidden(a.ContextLevel)
    PROVE  \A x \in GetAccessibleContent(u, [m EXCEPT !.Sharing = a]) :
               \E y \in GetAccessibleContent(u, m) : x.content \subseteq y.content
<1> DEFINE n == [m EXCEPT !.Sharing = a]
<1>1. n \in Moment /\ n.Sharing = a /\ n.CreatorID = m.CreatorID /\ n.content = m.content
  BY DEF Moment
<1> HIDE DEF n
<1> SUFFICES ASSUME NEW x \in GetAccessibleContent(u, n)
             PROVE  \E y \in GetAccessibleContent(u, m) : x.content \subseteq y.content
  BY DEF n
<1>2. CanAccessWorld(u, n)
  BY DEF GetAccessibleContent
<1>3. CanAccessWorld(u, m)
  BY <1>1, <1>2 DEF CanAccessWorld
<1>4. PICK y : y \in GetAccessibleContent(u, m)
  BY <1>3, AccessGivesContent
<1>5. CASE u = m.CreatorID
  <2>1. x = n /\ y = m
    BY <1>1, <1>4, <1>5 DEF GetAccessibleContent
  <2> QED BY <1>1, <1>4, <2>1
<1>6. CASE u # m.CreatorID
  <2>1. /\ x = [n EXCEPT !.content = @ \ Hidden(a.ContextLevel)]
        /\ y = [m EXCEPT !.content = @ \ Hidden(m.Sharing.ContextLevel)]
    BY <1>1, <1>4, <1>6, AccessibleContent
  <2>2. /\ x.content = m.content \ Hidden(a.ContextLevel)
        /\ y.content = m.content \ Hidden(m.Sharing.ContextLevel)
    BY <1>1, <2>1 DEF Moment
  <2> QED BY <1>4, <2>2
<1> QED BY <1>5, <1>6

\* What a user was sent can be filtered again for that user, by a subscriber that
\* calls GetAccessibleContent itself, without losing anything more.
THEOREM FilteredOnce ==
    ASSUME NEW m \in Moment, NEW u, NEW x \in GetAccessibleContent(u, m)
    PROVE  x \in Moment /\ GetAccessibleContent(u, x) = {x}
<1>1. CanAccessWorld(u, m)
  BY DEF GetAccessibleContent
<1>2. CASE u = m.CreatorID
  <2>1. x = m
    BY <1>2 DEF GetAccessibleContent
  <2> QED BY <1>1, <1>2, <2>1 DEF GetAccessibleContent
<1>3. CASE u # m.CreatorID
  <2> DEFINE hidden == Hidden(m.Sharing.ContextLevel)
  <2>1. x = [m EXCEPT !.content = @ \ hidden]
    BY <1>3, AccessibleContent
  <2>2. /\ x.Sharing = m.Sharing /\ x.CreatorID = m.CreatorID
        /\ x.content = m.content \ hidden /\ x \in Moment
    BY <2>1, FilteredContents DEF Moment
  <2>3. CanAccessWorld(u, x)
    BY <1>1, <2>2 DEF CanAccessWorld
  <2>4. GetAccessibleContent(u, x) = {[x EXCEPT !.content = @ \ hidden]}
    BY <1>3, <2>2, <2>3 DEF GetAccessibleContent
  <2>5. [x EXCEPT !.content = @ \ hidden] = x
    <3>1. x.content \ hidden = x.content
      BY <2>2
    <3> QED BY <2>2, <3>1 DEF Moment
  <2> QED BY <2>2, <2>4, <2>5
<1> QED BY <1>2, <1>3

-----------------------------------------------------------------------------
(* The messages of a moment. *)

LEMMA MessageFields ==
    ASSUME NEW u, NEW m
    PROVE  /\ UserMessage(u, m).kind = "user"
           /\ UserMessage(u, m).user = u
           /\ UserMessage(u, m).content = m.content
           /\ WorldMessage(m).kind = "world"
BY DEF UserMessage, WorldMessage

\* A message is the public one, the creator's or that of an allowed user.
LEMMA MessageCases ==
    ASSUME NEW m, NEW msg \in Messages(m)
    PROVE  \/ m.Sharing.IsPublic /\ msg = WorldMessage(m)
           \/ msg = UserMessage(m.CreatorID, m)
           \/ \E u \in m.Sharing.AllowedUsers \ {m.CreatorID} :
                 \E x \in GetAccessibleContent(u, m) : msg = UserMessage(u, x)
BY DEF Messages

\* Messages to others than the creator go to allowed users and are filtered.
LEMMA MessagesAccessible ==
    ASSUME NEW m \in Moment, NEW msg \in Messages(m),
           msg.kind = "user", msg.user # m.CreatorID
    PROVE  /\ msg.user \in m.Sharing.AllowedUsers
           /\ m.Sharing.ContextLevel = "none" => msg.content = {}
           /\ m.Sharing.ContextLevel = "partial" =>
                  {"customData", "opaqueBinary"} \cap msg.content = {}
<1>1. PICK u \in m.Sharing.AllowedUsers \ {m.CreatorID} :
          \E x \in GetAccessibleContent(u, m) : msg = UserMessage(u, x)
  <2>1. msg # WorldMessage(m) /\ msg # UserMessage(m.CreatorID, m)
    BY DEF WorldMessage, UserMessage
  <2> QED BY <2>1, MessageCases
<1>2. PICK x \in GetAccessibleContent(u, m) : msg = UserMessage(u, x)
  BY <1>1
<1>3. x = [m EXCEPT !.content = @ \ Hidden(m.Sharing.ContextLevel)]
  BY AccessibleContent
<1>4. msg.user = u /\ msg.content = m.content \ Hidden(m.Sharing.ContextLevel)
  BY <1>2, <1>3, MessageFields DEF Moment
<1>5. m.content \subseteq Parts
  BY DEF Moment, Contents
<1> QED BY <1>4, <1>5, HiddenParts

\* Among the messages is one for the subscriber of a user just when the user may see
\* the moment.
LEMMA MessagesReachUsers ==
    ASSUME NEW m \in Moment, NEW u \in Users
    PROVE  (\E msg \in Messages(m) : Subscribed(u, msg)) <=> CanAccessWorld(u, m)
<1>1. ASSUME NEW msg \in Messages(m), Subscribed(u, msg)
      PROVE  CanAccessWorld(u, m)
  <2>1. CASE m.Sharing.IsPublic
    BY <2>1 DEF CanAccessWorld
  <2>2. CASE msg = UserMessage(m.CreatorID, m)
    BY <1>1, <2>2, MessageFields DEF Subscribed, CanAccessWorld
  <2>3. ASSUME NEW v \in m.Sharing.AllowedUsers, NEW x, msg = UserMessage(v, x)
        PROVE  CanAccessWorld(u, m)
    <3>1. u = v
      BY <1>1, <2>3, MessageFields DEF Subscribed
    <3> QED BY <3>1 DEF CanAccessWorld
  <2> QED BY <2>1, <2>2, <2>3, MessageCases
<1>2. ASSUME CanAccessWorld(u, m)
      PROVE  \E msg \in Messages(m) : Subscribed(u, msg)
  <2>1. CASE m.Sharing.IsPublic
    <3>1. WorldMessage(m) \in Messages(m)
      BY <2>1 DEF Messages
    <3> QED BY <3>1, MessageFields DEF Subscribed
  <2>2. CASE u = m.CreatorID
    <3>1. UserMessage(u, m) \in Messages(m)
      BY <2>2 DEF Messages
    <3> QED BY <3>1, MessageFields, SystemAssumption DEF Subscribed
  <2>3. CASE u \in m.Sharing.AllowedUsers \ {m.CreatorID}
    <3>1. PICK x : x \in GetAccessibleContent(u, m)
      BY <2>3, AllowedAccess
    <3>2. UserMessage(u, x) \in Messages(m)
      BY <2>3, <3>1 DEF Messages
    <3> QED BY <3>2, MessageFields, SystemAssumption DEF Subscribed
  <2> QED BY <1>2, <2>1, <2>2, <2>3 DEF CanAccessWorld
<1> QED BY <1>1, <1>2

\* A subscriber that runs for nobody has the subject of the world alone.
LEMMA MessagesReachAll ==
    ASSUME NEW m \in Moment
    PROVE  (\E msg \in Messages(m) : Subscribed(NoUser, msg)) <=> m.Sharing.IsPublic
<1>1. m.Sharing.IsPublic => WorldMessage(m) \in Messages(m)
  BY DEF Messages
<1>2. Subscribed(NoUser, WorldMessage(m))
  BY MessageFields DEF Subscribed
<1>3. ASSUME NEW msg \in Messages(m), Subscribed(NoUser, msg)
      PROVE  m.Sharing.IsPublic
  <2>1. msg.kind # "user"
    BY <1>3 DEF Subscribed
  <2> QED BY <2>1, MessageCases, MessageFields
<1> QED BY <1>1, <1>2, <1>3

-----------------------------------------------------------------------------
(* Preparation. *)

LEMMA PreparedMoment ==
    ASSUME NEW m \in Moment, NEW user \in Users \cup {NoUser}
    PROVE  /\ Prepared(m, user) \in Moment
           /\ Prepared(m, user).CreatorID = IF m.CreatorID = NoUser THEN user ELSE m.CreatorID
           /\ Prepared(m, user).Sharing = m.Sharing
<1> DEFINE n == CreatorOr(m, user)
<1>1. /\ n \in Moment /\ n.Sharing = m.Sharing
      /\ n.CreatorID = IF m.CreatorID = NoUser THEN user ELSE m.CreatorID
  BY DEF CreatorOr, Moment
<1> HIDE DEF n
<1>2. /\ Packed(n) \in Moment /\ Packed(n).CreatorID = n.CreatorID
      /\ Packed(n).Sharing = n.Sharing
  <2>1. CASE "ternary" \in n.content /\ {"opaqueBinary", "otherBinary"} \cap n.content = {}
    <3>1. n.content \cup {"otherBinary"} \in Contents
      BY <1>1, <2>1 DEF Moment, Contents, Parts
    <3> QED BY <1>1, <2>1, <3>1 DEF Packed, Moment
  <2>2. CASE ~("ternary" \in n.content /\ {"opaqueBinary", "otherBinary"} \cap n.content = {})
    BY <1>1, <2>2 DEF Packed
  <2> QED BY <2>1, <2>2
<1> QED BY <1>1, <1>2 DEF Prepared, n

LEMMA SettingsAreSharing == Private \in Sharing /\ Public \in Sharing
BY DEF Private, Public, Sharing, Levels

LEMMA GeneratedMoment ==
    ASSUME NEW creator \in Users \cup {NoUser}, NEW sharing \in Sharing,
           NEW content \in SUBSET {"vibeSensors"}
    PROVE  /\ Generated(creator, sharing, content) \in Moment
           /\ Generated(creator, sharing, content).CreatorID = creator
           /\ Generated(creator, sharing, content).Sharing = Inherited(sharing)
<1>1. content \in Contents
  BY DEF Contents, Parts
<1> QED BY <1>1, SettingsAreSharing DEF Generated, Inherited, Moment

LEMMA DefaultedMoment ==
    ASSUME NEW m \in Moment, NEW default \in Sharing
    PROVE  WithDefault(m, default) \in Moment
           /\ WithDefault(m, default).CreatorID = m.CreatorID
BY DEF WithDefault, Moment

\* A moment that has been generated has settings: no later default applies.
LEMMA DefaultsKeepSettings ==
    ASSUME NEW sharing \in Sharing, NEW m \in Moment, m.Sharing = Inherited(sharing),
           NEW default \in Sharing
    PROVE  AsClosed(WithDefault(m, default).Sharing, sharing)
<1>1. sharing.IsPublic \in BOOLEAN
  BY DEF Sharing
<1>2. CASE sharing.AllowedUsers # {} \/ sharing.IsPublic
  <2>1. m.Sharing = sharing /\ WithDefault(m, default) = m
    BY <1>2 DEF Inherited, WithDefault, NoSettings
  <2> QED BY <2>1 DEF AsClosed
<1>3. CASE ~(sharing.AllowedUsers # {} \/ sharing.IsPublic)
  <2>1. m.Sharing = Private /\ Private.ContextLevel = "partial"
    BY <1>3 DEF Inherited, Private
  <2>2. WithDefault(m, default) = m
    BY <2>1 DEF WithDefault, NoSettings
  <2>3. sharing.IsPublic = FALSE /\ sharing.AllowedUsers = {}
    BY <1>1, <1>3
  <2>4. Private.IsPublic = FALSE /\ Private.AllowedUsers = {}
    BY DEF Private
  <2> QED BY <2>1, <2>2, <2>3, <2>4 DEF AsClosed
<1> QED BY <1>2, <1>3

-----------------------------------------------------------------------------
(* The invariant. *)

LEMMA InitEstablishesIInv == Init => IInv
<1> SUFFICES ASSUME Init PROVE IInv
  OBVIOUS
<1>1. moment \in Moment
  BY SettingsAreSharing DEF Init, Moment, Contents
<1>2. TypeOK
  BY <1>1, SettingsAreSharing DEF Init, TypeOK, Flows
<1>3. SettingsKept
  BY DEF Init, SettingsKept, AsClosed
<1> QED BY <1>2, <1>3 DEF Init, IInv, MessagesAccounted, SendingAMoment, Attributed

\* Once prepared, a moment is refused or has all its messages to send.
LEMMA PublishKeepsIInv ==
    ASSUME IInv, NEW m \in Moment, NEW user \in Users \cup {NoUser},
           PublishWorldMoment(m, user),
           flow' \in Flows \ {"none", "vibe"}, owner' \in Users \cup {NoUser},
           asked' \in Sharing, AsClosed(m.Sharing, asked'), Attributed'
    PROVE  IInv'
<1>1. moment' \in Moment
  BY PreparedMoment DEF PublishWorldMoment
<1>2. TypeOK'
  BY <1>1 DEF PublishWorldMoment, TypeOK
<1>3. MessagesAccounted'
  BY DEF PublishWorldMoment, MessagesAccounted
<1>4. SendingAMoment'
  BY DEF PublishWorldMoment, SendingAMoment, Begun
<1>5. SettingsKept'
  BY PreparedMoment DEF PublishWorldMoment, SettingsKept, AsClosed
<1> QED BY <1>2, <1>3, <1>4, <1>5 DEF IInv

LEMMA StreamWorldKeepsIInv == ASSUME IInv, StreamWorld PROVE IInv'
<1>1. PICK creator \in Users \cup {NoUser}, sharing \in Sharing,
           content \in SUBSET {"vibeSensors"} :
        /\ owner' = creator
        /\ LET m == Generated(creator, sharing, content)
           IN  \/ /\ asked' = sharing
                  /\ TickPublish(m) \/ \E user \in Users : StreamSingleWorld(m, user)
               \/ \E user \in Users, own \in Sharing : StreamWorldShared(m, user, own)
  BY DEF StreamWorld
<1> DEFINE m == Generated(creator, sharing, content)
<1>2. m \in Moment /\ m.CreatorID = creator /\ m.Sharing = Inherited(sharing)
  BY GeneratedMoment
<1> HIDE DEF m
<1>3. CASE asked' = sharing /\ TickPublish(m)
  <2> DEFINE n == WithDefault(m, Public)
             user == IF m.CreatorID = NoUser THEN System ELSE m.CreatorID
  <2>1. n \in Moment /\ n.CreatorID = creator
    BY <1>2, DefaultedMoment, SettingsAreSharing
  <2>2. user \in Users
    BY <1>2, SystemAssumption
  <2>3. flow' = "tick" /\ PublishWorldMoment(n, user)
    BY <1>3 DEF TickPublish
  <2>4. user = IF creator = NoUser THEN System ELSE creator
    BY <1>2
  <2>7. AsClosed(n.Sharing, asked')
    BY <1>2, <1>3, DefaultsKeepSettings, SettingsAreSharing
  <2> HIDE DEF n, user
  <2>5. moment'.CreatorID = IF creator = NoUser THEN user ELSE creator
    BY <2>1, <2>2, <2>3, PreparedMoment DEF PublishWorldMoment
  <2>6. Attributed'
    BY <1>1, <2>2, <2>3, <2>5, SystemAssumption DEF Attributed
  <2> QED BY <1>1, <1>3, <2>1, <2>2, <2>3, <2>6, <2>7, PublishKeepsIInv DEF Flows
<1>4. CASE asked' = sharing /\ \E user \in Users : StreamSingleWorld(m, user)
  <2>1. PICK user \in Users : StreamSingleWorld(m, user)
    BY <1>4
  <2> DEFINE k == CreatorOr(m, user)
             n == WithDefault(k, Private)
  <2>2. /\ k \in Moment /\ k.Sharing = m.Sharing
        /\ k.CreatorID = IF creator = NoUser THEN user ELSE creator
    BY <1>2 DEF CreatorOr, Moment
  <2>3. flow' = "single" /\ PublishWorldMoment(n, user)
    BY <2>1 DEF StreamSingleWorld
  <2> HIDE DEF k
  <2>4. n \in Moment /\ n.CreatorID = k.CreatorID
    BY <2>2, DefaultedMoment, SettingsAreSharing
  <2>7. AsClosed(n.Sharing, asked')
    BY <1>2, <1>4, <2>2, DefaultsKeepSettings, SettingsAreSharing
  <2> HIDE DEF n
  <2>5. moment'.CreatorID = k.CreatorID
    BY <2>2, <2>3, <2>4, PreparedMoment, SystemAssumption DEF PublishWorldMoment
  <2>6. Attributed'
    BY <1>1, <2>2, <2>3, <2>5, SystemAssumption DEF Attributed
  <2> QED BY <1>1, <1>4, <2>2, <2>3, <2>4, <2>6, <2>7, PublishKeepsIInv DEF Flows
<1>5. CASE \E user \in Users, own \in Sharing : StreamWorldShared(m, user, own)
  <2>1. PICK user \in Users, own \in Sharing : StreamWorldShared(m, user, own)
    BY <1>5
  <2> DEFINE s == [own EXCEPT !.ContextLevel = IF @ = "" THEN "partial" ELSE @]
             n == [m EXCEPT !.CreatorID = user, !.Sharing = s]
  <2>2. s \in Sharing /\ AsClosed(s, own)
    <3>1. Hidden("") = {}
      BY DEF Hidden
    <3> QED BY <3>1 DEF Sharing, Levels, AsClosed
  <2>3. flow' = "custom" /\ asked' = own /\ PublishWorldMoment(n, user)
    BY <2>1 DEF StreamWorldShared
  <2> HIDE DEF s
  <2>4. n \in Moment /\ n.CreatorID = user /\ n.Sharing = s
    BY <1>2, <2>2 DEF Moment
  <2> HIDE DEF n
  <2>5. moment'.CreatorID = user
    BY <2>3, <2>4, PreparedMoment, SystemAssumption DEF PublishWorldMoment
  <2>6. Attributed'
    BY <2>3, <2>5, SystemAssumption DEF Attributed
  <2> QED BY <1>1, <2>2, <2>3, <2>4, <2>6, PublishKeepsIInv DEF Flows
<1> QED BY <1>1, <1>3, <1>4, <1>5 DEF m

LEMMA PublishDirectlyKeepsIInv == ASSUME IInv, PublishDirectly PROVE IInv'
<1>1. PICK m \in Moment, user \in Users \cup {NoUser} :
        /\ flow' = "direct" /\ owner' = m.CreatorID /\ asked' = m.Sharing
        /\ PublishWorldMoment(m, user)
  BY DEF PublishDirectly
<1>2. owner' \in Users \cup {NoUser} /\ asked' \in Sharing /\ AsClosed(m.Sharing, asked')
  BY <1>1 DEF Moment, AsClosed
<1>3. Attributed'
  BY <1>1 DEF Attributed
<1> QED BY <1>1, <1>2, <1>3, PublishKeepsIInv DEF Flows

LEMMA NextKeepsIInv == IInv /\ [Next]_vars => IInv'
<1> SUFFICES ASSUME IInv, [Next]_vars PROVE IInv'
  OBVIOUS
<1>1. CASE StreamWorld
  BY <1>1, StreamWorldKeepsIInv
<1>2. CASE PublishDirectly
  BY <1>2, PublishDirectlyKeepsIInv
<1>3. CASE PublishVibeUpdate
  <2>1. /\ pc = "ready" /\ pc' = "returned" /\ flow' = "vibe"
        /\ outcome' \in {"ok", "refused", "failed"}
        /\ UNCHANGED <<owner, asked, moment, pending>>
        /\ \A msg \in sent' : msg.kind = "vibe"
    BY <1>3 DEF PublishVibeUpdate, VibeMessage
  <2>2. TypeOK'
    BY <2>1 DEF IInv, TypeOK, Flows
  <2>3. SettingsKept'
    BY <2>1 DEF IInv, SettingsKept, AsClosed
  <2> QED BY <2>1, <2>2, <2>3 DEF IInv, MessagesAccounted, SendingAMoment, Attributed
<1>4. CASE Send
  <2>1. PICK message \in pending :
            sent' = sent \cup {message} /\ pending' = pending \ {message}
    BY <1>4 DEF Send
  <2>2. pc = "sending" /\ UNCHANGED <<pc, flow, owner, asked, moment, outcome>>
    BY <1>4 DEF Send
  <2>3. TypeOK' /\ SendingAMoment' /\ SettingsKept' /\ Attributed'
    BY <2>2 DEF IInv, TypeOK, SendingAMoment, Begun, SettingsKept, AsClosed, Attributed
  <2>4. MessagesAccounted'
    <3>1. sent' \cup pending' = sent \cup pending
      BY <2>1
    <3> QED BY <2>2, <3>1 DEF IInv, MessagesAccounted, SendingAMoment, Begun
  <2> QED BY <2>3, <2>4 DEF IInv
<1>5. CASE SendFails
  BY <1>5 DEF SendFails, IInv, TypeOK, MessagesAccounted, SendingAMoment, Begun, SettingsKept,
              AsClosed, Attributed
<1>6. CASE Sent
  BY <1>6 DEF Sent, IInv, TypeOK, MessagesAccounted, SendingAMoment, Begun, SettingsKept,
              AsClosed, Attributed
<1>7. CASE StreamWorldUnnamed
  BY <1>7 DEF StreamWorldUnnamed, IInv, TypeOK, MessagesAccounted, SendingAMoment, Begun,
              SettingsKept, AsClosed, Attributed
<1>8. CASE UNCHANGED vars
  BY <1>8 DEF vars, IInv, TypeOK, MessagesAccounted, SendingAMoment, Begun, SettingsKept,
              AsClosed, Attributed
<1> QED BY <1>1, <1>2, <1>3, <1>4, <1>5, <1>6, <1>7, <1>8 DEF Next

\* The invariant holds in every reachable state.
THEOREM InductiveInvariant == Spec => []IInv
<1> QED BY InitEstablishesIInv, NextKeepsIInv, PTL DEF Spec

\* A user's own subject only ever carries what the settings of the moment let that
\* user see, wherever sending stops.
THEOREM OnlyAccessibleHolds == Spec => []OnlyAccessible
<1>1. IInv => OnlyAccessible
  <2> SUFFICES ASSUME IInv, NEW msg \in sent, msg.kind = "user", msg.user # moment.CreatorID
               PROVE  /\ msg.user \in moment.Sharing.AllowedUsers
                      /\ moment.Sharing.ContextLevel = "none" => msg.content = {}
                      /\ moment.Sharing.ContextLevel = "partial" =>
                             {"customData", "opaqueBinary"} \cap msg.content = {}
    BY DEF OnlyAccessible
  <2>1. msg \in Messages(moment) /\ moment \in Moment
    BY DEF IInv, TypeOK, MessagesAccounted
  <2> QED BY <2>1, MessagesAccessible
<1> QED BY <1>1, InductiveInvariant, PTL

\* A publication that reports no error has reached everybody who may see the moment
\* and nobody else.
THEOREM EveryoneServedHolds == Spec => []EveryoneServed
<1>1. IInv => EveryoneServed
  <2> SUFFICES ASSUME IInv, outcome = "ok", flow # "vibe"
               PROVE  /\ \A u \in Users : Received(u) # {} <=> CanAccessWorld(u, moment)
                      /\ UserMessage(moment.CreatorID, moment) \in sent
                      /\ Received(NoUser) # {} <=> moment.Sharing.IsPublic
    BY DEF EveryoneServed
  <2>1. sent = Messages(moment) /\ moment \in Moment
    BY DEF IInv, TypeOK, MessagesAccounted
  <2>2. \A u : Received(u) # {} <=> \E msg \in Messages(moment) : Subscribed(u, msg)
    BY <2>1 DEF Received
  <2>3. UserMessage(moment.CreatorID, moment) \in Messages(moment)
    BY DEF Messages
  <2> QED BY <2>1, <2>2, <2>3, MessagesReachUsers, MessagesReachAll
<1> QED BY <1>1, InductiveInvariant, PTL

\* The settings of a world, or of a request, are those of its moment, whichever
\* defaults it has passed.
THEOREM SharedAsAskedHolds == Spec => []SharedAsAsked
<1>1. IInv => SharedAsAsked
  BY AsClosedShowsNoMore DEF IInv, TypeOK, SettingsKept, SharedAsAsked
<1> QED BY <1>1, InductiveInvariant, PTL

\* Messages of the moment reach readers in the audience, all messages all of it.
LEMMA ReachedAudience ==
    ASSUME NEW m \in Moment, NEW s \in SUBSET Messages(m)
    PROVE  LET reached == { u \in Users \cup {NoUser} :
                               { msg \in s : Subscribed(u, msg) } # {} }
               audience == { u \in Users : CanAccessWorld(u, m) }
                           \cup (IF m.Sharing.IsPublic THEN {NoUser} ELSE {})
           IN  /\ reached \subseteq audience
               /\ s = Messages(m) => reached = audience
<1> DEFINE gets(u) == { msg \in s : Subscribed(u, msg) }
           audience == { u \in Users : CanAccessWorld(u, m) }
                       \cup (IF m.Sharing.IsPublic THEN {NoUser} ELSE {})
<1>1. ASSUME NEW u \in Users, gets(u) # {} PROVE u \in audience
  <2>1. \E msg \in Messages(m) : Subscribed(u, msg)
    BY <1>1
  <2> QED BY <2>1, MessagesReachUsers
<1>2. ASSUME gets(NoUser) # {} PROVE NoUser \in audience
  <2>1. \E msg \in Messages(m) : Subscribed(NoUser, msg)
    BY <1>2
  <2> QED BY <2>1, MessagesReachAll
<1>3. ASSUME s = Messages(m), NEW u \in audience
      PROVE  u \in Users \cup {NoUser} /\ gets(u) # {}
  <2>1. CASE u \in Users
    <3>1. CanAccessWorld(u, m)
      BY <2>1, SystemAssumption
    <3>2. PICK msg \in Messages(m) : Subscribed(u, msg)
      BY <2>1, <3>1, MessagesReachUsers
    <3> QED BY <1>3, <2>1, <3>2
  <2>2. CASE u \notin Users
    <3>1. u = NoUser /\ m.Sharing.IsPublic
      BY <2>2
    <3>2. PICK msg \in Messages(m) : Subscribed(NoUser, msg)
      BY <3>1, MessagesReachAll
    <3> QED BY <1>3, <3>1, <3>2
  <2> QED BY <2>1, <2>2
<1> QED BY <1>1, <1>2, <1>3

\* Each step of a publication is one of a delivery to those who may see the moment.
THEOREM ImplementsDeliveryHolds == Spec => ImplementsDelivery
<1> DEFINE reached == { u \in Users \cup {NoUser} : Received(u) # {} }
<1>1. Init => Delivered!Init
  BY DEF Init, Delivered!Init, Begun
<1>2. ASSUME IInv, IInv', [Next]_vars PROVE [Delivered!Next]_(Delivered!vars)
  <2>1. ASSUME pc = "ready", NEW m, NEW user, PublishWorldMoment(m, user),
               flow' \in Flows \ {"none", "vibe"}
        PROVE  Delivered!Begin \/ Delivered!Fail
    <3>1. ~Begun /\ Begun'
      BY <1>2, <2>1 DEF IInv, SendingAMoment, Begun, Flows
    <3>2. reached' = {}
      BY <2>1 DEF PublishWorldMoment, Received
    <3>3. CASE pc' = "returned" /\ outcome' = "refused"
      BY <3>1, <3>2, <3>3 DEF Delivered!Fail
    <3>4. CASE pc' = "sending" /\ outcome' = "none"
      <4>1. Audience' \subseteq Users \cup {NoUser}
        BY DEF Audience
      <4> QED BY <3>1, <3>2, <3>4, <4>1 DEF Delivered!Begin
    <3> QED BY <2>1, <3>3, <3>4 DEF PublishWorldMoment
  <2>2. CASE StreamWorld
    <3>1. pc = "ready" /\ \E m, user : /\ PublishWorldMoment(m, user)
                                      /\ flow' \in Flows \ {"none", "vibe"}
      BY <2>2 DEF StreamWorld, TickPublish, StreamSingleWorld, StreamWorldShared, Flows
    <3> QED BY <2>1, <3>1 DEF Delivered!Next
  <2>3. CASE PublishDirectly
    <3>1. pc = "ready" /\ \E m, user : /\ PublishWorldMoment(m, user)
                                      /\ flow' \in Flows \ {"none", "vibe"}
      BY <2>3 DEF PublishDirectly, Flows
    <3> QED BY <2>1, <3>1 DEF Delivered!Next
  <2>4. CASE StreamWorldUnnamed \/ PublishVibeUpdate
    <3>1. ~Begun /\ ~Begun'
      BY <1>2, <2>4 DEF StreamWorldUnnamed, PublishVibeUpdate, IInv, SendingAMoment, Begun
    <3> QED BY <3>1 DEF Delivered!vars
  <2>5. CASE Send
    <3>1. /\ pc = "sending" /\ Begun /\ outcome = "none"
          /\ UNCHANGED <<pc, flow, owner, asked, moment, outcome>> /\ sent \subseteq sent'
      BY <1>2, <2>5 DEF Send, IInv, SendingAMoment
    <3>2. Begun' /\ Audience' = Audience
      BY <3>1 DEF Begun, Audience
    <3>3. moment' \in Moment /\ sent' \subseteq Messages(moment')
      BY <1>2, <3>2 DEF IInv, TypeOK, MessagesAccounted, Begun
    <3>4. reached \subseteq reached'
      BY <3>1 DEF Received
    <3>5. reached' \subseteq Audience'
      BY <3>3, ReachedAudience DEF Received, Audience
    <3> QED BY <3>1, <3>2, <3>4, <3>5 DEF Delivered!Next, Delivered!Reach
  <2>6. CASE SendFails
    <3>1. /\ pc = "sending" /\ Begun /\ outcome = "none" /\ pc' = "returned"
          /\ outcome' = "failed" /\ UNCHANGED <<flow, owner, asked, moment, sent>>
      BY <1>2, <2>6 DEF SendFails, IInv, SendingAMoment
    <3>2. Begun' /\ Audience' = Audience /\ reached' = reached
      BY <3>1 DEF Begun, Audience, Received
    <3> QED BY <3>1, <3>2 DEF Delivered!Next, Delivered!Fail
  <2>7. CASE Sent
    <3>1. /\ pc = "sending" /\ Begun /\ outcome = "none" /\ pc' = "returned"
          /\ outcome' = "ok" /\ UNCHANGED <<flow, owner, asked, moment, sent>>
          /\ pending = {}
      BY <1>2, <2>7 DEF Sent, IInv, SendingAMoment
    <3>2. Begun' /\ Audience' = Audience /\ reached' = reached
      BY <3>1 DEF Begun, Audience, Received
    <3>3. moment \in Moment /\ sent = Messages(moment)
      BY <1>2, <3>1 DEF IInv, TypeOK, MessagesAccounted, Begun
    <3>4. reached = Audience
      BY <3>3, ReachedAudience DEF Received, Audience
    <3> QED BY <3>1, <3>2, <3>4 DEF Delivered!Next, Delivered!Finish
  <2>8. CASE UNCHANGED vars
    <3>1. Begun' = Begun /\ Audience' = Audience /\ reached' = reached
      BY <2>8 DEF vars, Begun, Audience, Received
    <3> QED BY <2>8, <3>1 DEF vars, Delivered!vars
  <2> QED BY <1>2, <2>2, <2>3, <2>4, <2>5, <2>6, <2>7, <2>8 DEF Next
<1> QED BY <1>1, <1>2, InductiveInvariant, PTL
        DEF Spec, ImplementsDelivery, Delivered!Spec

\* Streaming a world never loses its creator.
THEOREM AttributedHolds == Spec => []Attributed
<1>1. IInv => Attributed
  BY DEF IInv
<1> QED BY <1>1, InductiveInvariant, PTL
=============================================================================

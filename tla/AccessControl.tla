---------------------------- MODULE AccessControl ----------------------------
(***************************************************************************)
(* streaming/access_control.go: who may see a moment, and what of it.      *)
(*                                                                         *)
(* The content of a moment is the set of its parts that the context levels *)
(* tell apart.  A nil result of GetAccessibleContent is the empty set, a   *)
(* pointer to a moment the set of that moment.                             *)
(***************************************************************************)
CONSTANTS
    Users,     \* user IDs
    NoUser     \* the empty user ID

\* Nothing checks a level: a request may name one the code does not know.
Levels == {"", "none", "partial", "full", "unknown"}

\* The empty ID is what a request's list of users has in place of what is no
\* string.
Sharing == [IsPublic : BOOLEAN, AllowedUsers : SUBSET (Users \cup {NoUser}),
            ContextLevel : Levels]

\* opaqueBinary is BinaryData of the formats application/octet-stream and
\* application/binary, otherBinary of any other; a moment has at most one.
Parts == {"customData", "sensorData", "opaqueBinary", "otherBinary",
          "ternary", "vibeSensors"}

Contents == { c \in SUBSET Parts : ~({"opaqueBinary", "otherBinary"} \subseteq c) }

Moment == [CreatorID : Users \cup {NoUser}, Sharing : Sharing, content : Contents]

\* A moment nobody is named for is private to its creator; a public one is for
\* everyone; otherwise it is for the creator and the allowed users.
CanAccessWorld(user, moment) ==
    \/ moment.Sharing.IsPublic
    \/ user = moment.CreatorID
    \/ user \in moment.Sharing.AllowedUsers

\* A filter that forgets binary data at the level "none".
HiddenWithoutBinary(level) ==
    CASE level = "none" -> Parts \ {"opaqueBinary", "otherBinary"}
      [] level = "partial" -> {"customData", "opaqueBinary"}
      [] OTHER -> {}

\* What a level takes away; an unknown or empty level takes nothing away.
Hidden(level) ==
    CASE level = "none" -> Parts
      [] level = "partial" -> {"customData", "opaqueBinary"}
      [] OTHER -> {}

\* The level "none" taken for no access at all.
GetAccessibleUnlessNone(user, moment) ==
    IF ~CanAccessWorld(user, moment) THEN {}
    ELSE IF user = moment.CreatorID THEN {moment}
    ELSE IF moment.Sharing.ContextLevel = "none" THEN {}
    ELSE {[moment EXCEPT !.content = @ \ Hidden(moment.Sharing.ContextLevel)]}

GetAccessibleContent(user, moment) ==
    IF ~CanAccessWorld(user, moment) THEN {}
    ELSE IF user = moment.CreatorID THEN {moment}
    ELSE {[moment EXCEPT !.content = @ \ Hidden(moment.Sharing.ContextLevel)]}
=============================================================================

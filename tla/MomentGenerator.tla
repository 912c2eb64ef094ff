--------------------------- MODULE MomentGenerator ---------------------------
(***************************************************************************)
(* streaming/moment_generator.go on top of the repository.  The generator  *)
(* takes no lock of its own: it reads the list of worlds, then each world  *)
(* and then that world's vibe, in separate calls of the repository, and    *)
(* other callers write in between.                                         *)
(*                                                                         *)
(* Calls only read and share nothing, so one call at a time, next to a     *)
(* repository that changes at will, stands for any number of them.         *)
(* GenerateMoment is the call for one world, GenerateAllMoments the same   *)
(* loop over the worlds that were listed.                                  *)
(***************************************************************************)
EXTENDS Repository

\* A call names a world; the server always has some.
ASSUME WorldAssumption == WorldIds # {} /\ WorldData # {}

VARIABLES
    pc,        \* where the call is
    todo,      \* the worlds of the loop still to visit
    current,   \* the world being visited
    read,      \* what GetWorld returned for it
    moments,   \* the moments generated so far
    steady,    \* history: the worlds asked for and stored ever since
    still,     \* history: the current world has not changed since it was read
    calm       \* history: the worlds whose two reads saw no change in between

call == <<pc, todo, current, read, moments>>
history == <<steady, still, calm>>
vars == <<repository, call, history>>

\* The vibe of a moment is a set with one ID, or empty for a nil pointer.
Moment == [WorldID : WorldIds, VibeID : VibeIds \cup {NoVibe},
           Vibe : SUBSET VibeIds, rest : WorldData]

TypeOK ==
    /\ RepositoryTypeOK
    /\ pc \in {"idle", "next", "world", "vibe"}
    /\ todo \subseteq WorldIds
    /\ current \in WorldIds
    /\ read \in World
    /\ moments \subseteq Moment
    /\ steady \subseteq WorldIds
    /\ still \in BOOLEAN
    /\ calm \subseteq WorldIds

\* current and read are locals: a fixed value stands for them while unassigned.
Init ==
    /\ RepositoryInit
    /\ pc = "idle"
    /\ todo = {}
    /\ current = CHOOSE w \in WorldIds : TRUE
    /\ read = CHOOSE w \in World : TRUE
    /\ moments = {}
    /\ steady = {}
    /\ still = FALSE
    /\ calm = {}

\* A call for the worlds W.
Begin(W) ==
    /\ pc = "idle"
    /\ pc' = "next"
    /\ todo' = W
    /\ moments' = {}
    /\ steady' = W \cap GetAllWorlds
    /\ calm' = {}
    /\ UNCHANGED <<repository, current, read, still>>

GenerateMoment(id) == Begin({id})

\* The list is never nil, so the error for a nil list is never returned.
GenerateAllMoments == Begin(GetAllWorlds)

NextWorld ==
    /\ pc = "next"
    /\ \E id \in todo :
        /\ current' = id
        /\ todo' = todo \ {id}
    /\ pc' = "world"
    /\ UNCHANGED <<repository, read, moments, history>>

\* A world that is gone ends the loop.
GiveUp ==
    /\ pc' = "next"
    /\ todo' = {}
    /\ UNCHANGED <<current, read, moments, still>>

\* The world is gone: an error for GenerateMoment, skipped by the loop.
SkipWorld ==
    /\ pc' = "next"
    /\ UNCHANGED <<todo, current, read, moments, still>>

ReadWorld ==
    /\ pc = "world"
    /\ \/ ~HasWorld(current) /\ SkipWorld
       \/ /\ HasWorld(current)
          /\ read' = worlds[current]
          /\ still' = TRUE
          /\ pc' = "vibe"
          /\ UNCHANGED <<todo, current, moments>>
    /\ UNCHANGED <<repository, steady, calm>>

\* An error of GetWorldVibe leaves the pointer nil; the moment is made anyway.
ReadVibe ==
    /\ pc = "vibe"
    /\ moments' = moments \cup
        {[WorldID |-> current, VibeID |-> read.CurrentVibe,
          Vibe |-> GetWorldVibe(current), rest |-> read.rest]}
    /\ calm' = IF still THEN calm \cup {current} ELSE calm
    /\ pc' = "next"
    /\ UNCHANGED <<repository, todo, current, read, steady, still>>

Return ==
    /\ pc = "next"
    /\ todo = {}
    /\ pc' = "idle"
    /\ UNCHANGED <<repository, todo, current, read, moments, history>>

\* Another caller of the repository.
Write ==
    /\ RepositoryNext
    /\ steady' = steady \cap DOMAIN worlds'
    /\ still' = (still /\ HasWorld(current) /\ current \in DOMAIN worlds'
                    /\ worlds'[current] = worlds[current])
    /\ UNCHANGED <<call, calm>>

Next ==
    \/ \E id \in WorldIds : GenerateMoment(id)
    \/ GenerateAllMoments
    \/ NextWorld
    \/ ReadWorld
    \/ ReadVibe
    \/ Return
    \/ Write

Spec == Init /\ [][Next]_vars

-----------------------------------------------------------------------------
(* Properties *)

\* A moment and its vibe agree: the vibe is the one the moment names, or there
\* is none and it names none.
Agrees(m) == m.Vibe = {m.VibeID} \ {NoVibe}

\* The moment of a world that did not change between the two reads agrees with
\* itself, although vibes come and go at any time.
CalmMomentsAgree == \A m \in moments : m.WorldID \in calm => Agrees(m)

\* The moment of a world that is read in one go, with the vibe it names.
AtomicMoment(w) ==
    [WorldID |-> w, VibeID |-> worlds[w].CurrentVibe,
     Vibe |-> {worlds[w].CurrentVibe} \ {NoVibe}, rest |-> worlds[w].rest]

\* And it is what one read of the whole repository would have given, at the moment
\* of the second read: nothing of it was stale by then.
CalmMomentsAreSnapshots ==
    [][\A m \in moments' \ moments :
          m.WorldID \in calm' => HasWorld(m.WorldID) /\ m = AtomicMoment(m.WorldID)]_vars

\* A call misses no world that was there from beginning to end, whichever worlds
\* around it disappear while the loop runs, and makes one moment of each.
NoSteadyWorldMissed ==
    /\ pc = "idle" => \A w \in steady : \E m \in moments : m.WorldID = w
    /\ \A m, n \in moments : m.WorldID = n.WorldID => m = n

-----------------------------------------------------------------------------
(* The inductive invariant behind them. *)

\* A steady world is stored, and waits, is being visited or has its moment.
SteadyAccounted ==
    \A w \in steady :
        /\ HasWorld(w)
        /\ \/ w \in todo
           \/ w = current /\ pc \in {"world", "vibe"}
           \/ \E m \in moments : m.WorldID = w

\* No world that has its moment is visited again.
VisitedOnce ==
    /\ pc \in {"world", "vibe"} => current \notin todo
    /\ \A m \in moments :
        /\ m.WorldID \notin todo
        /\ pc \in {"world", "vibe"} => m.WorldID # current
    /\ \A m, n \in moments : m.WorldID = n.WorldID => m = n

\* What was read is still so while the world has not changed.
StillRead ==
    pc = "vibe" /\ still => HasWorld(current) /\ worlds[current] = read

\* Only worlds that have their moment are calm.
CalmHaveMoments == \A w \in calm : \E m \in moments : m.WorldID = w

IdleIsDone == pc = "idle" => todo = {}

IInv ==
    /\ TypeOK
    /\ RefIntegrity
    /\ SteadyAccounted
    /\ VisitedOnce
    /\ StillRead
    /\ CalmHaveMoments
    /\ IdleIsDone
    /\ CalmMomentsAgree
=============================================================================

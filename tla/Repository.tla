----------------------------- MODULE Repository -----------------------------
(***************************************************************************)
(* repository/repository.go: the two maps every other part reads, under    *)
(* one read-write lock that each method holds from beginning to end, so a  *)
(* method is one action.  A call that returns an error changes nothing and *)
(* is the stuttering step; its condition is the negation of the guard.     *)
(*                                                                         *)
(* A vibe is its ID and one value for the rest of the record; a world is   *)
(* its ID, CurrentVibe and one value for the rest.  Vibes and worlds are   *)
(* stored and returned by value, as the Go maps of structs are.            *)
(***************************************************************************)
EXTENDS Functions

CONSTANTS
    VibeIds,       \* IDs a caller may use for a vibe; "" may be one of them
    WorldIds,      \* IDs a caller may use for a world
    NoVibe,        \* the empty string, CurrentVibe of a world without a vibe
    VibeData,      \* the values of a vibe apart from its ID
    WorldData,     \* the values of a world apart from its ID and CurrentVibe
    sampleVibes,   \* the vibes of NewRepository
    sampleWorlds   \* and its worlds

World == [CurrentVibe : VibeIds \cup {NoVibe}, rest : WorldData]

\* Maps from some of the keys K to values in V.
Maps(K, V) == UNION { [S -> V] : S \in SUBSET K }

ASSUME SampleAssumption ==
    /\ sampleVibes \in Maps(VibeIds, VibeData)
    /\ sampleWorlds \in Maps(WorldIds, World)
    /\ \A w \in DOMAIN sampleWorlds : sampleWorlds[w].CurrentVibe \in DOMAIN sampleVibes

VARIABLES
    vibes,    \* r.vibes
    worlds    \* r.worlds

repository == <<vibes, worlds>>

RepositoryTypeOK ==
    /\ vibes \in Maps(VibeIds, VibeData)
    /\ worlds \in Maps(WorldIds, World)

\* NewRepositoryWithSampleData(includeSampleData)
RepositoryInit ==
    \/ vibes = sampleVibes /\ worlds = sampleWorlds
    \/ vibes = <<>> /\ worlds = <<>>

-----------------------------------------------------------------------------
(* Reads. *)

HasVibe(id) == id \in DOMAIN vibes
HasWorld(id) == id \in DOMAIN worlds

\* The vibes that wear the ID a world carries: one, or none (an error).
GetWorldVibe(world) ==
    { id \in DOMAIN vibes :
        HasWorld(world) /\ worlds[world].CurrentVibe # NoVibe
            /\ id = worlds[world].CurrentVibe }

\* GetAllWorlds lists the worlds of one instant.
GetAllWorlds == DOMAIN worlds

-----------------------------------------------------------------------------
(* Writes. *)

\* m[key] = value and delete(m, key)
Put(m, key, value) ==
    [k \in DOMAIN m \cup {key} |-> IF k = key THEN value ELSE m[k]]
Delete(m, key) == Restrict(m, DOMAIN m \ {key})

\* The check of a caller that trusts the ID it was given.
VibeUnchecked(world) == TRUE

\* The check AddWorld and UpdateWorld make of the vibe a world names.
VibeChecked(world) == world.CurrentVibe # NoVibe => HasVibe(world.CurrentVibe)

AddVibe(id, vibe) ==
    /\ vibes' = Put(vibes, id, vibe)
    /\ UNCHANGED worlds

UpdateVibe(id, vibe) == HasVibe(id) /\ AddVibe(id, vibe)

\* Some world's CurrentVibe is the ID; the ID "" is in use by every world that
\* has no vibe.
InUse(id) == \E w \in DOMAIN worlds : worlds[w].CurrentVibe = id

\* A deletion that does not look at the worlds.
DeleteUsedVibe(id) ==
    /\ HasVibe(id)
    /\ vibes' = Delete(vibes, id)
    /\ UNCHANGED worlds

DeleteVibe(id) ==
    /\ HasVibe(id)
    /\ ~InUse(id)
    /\ vibes' = Delete(vibes, id)
    /\ UNCHANGED worlds

AddWorld(id, world) ==
    /\ VibeChecked(world)
    /\ worlds' = Put(worlds, id, world)
    /\ UNCHANGED vibes

UpdateWorld(id, world) == HasWorld(id) /\ AddWorld(id, world)

DeleteWorld(id) ==
    /\ HasWorld(id)
    /\ worlds' = Delete(worlds, id)
    /\ UNCHANGED vibes

SetWorldVibe(id, vibe) ==
    /\ HasWorld(id)
    /\ HasVibe(vibe)
    /\ worlds' = [worlds EXCEPT ![id].CurrentVibe = vibe]
    /\ UNCHANGED vibes

ChangeVibes ==
    \E id \in VibeIds :
        \/ \E vibe \in VibeData : AddVibe(id, vibe) \/ UpdateVibe(id, vibe)
        \/ DeleteVibe(id)

ChangeWorlds ==
    \E id \in WorldIds :
        \/ \E world \in World : AddWorld(id, world) \/ UpdateWorld(id, world)
        \/ DeleteWorld(id)
        \/ \E vibe \in VibeIds : SetWorldVibe(id, vibe)

RepositoryNext == ChangeVibes \/ ChangeWorlds

RepositorySpec == RepositoryInit /\ [][RepositoryNext]_repository

-----------------------------------------------------------------------------
(* Properties *)

\* A world that names a vibe names one that is stored, whatever is added,
\* updated and deleted, and in whatever order (the checks of AddWorld,
\* UpdateWorld, SetWorldVibe and DeleteVibe together).
RefIntegrity ==
    \A w \in DOMAIN worlds :
        worlds[w].CurrentVibe # NoVibe => worlds[w].CurrentVibe \in DOMAIN vibes
=============================================================================

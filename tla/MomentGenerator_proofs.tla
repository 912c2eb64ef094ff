------------------------ MODULE MomentGenerator_proofs ------------------------
(***************************************************************************)
(* Proofs about the repository and the moment generator, for every set of  *)
(* IDs and contents.                                                       *)
(***************************************************************************)
EXTENDS MomentGenerator, TLAPS

-----------------------------------------------------------------------------
(* Maps. *)

LEMMA MapsDef ==
    ASSUME NEW K, NEW V, NEW m
    PROVE  m \in Maps(K, V) <=>
             /\ DOMAIN m \subseteq K
             /\ m = [k \in DOMAIN m |-> m[k]]
             /\ \A k \in DOMAIN m : m[k] \in V
<1>1. ASSUME m \in Maps(K, V)
      PROVE  DOMAIN m \subseteq K /\ m = [k \in DOMAIN m |-> m[k]]
             /\ \A k \in DOMAIN m : m[k] \in V
  <2>1. PICK S \in SUBSET K : m \in [S -> V]
    BY <1>1 DEF Maps
  <2> QED BY <2>1
<1>2. ASSUME DOMAIN m \subseteq K, m = [k \in DOMAIN m |-> m[k]],
             \A k \in DOMAIN m : m[k] \in V
      PROVE  m \in Maps(K, V)
  <2>1. m \in [DOMAIN m -> V]
    BY <1>2
  <2> QED BY <1>2, <2>1 DEF Maps
<1> QED BY <1>1, <1>2

LEMMA EmptyMap == ASSUME NEW K, NEW V PROVE <<>> \in Maps(K, V) /\ DOMAIN <<>> = {}
<1>1. DOMAIN <<>> = {}
  OBVIOUS
<1>2. <<>> = [k \in {} |-> <<>>[k]]
  OBVIOUS
<1> QED BY <1>1, <1>2, MapsDef

LEMMA PutMap ==
    ASSUME NEW K, NEW V, NEW m \in Maps(K, V), NEW k \in K, NEW v \in V
    PROVE  /\ Put(m, k, v) \in Maps(K, V)
           /\ DOMAIN Put(m, k, v) = DOMAIN m \cup {k}
           /\ Put(m, k, v)[k] = v
           /\ \A j \in DOMAIN m : j # k => Put(m, k, v)[j] = m[j]
<1>1. DOMAIN m \subseteq K /\ \A j \in DOMAIN m : m[j] \in V
  BY MapsDef
<1>2. /\ DOMAIN Put(m, k, v) = DOMAIN m \cup {k}
      /\ Put(m, k, v)[k] = v
      /\ \A j \in DOMAIN m : j # k => Put(m, k, v)[j] = m[j]
  BY DEF Put
<1>3. Put(m, k, v) \in [DOMAIN m \cup {k} -> V]
  BY <1>1 DEF Put
<1>4. DOMAIN m \cup {k} \in SUBSET K
  BY <1>1
<1> QED BY <1>2, <1>3, <1>4 DEF Maps

LEMMA DeleteMap ==
    ASSUME NEW K, NEW V, NEW m \in Maps(K, V), NEW k \in K
    PROVE  /\ Delete(m, k) \in Maps(K, V)
           /\ DOMAIN Delete(m, k) = DOMAIN m \ {k}
           /\ \A j \in DOMAIN m \ {k} : Delete(m, k)[j] = m[j]
<1>1. DOMAIN m \subseteq K /\ \A j \in DOMAIN m : m[j] \in V
  BY MapsDef
<1>2. /\ DOMAIN Delete(m, k) = DOMAIN m \ {k}
      /\ \A j \in DOMAIN m \ {k} : Delete(m, k)[j] = m[j]
  BY DEF Delete, Restrict
<1>3. Delete(m, k) \in [DOMAIN m \ {k} -> V]
  BY <1>1 DEF Delete, Restrict
<1>4. DOMAIN m \ {k} \in SUBSET K
  BY <1>1
<1> QED BY <1>2, <1>3, <1>4 DEF Maps

-----------------------------------------------------------------------------
(* The repository. *)

LEMMA RepositoryStarts == RepositoryInit => RepositoryTypeOK /\ RefIntegrity
<1> SUFFICES ASSUME RepositoryInit PROVE RepositoryTypeOK /\ RefIntegrity
  OBVIOUS
<1>1. CASE vibes = sampleVibes /\ worlds = sampleWorlds
  BY <1>1, SampleAssumption DEF RepositoryTypeOK, RefIntegrity
<1>2. CASE vibes = <<>> /\ worlds = <<>>
  BY <1>2, EmptyMap DEF RepositoryTypeOK, RefIntegrity
<1> QED BY <1>1, <1>2 DEF RepositoryInit

\* A vibe that is added or updated takes nothing from the worlds.
LEMMA AddVibeKeeps ==
    ASSUME RepositoryTypeOK, RefIntegrity,
           NEW id \in VibeIds, NEW vibe \in VibeData, AddVibe(id, vibe)
    PROVE  RepositoryTypeOK' /\ RefIntegrity'
<1>1. vibes' = Put(vibes, id, vibe) /\ worlds' = worlds
  BY DEF AddVibe
<1>2. /\ Put(vibes, id, vibe) \in Maps(VibeIds, VibeData)
      /\ DOMAIN Put(vibes, id, vibe) = DOMAIN vibes \cup {id}
  <2>1. vibes \in Maps(VibeIds, VibeData)
    BY DEF RepositoryTypeOK
  <2> QED BY <2>1, PutMap
<1> QED BY <1>1, <1>2 DEF RepositoryTypeOK, RefIntegrity

\* Only a vibe that no world names is deleted.
LEMMA DeleteVibeKeeps ==
    ASSUME RepositoryTypeOK, RefIntegrity, NEW id \in VibeIds, DeleteVibe(id)
    PROVE  RepositoryTypeOK' /\ RefIntegrity'
<1>1. vibes' = Delete(vibes, id) /\ worlds' = worlds /\ ~InUse(id)
  BY DEF DeleteVibe
<1>2. /\ Delete(vibes, id) \in Maps(VibeIds, VibeData)
      /\ DOMAIN Delete(vibes, id) = DOMAIN vibes \ {id}
  <2>1. vibes \in Maps(VibeIds, VibeData)
    BY DEF RepositoryTypeOK
  <2> QED BY <2>1, DeleteMap
<1> QED BY <1>1, <1>2 DEF RepositoryTypeOK, RefIntegrity, InUse

LEMMA AddWorldKeeps ==
    ASSUME RepositoryTypeOK, RefIntegrity,
           NEW id \in WorldIds, NEW world \in World, AddWorld(id, world)
    PROVE  RepositoryTypeOK' /\ RefIntegrity'
<1> DEFINE new == Put(worlds, id, world)
<1>1. worlds' = new /\ vibes' = vibes /\ VibeChecked(world)
  BY DEF AddWorld
<1>2. /\ new \in Maps(WorldIds, World)
      /\ DOMAIN new = DOMAIN worlds \cup {id}
      /\ new[id] = world
      /\ \A w \in DOMAIN worlds : w # id => new[w] = worlds[w]
  <2>1. worlds \in Maps(WorldIds, World)
    BY DEF RepositoryTypeOK
  <2> QED BY <2>1, PutMap
<1> HIDE DEF new
<1> QED BY <1>1, <1>2 DEF RepositoryTypeOK, RefIntegrity, VibeChecked, HasVibe

LEMMA DeleteWorldKeeps ==
    ASSUME RepositoryTypeOK, RefIntegrity, NEW id \in WorldIds, DeleteWorld(id)
    PROVE  RepositoryTypeOK' /\ RefIntegrity'
<1> DEFINE new == Delete(worlds, id)
<1>1. worlds' = new /\ vibes' = vibes
  BY DEF DeleteWorld
<1>2. /\ new \in Maps(WorldIds, World)
      /\ DOMAIN new = DOMAIN worlds \ {id}
      /\ \A w \in DOMAIN worlds \ {id} : new[w] = worlds[w]
  <2>1. worlds \in Maps(WorldIds, World)
    BY DEF RepositoryTypeOK
  <2>2. \A w \in DOMAIN worlds \ {id} : Delete(worlds, id)[w] = worlds[w]
    BY DEF Delete, Restrict
  <2>3. /\ Delete(worlds, id) \in Maps(WorldIds, World)
        /\ DOMAIN Delete(worlds, id) = DOMAIN worlds \ {id}
    BY <2>1, DeleteMap
  <2> QED BY <2>2, <2>3
<1> HIDE DEF new
<1> QED BY <1>1, <1>2 DEF RepositoryTypeOK, RefIntegrity

LEMMA SetWorldVibeKeeps ==
    ASSUME RepositoryTypeOK, RefIntegrity,
           NEW id \in WorldIds, NEW vibe \in VibeIds, SetWorldVibe(id, vibe)
    PROVE  RepositoryTypeOK' /\ RefIntegrity'
<1>1. /\ worlds' = [worlds EXCEPT ![id].CurrentVibe = vibe]
      /\ vibes' = vibes /\ vibe \in DOMAIN vibes /\ id \in DOMAIN worlds
  BY DEF SetWorldVibe, HasVibe, HasWorld
<1>2. /\ DOMAIN worlds \subseteq WorldIds
      /\ worlds \in [DOMAIN worlds -> World]
  BY MapsDef DEF RepositoryTypeOK
<1>3. /\ worlds' \in [DOMAIN worlds -> World]
      /\ worlds'[id].CurrentVibe = vibe
      /\ \A w \in DOMAIN worlds : w # id => worlds'[w] = worlds[w]
  BY <1>1, <1>2 DEF World
<1>4. worlds' \in Maps(WorldIds, World)
  BY <1>2, <1>3 DEF Maps
<1> QED BY <1>1, <1>2, <1>3, <1>4 DEF RepositoryTypeOK, RefIntegrity

LEMMA RepositoryKeeps ==
    ASSUME RepositoryTypeOK, RefIntegrity, RepositoryNext
    PROVE  RepositoryTypeOK' /\ RefIntegrity'
<1>1. CASE ChangeVibes
  <2>1. PICK id \in VibeIds :
            \/ \E vibe \in VibeData : AddVibe(id, vibe) \/ UpdateVibe(id, vibe)
            \/ DeleteVibe(id)
    BY <1>1 DEF ChangeVibes
  <2>2. CASE \E vibe \in VibeData : AddVibe(id, vibe) \/ UpdateVibe(id, vibe)
    BY <2>2, AddVibeKeeps DEF UpdateVibe
  <2>3. CASE DeleteVibe(id)
    BY <2>3, DeleteVibeKeeps
  <2> QED BY <2>1, <2>2, <2>3
<1>2. CASE ChangeWorlds
  <2>1. PICK id \in WorldIds :
            \/ \E world \in World : AddWorld(id, world) \/ UpdateWorld(id, world)
            \/ DeleteWorld(id)
            \/ \E vibe \in VibeIds : SetWorldVibe(id, vibe)
    BY <1>2 DEF ChangeWorlds
  <2>2. CASE \E world \in World : AddWorld(id, world) \/ UpdateWorld(id, world)
    BY <2>2, AddWorldKeeps DEF UpdateWorld
  <2>3. CASE DeleteWorld(id)
    BY <2>3, DeleteWorldKeeps
  <2>4. CASE \E vibe \in VibeIds : SetWorldVibe(id, vibe)
    BY <2>4, SetWorldVibeKeeps
  <2> QED BY <2>1, <2>2, <2>3, <2>4
<1> QED BY <1>1, <1>2 DEF RepositoryNext

\* Every vibe a world names is stored, for every sequence of calls of the
\* repository.
THEOREM RefIntegrityHolds == RepositorySpec => [](RepositoryTypeOK /\ RefIntegrity)
<1>1. RepositoryTypeOK /\ RefIntegrity /\ [RepositoryNext]_repository
        => (RepositoryTypeOK /\ RefIntegrity)'
  <2> SUFFICES ASSUME RepositoryTypeOK, RefIntegrity, [RepositoryNext]_repository
               PROVE  (RepositoryTypeOK /\ RefIntegrity)'
    OBVIOUS
  <2>1. CASE RepositoryNext
    BY <2>1, RepositoryKeeps
  <2>2. CASE UNCHANGED repository
    BY <2>2 DEF repository, RepositoryTypeOK, RefIntegrity
  <2> QED BY <2>1, <2>2
<1> QED BY <1>1, RepositoryStarts, PTL DEF RepositorySpec
-----------------------------------------------------------------------------
(* The moment generator. *)

\* A world that is stored is a World, in the repository and when it is read.
LEMMA StoredWorlds ==
    ASSUME RepositoryTypeOK
    PROVE  /\ DOMAIN worlds \subseteq WorldIds
           /\ DOMAIN vibes \subseteq VibeIds
           /\ \A w \in DOMAIN worlds : worlds[w] \in World
BY MapsDef DEF RepositoryTypeOK

LEMMA InitEstablishesIInv == Init => IInv
<1> SUFFICES ASSUME Init PROVE IInv
  OBVIOUS
<1>1. RepositoryTypeOK /\ RefIntegrity
  BY RepositoryStarts DEF Init
<1>2. World # {}
  <2>1. PICK d \in WorldData : TRUE
    BY WorldAssumption
  <2>2. [CurrentVibe |-> NoVibe, rest |-> d] \in World
    BY <2>1 DEF World
  <2> QED BY <2>2
<1>3. current \in WorldIds /\ read \in World
  BY <1>2, WorldAssumption DEF Init
<1>4. TypeOK
  BY <1>1, <1>3 DEF Init, TypeOK
<1> QED BY <1>1, <1>4 DEF Init, IInv, SteadyAccounted, VisitedOnce, StillRead,
                         CalmHaveMoments, IdleIsDone, CalmMomentsAgree

LEMMA BeginKeepsIInv ==
    ASSUME IInv, NEW W \in SUBSET WorldIds, Begin(W)
    PROVE  IInv'
<1> USE DEF IInv
<1>1. UNCHANGED repository
  BY DEF Begin
<1>2. RepositoryTypeOK' /\ RefIntegrity'
  BY <1>1 DEF repository, TypeOK, RepositoryTypeOK, RefIntegrity
<1>3. TypeOK'
  BY <1>2 DEF Begin, TypeOK
<1>4. SteadyAccounted'
  BY <1>1 DEF Begin, SteadyAccounted, GetAllWorlds, HasWorld, repository
<1> QED BY <1>2, <1>3, <1>4 DEF Begin, VisitedOnce, StillRead, CalmHaveMoments,
                              IdleIsDone, CalmMomentsAgree

LEMMA NextWorldKeepsIInv == ASSUME IInv, NextWorld PROVE IInv'
<1> USE DEF IInv
<1>1. PICK id \in todo : current' = id /\ todo' = todo \ {id}
  BY DEF NextWorld
<1>2. /\ pc = "next" /\ pc' = "world"
      /\ UNCHANGED <<vibes, worlds, read, moments, steady, still, calm>>
  BY DEF NextWorld, repository, history
<1>3. RepositoryTypeOK' /\ RefIntegrity'
  BY <1>2 DEF TypeOK, RepositoryTypeOK, RefIntegrity
<1>4. TypeOK'
  BY <1>1, <1>2, <1>3 DEF TypeOK
<1>5. SteadyAccounted'
  BY <1>1, <1>2 DEF SteadyAccounted, HasWorld
<1>6. VisitedOnce'
  BY <1>1, <1>2 DEF VisitedOnce
<1> QED BY <1>1, <1>2, <1>3, <1>4, <1>5, <1>6
           DEF StillRead, CalmHaveMoments, IdleIsDone, CalmMomentsAgree

LEMMA ReadWorldKeepsIInv == ASSUME IInv, ReadWorld PROVE IInv'
<1> USE DEF IInv
<1>1. pc = "world" /\ UNCHANGED <<vibes, worlds, todo, current, moments, steady, calm>>
  BY DEF ReadWorld, SkipWorld, repository
<1>2. \/ ~HasWorld(current) /\ pc' = "next" /\ UNCHANGED <<read, still>>
      \/ /\ HasWorld(current) /\ pc' = "vibe"
         /\ read' = worlds[current] /\ still' = TRUE
  BY DEF ReadWorld, SkipWorld
<1>3. RepositoryTypeOK' /\ RefIntegrity'
  BY <1>1 DEF TypeOK, RepositoryTypeOK, RefIntegrity
<1>4. TypeOK'
  <2>1. read' \in World /\ still' \in BOOLEAN /\ pc' \in {"next", "vibe"}
    BY <1>2, StoredWorlds DEF TypeOK, HasWorld
  <2> QED BY <1>1, <1>3, <2>1 DEF TypeOK
<1>5. SteadyAccounted'
  BY <1>1, <1>2 DEF SteadyAccounted, HasWorld
<1>6. VisitedOnce'
  BY <1>1, <1>2 DEF VisitedOnce
<1>7. StillRead'
  BY <1>1, <1>2 DEF StillRead, HasWorld
<1>8. CalmHaveMoments' /\ IdleIsDone' /\ CalmMomentsAgree'
  BY <1>1, <1>2 DEF CalmHaveMoments, IdleIsDone, CalmMomentsAgree
<1> QED BY <1>3, <1>4, <1>5, <1>6, <1>7, <1>8

\* A world that names a stored vibe, or none, gives a moment that agrees.
LEMMA StillReadAgrees ==
    ASSUME TypeOK, RefIntegrity, HasWorld(current), worlds[current] = read
    PROVE  GetWorldVibe(current) = {read.CurrentVibe} \ {NoVibe}
<1>1. read.CurrentVibe # NoVibe => read.CurrentVibe \in DOMAIN vibes
  BY DEF RefIntegrity, HasWorld
<1> QED BY <1>1 DEF GetWorldVibe

LEMMA ReadVibeKeepsIInv == ASSUME IInv, ReadVibe PROVE IInv'
<1> USE DEF IInv
<1> DEFINE moment == [WorldID |-> current, VibeID |-> read.CurrentVibe,
                      Vibe |-> GetWorldVibe(current), rest |-> read.rest]
<1>1. /\ pc = "vibe" /\ pc' = "next" /\ moments' = moments \cup {moment}
      /\ UNCHANGED <<vibes, worlds, todo, current, read, steady, still>>
      /\ calm' = IF still THEN calm \cup {current} ELSE calm
  BY DEF ReadVibe, repository
<1>2. moment.WorldID = current /\ moment.VibeID = read.CurrentVibe
      /\ moment.Vibe = GetWorldVibe(current)
  OBVIOUS
<1>3. RepositoryTypeOK' /\ RefIntegrity'
  BY <1>1 DEF TypeOK, RepositoryTypeOK, RefIntegrity
<1>4. moment \in Moment
  <2>1. GetWorldVibe(current) \in SUBSET VibeIds
    BY StoredWorlds DEF GetWorldVibe, TypeOK
  <2> QED BY <2>1 DEF Moment, TypeOK, World
<1>5. still => Agrees(moment)
  BY <1>1, <1>2, StillReadAgrees DEF StillRead, Agrees
<1> HIDE DEF moment
<1>6. TypeOK'
  BY <1>1, <1>3, <1>4 DEF TypeOK
<1>7. SteadyAccounted'
  BY <1>1, <1>2 DEF SteadyAccounted, HasWorld
<1>8. VisitedOnce'
  BY <1>1, <1>2 DEF VisitedOnce
<1>9. CalmHaveMoments' /\ IdleIsDone' /\ StillRead'
  BY <1>1, <1>2 DEF CalmHaveMoments, IdleIsDone, StillRead
<1>10. CalmMomentsAgree'
  <2> SUFFICES ASSUME NEW m \in moments', m.WorldID \in calm' PROVE Agrees(m)
    BY DEF CalmMomentsAgree, Agrees
  <2>1. CASE m = moment
    <3>1. current \notin calm
      BY <1>1 DEF CalmHaveMoments, VisitedOnce
    <3> QED BY <1>1, <1>2, <1>5, <2>1, <3>1
  <2>2. CASE m \in moments
    <3>1. m.WorldID # current
      BY <1>1, <2>2 DEF VisitedOnce
    <3> QED BY <1>1, <2>2, <3>1 DEF CalmMomentsAgree
  <2> QED BY <1>1, <2>1, <2>2
<1> QED BY <1>3, <1>6, <1>7, <1>8, <1>9, <1>10

LEMMA ReturnKeepsIInv == ASSUME IInv, Return PROVE IInv'
<1>1. /\ pc = "next" /\ pc' = "idle" /\ todo = {}
      /\ UNCHANGED <<vibes, worlds, todo, current, read, moments, steady, still, calm>>
  BY DEF Return, repository, history
<1>2. TypeOK' /\ RefIntegrity'
  BY <1>1 DEF IInv, TypeOK, RepositoryTypeOK, RefIntegrity
<1> QED BY <1>1, <1>2 DEF IInv, SteadyAccounted, HasWorld, VisitedOnce, StillRead,
                         CalmHaveMoments, IdleIsDone, CalmMomentsAgree

LEMMA WriteKeepsIInv == ASSUME IInv, Write PROVE IInv'
<1> USE DEF IInv
<1>1. /\ UNCHANGED <<pc, todo, current, read, moments, calm>>
      /\ steady' = steady \cap DOMAIN worlds'
      /\ still' = (still /\ HasWorld(current) /\ current \in DOMAIN worlds'
                     /\ worlds'[current] = worlds[current])
      /\ RepositoryNext
  BY DEF Write, call
<1>2. RepositoryTypeOK' /\ RefIntegrity'
  BY <1>1, RepositoryKeeps DEF TypeOK
<1>3. TypeOK'
  BY <1>1, <1>2 DEF TypeOK
<1>4. SteadyAccounted'
  BY <1>1 DEF SteadyAccounted, HasWorld
<1>5. StillRead'
  BY <1>1 DEF StillRead, HasWorld
<1>6. VisitedOnce' /\ CalmHaveMoments' /\ IdleIsDone' /\ CalmMomentsAgree'
  BY <1>1 DEF VisitedOnce, CalmHaveMoments, IdleIsDone, CalmMomentsAgree, Agrees
<1> QED BY <1>2, <1>3, <1>4, <1>5, <1>6

LEMMA NextKeepsIInv == IInv /\ [Next]_vars => IInv'
<1> SUFFICES ASSUME IInv, [Next]_vars PROVE IInv'
  OBVIOUS
<1>1. CASE \E id \in WorldIds : GenerateMoment(id)
  BY <1>1, BeginKeepsIInv DEF GenerateMoment
<1>2. CASE GenerateAllMoments
  <2>1. GetAllWorlds \in SUBSET WorldIds
    BY StoredWorlds DEF GetAllWorlds, IInv, TypeOK
  <2> QED BY <1>2, <2>1, BeginKeepsIInv DEF GenerateAllMoments
<1>3. CASE NextWorld
  BY <1>3, NextWorldKeepsIInv
<1>4. CASE ReadWorld
  BY <1>4, ReadWorldKeepsIInv
<1>5. CASE ReadVibe
  BY <1>5, ReadVibeKeepsIInv
<1>6. CASE Return
  BY <1>6, ReturnKeepsIInv
<1>7. CASE Write
  BY <1>7, WriteKeepsIInv
<1>8. CASE UNCHANGED vars
  <2>1. UNCHANGED <<vibes, worlds, pc, todo, current, read, moments, steady, still, calm>>
    BY <1>8 DEF vars, repository, call, history
  <2>2. TypeOK' /\ RefIntegrity'
    BY <2>1 DEF IInv, TypeOK, RepositoryTypeOK, RefIntegrity
  <2> QED BY <2>1, <2>2 DEF IInv, SteadyAccounted, HasWorld, VisitedOnce, StillRead,
                           CalmHaveMoments, IdleIsDone, CalmMomentsAgree
<1> QED BY <1>1, <1>2, <1>3, <1>4, <1>5, <1>6, <1>7, <1>8 DEF Next

\* The invariant holds in every reachable state.
THEOREM InductiveInvariant == Spec => []IInv
<1> QED BY InitEstablishesIInv, NextKeepsIInv, PTL DEF Spec

\* A moment of a world that did not change between the two reads names the vibe
\* it carries: no interleaving with the vibes alone can tear it.
THEOREM CalmMomentsAgreeHolds == Spec => []CalmMomentsAgree
<1>1. IInv => CalmMomentsAgree
  BY DEF IInv
<1> QED BY <1>1, InductiveInvariant, PTL

\* It is the snapshot of the repository that a single read would have taken.
THEOREM CalmMomentsAreSnapshotsHolds == Spec => CalmMomentsAreSnapshots
<1> DEFINE Snapshots == \A m \in moments' \ moments :
                 m.WorldID \in calm' => HasWorld(m.WorldID) /\ m = AtomicMoment(m.WorldID)
<1>1. ASSUME IInv, [Next]_vars, NEW m \in moments' \ moments, m.WorldID \in calm'
      PROVE  HasWorld(m.WorldID) /\ m = AtomicMoment(m.WorldID)
  <2>1. ReadVibe
    <3>1. moments' # moments /\ moments' # {}
      BY <1>1
    <3> QED BY <1>1, <3>1 DEF Next, vars, GenerateMoment, GenerateAllMoments, Begin, NextWorld,
                              ReadWorld, SkipWorld, Return, Write, call
  <2>2. /\ pc = "vibe"
        /\ m = [WorldID |-> current, VibeID |-> read.CurrentVibe,
                Vibe |-> GetWorldVibe(current), rest |-> read.rest]
        /\ calm' = IF still THEN calm \cup {current} ELSE calm
    BY <1>1, <2>1 DEF ReadVibe
  <2>3. current \notin calm
    BY <1>1, <2>2 DEF IInv, CalmHaveMoments, VisitedOnce
  <2>4. still /\ m.WorldID = current
    BY <1>1, <2>2, <2>3
  <2>5. HasWorld(current) /\ worlds[current] = read
    BY <1>1, <2>2, <2>4 DEF IInv, StillRead
  <2>6. GetWorldVibe(current) = {read.CurrentVibe} \ {NoVibe}
    BY <1>1, <2>5, StillReadAgrees DEF IInv
  <2> QED BY <2>2, <2>4, <2>5, <2>6 DEF AtomicMoment
<1>2. IInv /\ [Next]_vars => [Snapshots]_vars
  BY <1>1
<1> QED BY <1>2, InductiveInvariant, PTL DEF Spec, CalmMomentsAreSnapshots

\* When a call returns, every world that was stored all along has its one moment.
THEOREM NoSteadyWorldMissedHolds == Spec => []NoSteadyWorldMissed
<1>1. IInv => NoSteadyWorldMissed
  BY DEF IInv, NoSteadyWorldMissed, SteadyAccounted, VisitedOnce, IdleIsDone
<1> QED BY <1>1, InductiveInvariant, PTL
=============================================================================

SPECIFICATION Spec
CONSTANTS
    VibeIds = {"", "flow", "garden"}
    WorldIds = {"office", "zen"}
    NoVibe = ""
    VibeData = {"v0"}
    WorldData = {"w0"}
    sampleVibes <- SampleVibes
    sampleWorlds <- SampleWorlds
INVARIANTS
    IInv
    RefIntegrity
    NoSteadyWorldMissed
PROPERTY
    CalmMomentsAreSnapshots

---------------------------- MODULE MCRepository ----------------------------
(* Small instances of the repository and the moment generator. *)
EXTENDS MomentGenerator

\* The sample data: two worlds with a vibe each.
SampleVibes == [v \in {"flow", "garden"} |-> "v0"]
SampleWorlds ==
    [office |-> [CurrentVibe |-> "flow", rest |-> "w0"],
     zen |-> [CurrentVibe |-> "garden", rest |-> "w0"]]
=============================================================================
